------------------------------- MODULE Streamer -------------------------------
(***************************************************************************)
(* The iOS application: the buttons of ViewController, the connection      *)
(* objects of CVServer (mjpegInput, the input in use) and the life of the  *)
(* WebSocket underneath (src/ios/Streamer, src/ios/UnittWebSocketClient).  *)
(*                                                                         *)
(* Three kinds of threads take part.  The main thread runs the handlers of *)
(* the buttons, from beginning to end, and the timers in between.  The     *)
(* capture queue submits camera frames.  Every socket has a delegate queue *)
(* on which the WebSocket reacts to the server.  None of them takes a lock.*)
(***************************************************************************)
EXTENDS Integers, Sequences, FiniteSets

CONSTANTS
    MaxConns,               \* bound on the connections opened
    MaxFrames,              \* bound on the camera frames submitted
    CameraParts,            \* the numbers of fragments a camera frame may need
    FileChunks              \* chunks in the predefined file

ASSUME StreamerAssumption ==
    /\ MaxConns \in Nat /\ MaxFrames \in Nat /\ FileChunks \in Nat
    /\ CameraParts \subseteq Nat \ {0}

Conns == 1..MaxConns
Nil == 0
Main == "main"
Camera == "camera"
Threads == {Main, Camera}

VARIABLES
    mpc,                    \* where the main thread is
    mconn,                  \* the connection it opens, feeds or closes
    button,                 \* the handler it is in
    chunk,                  \* chunks of the file read so far
    capturing,
    running,                \* the capture session is running
    serverConnectionInput,
    frames,                 \* camera frames to be submitted so far
    sending,                \* per thread: its progress in submitFrameRaw
    opened,                 \* connections created
    readystate, isClosing, timer, semaphore,
    socket,                 \* the state of the GCDAsyncSocket
    wire,                   \* what has been written to the socket
    serverClose,            \* the server's close message
    replaced                \* history: inputs that predefStopStart replaced while capturing

mainVars == <<mpc, mconn, button, chunk>>
viewVars == <<capturing, running, serverConnectionInput, replaced>>
wsVars == <<readystate, isClosing, timer, semaphore>>
netVars == <<socket, wire, serverClose>>
vars == <<mainVars, viewVars, frames, sending, opened, wsVars, netVars>>

Close == [from |-> "close", no |-> 0, part |-> 1, of |-> 1]
Fragment(t, n, i, k) == [from |-> t, no |-> n, part |-> i, of |-> k]
NotSending == [pc |-> "idle", conn |-> Nil, no |-> 0, part |-> 0, of |-> 0]

\* viewDidLoad
Init ==
    /\ mpc = "idle" /\ mconn = Nil /\ button = "none" /\ chunk = 0
    /\ capturing = FALSE /\ running = FALSE /\ serverConnectionInput = Nil
    /\ frames = 0 /\ opened = 0 /\ replaced = {}
    /\ sending = [t \in Threads |-> NotSending]
    /\ readystate = [c \in Conns |-> "Connecting"]
    /\ isClosing = [c \in Conns |-> FALSE]
    /\ timer = [c \in Conns |-> FALSE]
    /\ semaphore = [c \in Conns |-> 0]
    /\ socket = [c \in Conns |-> "none"]
    /\ wire = [c \in Conns |-> <<>>]
    /\ serverClose = [c \in Conns |-> "no"]

-----------------------------------------------------------------------------
(* Sending: submitFrameRaw and sendBinary, on the main thread or the       *)
(* capture queue.                                                          *)

\* writeData: a socket that is being or has been disconnected takes nothing.
Written(c, f) == IF socket[c] = "up" THEN [wire EXCEPT ![c] = Append(@, f)] ELSE wire

\* Mutant of Submit: readystate is not looked at.
SubmitAnyway(t) ==
    /\ sending[t].pc = "submit"
    /\ sending' = [sending EXCEPT ![t].pc = "fragments"]
    /\ UNCHANGED <<mainVars, viewVars, frames, opened, wsVars, netVars>>

\* submitFrameRaw: what comes when the socket is not open is dropped.
Submit(t) ==
    /\ sending[t].pc = "submit"
    /\ sending' = [sending EXCEPT ![t] =
          IF readystate[@.conn] = "Open" THEN [@ EXCEPT !.pc = "fragments"] ELSE NotSending]
    /\ UNCHANGED <<mainVars, viewVars, frames, opened, wsVars, netVars>>

\* sendMessage of one fragment.  isClosing never becomes NO again, so that the
\* rest of a message is dropped with its first fragment that is not sent.
SendFragment(t) ==
    LET s == sending[t] IN
    /\ s.pc = "fragments"
    /\ wire' = IF isClosing[s.conn] THEN wire
               ELSE Written(s.conn, Fragment(t, s.no, s.part, s.of))
    /\ sending' = [sending EXCEPT ![t] =
          IF s.part = s.of THEN NotSending ELSE [s EXCEPT !.part = @ + 1]]
    /\ UNCHANGED <<mainVars, viewVars, frames, opened, wsVars, socket, serverClose>>

-----------------------------------------------------------------------------
(* Closing.  stopRunning calls close on the main thread; its three effects *)
(* are seen by other threads one by one.                                   *)

SetClosing ==
    /\ mpc = "close"
    /\ readystate' = [readystate EXCEPT ![mconn] = "Closing"]
    /\ mpc' = "sendClose"
    /\ UNCHANGED <<mconn, button, chunk, viewVars, frames, sending, opened, netVars>>
    /\ UNCHANGED <<isClosing, timer, semaphore>>

\* Mutant of SendClose: no timer.
SendCloseAndHope ==
    /\ mpc = "sendClose"
    /\ wire' = Written(mconn, Close)
    /\ mpc' = "markClosing"
    /\ UNCHANGED <<mconn, button, chunk, viewVars, frames, sending, opened, wsVars>>
    /\ UNCHANGED <<socket, serverClose>>

\* The timer that is to force the close belongs to the run loop of this thread.
SendClose ==
    /\ mpc = "sendClose"
    /\ wire' = Written(mconn, Close)
    /\ timer' = [timer EXCEPT ![mconn] = TRUE]
    /\ mpc' = "markClosing"
    /\ UNCHANGED <<mconn, button, chunk, viewVars, frames, sending, opened, socket, serverClose>>
    /\ UNCHANGED <<readystate, isClosing, semaphore>>

MarkClosing ==
    /\ mpc = "markClosing"
    /\ isClosing' = [isClosing EXCEPT ![mconn] = TRUE]
    /\ mpc' = "stopped"
    /\ UNCHANGED <<mconn, button, chunk, viewVars, frames, sending, opened, netVars>>
    /\ UNCHANGED <<readystate, timer, semaphore>>

\* closeSocket: disconnectAfterWriting has no effect on a socket that is not
\* connected, and forbids reading and writing on one that is.
CloseSocket(c) ==
    /\ readystate' = [readystate EXCEPT ![c] = "Closing"]
    /\ socket' = [socket EXCEPT ![c] = IF @ = "up" THEN "flushing" ELSE @]

\* checkClose, in the run loop of the main thread.
CheckClose(c) ==
    /\ mpc = "idle" /\ timer[c]
    /\ timer' = [timer EXCEPT ![c] = FALSE]
    /\ IF readystate[c] = "Closing"
       THEN CloseSocket(c)
       ELSE UNCHANGED <<readystate, socket>>
    /\ UNCHANGED <<mainVars, viewVars, frames, sending, opened>>
    /\ UNCHANGED <<isClosing, semaphore, wire, serverClose>>

-----------------------------------------------------------------------------
(* The delegate queue of connection c.                                     *)

\* The server has answered the handshake: didReadData, dispatchOpened, didOpen.
DidOpen(c) ==
    /\ socket[c] = "connecting"
    /\ socket' = [socket EXCEPT ![c] = "up"]
    /\ readystate' = [readystate EXCEPT ![c] = "Open"]
    /\ semaphore' = [semaphore EXCEPT ![c] = @ + 1]
    /\ UNCHANGED <<mainVars, viewVars, frames, sending, opened>>
    /\ UNCHANGED <<isClosing, timer, wire, serverClose>>

\* The answer is no upgrade: didReceiveError writes a message, and nothing is
\* read from the socket any more.
BadHandshake(c) ==
    /\ socket[c] = "connecting"
    /\ socket' = [socket EXCEPT ![c] = "dead"]
    /\ UNCHANGED <<mainVars, viewVars, frames, sending, opened, wsVars>>
    /\ UNCHANGED <<wire, serverClose>>

\* handleClose: the server's close message has been read.  When the application
\* is not closing, the WebSocket answers with close; isClosing is set before, so
\* that no other thread can tell the steps of that close apart.  The thread behind
\* a delegate queue has no run loop: the timer set here never fires.
HandleClose(c) ==
    /\ socket[c] = "up" /\ serverClose[c] = "sent"
    /\ serverClose' = [serverClose EXCEPT ![c] = "read"]
    /\ \/ /\ isClosing[c]
          /\ CloseSocket(c)
          /\ UNCHANGED <<isClosing, wire>>
       \/ /\ ~isClosing[c]
          /\ isClosing' = [isClosing EXCEPT ![c] = TRUE]
          /\ readystate' = [readystate EXCEPT ![c] = "Closing"]
          /\ wire' = Written(c, Close)
          /\ UNCHANGED socket
    /\ UNCHANGED <<mainVars, viewVars, frames, sending, opened, timer, semaphore>>

\* socketDidDisconnect; didClose writes a message.
SocketDidDisconnect(c) ==
    /\ socket' = [socket EXCEPT ![c] = "down"]
    /\ readystate' = [readystate EXCEPT ![c] = "Closed"]
    /\ UNCHANGED <<mainVars, viewVars, frames, sending, opened>>
    /\ UNCHANGED <<isClosing, timer, semaphore, wire, serverClose>>

\* All is written after closeSocket.
Flushed(c) == socket[c] = "flushing" /\ SocketDidDisconnect(c)

\* The connection is refused, or has been lost.  What is written between the loss
\* and its notice goes nowhere, as what is submitted after it.
Lost(c) == socket[c] \in {"connecting", "up"} /\ SocketDidDisconnect(c)

\* The server.
ServerCloses(c) ==
    /\ socket[c] = "up" /\ serverClose[c] = "no"
    /\ serverClose' = [serverClose EXCEPT ![c] = "sent"]
    /\ UNCHANGED <<mainVars, viewVars, frames, sending, opened, wsVars>>
    /\ UNCHANGED <<socket, wire>>

-----------------------------------------------------------------------------
(* The capture queue.                                                      *)

\* captureOutput with a frame that is to be submitted, which is one in five.
CaptureOutput ==
    /\ running /\ frames < MaxFrames
    /\ sending[Camera].pc = "idle"
    /\ frames' = frames + 1
    /\ sending' = [sending EXCEPT ![Camera].pc = "input"]
    /\ UNCHANGED <<mainVars, viewVars, opened, wsVars, netVars>>

\* The callback reads serverConnectionInput; the session may have been stopped,
\* and another input begun, since it was called.  Before the first input is there
\* the message goes to nil.
SubmitFrame ==
    /\ sending[Camera].pc = "input"
    /\ \/ /\ serverConnectionInput = Nil
          /\ sending' = [sending EXCEPT ![Camera] = NotSending]
       \/ /\ serverConnectionInput # Nil
          /\ \E k \in CameraParts : sending' = [sending EXCEPT ![Camera] =
                [pc |-> "submit", conn |-> serverConnectionInput,
                 no |-> frames, part |-> 1, of |-> k]]
    /\ UNCHANGED <<mainVars, viewVars, frames, opened, wsVars, netVars>>

-----------------------------------------------------------------------------
(* The main thread.                                                        *)

\* The constructor of an input: a new socket, which connects or, when open
\* fails at once, never will.
InitWithUrl ==
    /\ opened < MaxConns
    /\ opened' = opened + 1
    /\ mconn' = opened + 1
    /\ \E outcome \in {"connecting", "dead"} :
          socket' = [socket EXCEPT ![opened + 1] = outcome]
    /\ mpc' = "semaphore"
    /\ UNCHANGED <<wire, serverClose>>

\* startStop when not capturing: the session runs before there is an input.
StartCapture ==
    /\ mpc = "idle" /\ ~capturing
    /\ button' = "start"
    /\ running' = TRUE
    /\ InitWithUrl
    /\ UNCHANGED <<chunk, capturing, serverConnectionInput, replaced>>
    /\ UNCHANGED <<frames, sending, wsVars>>

\* predefStopStart; the button is enabled while capturing, too.
PredefStopStart ==
    /\ mpc = "idle"
    /\ button' = "predef"
    /\ chunk' = 0
    /\ InitWithUrl
    /\ UNCHANGED <<viewVars, frames, sending, wsVars>>

\* The end of the constructor, and the assignment to serverConnectionInput.
SemaphoreWait ==
    /\ mpc = "semaphore" /\ semaphore[mconn] > 0
    /\ semaphore' = [semaphore EXCEPT ![mconn] = @ - 1]
    /\ serverConnectionInput' = mconn
    /\ replaced' = IF capturing THEN replaced \cup {serverConnectionInput} ELSE replaced
    /\ \/ /\ button = "start"
          /\ capturing' = TRUE
          /\ mpc' = "idle" /\ button' = "none" /\ mconn' = Nil
       \/ /\ button = "predef"
          /\ mpc' = "read"
          /\ UNCHANGED <<capturing, button, mconn>>
    /\ UNCHANGED <<chunk, running, frames, sending, opened, netVars>>
    /\ UNCHANGED <<readystate, isClosing, timer>>

\* readChunks: the next chunk, or the end of the file and stopRunning.
ReadChunk ==
    /\ mpc = "read" /\ sending[Main].pc = "idle"
    /\ \/ /\ chunk < FileChunks
          /\ chunk' = chunk + 1
          /\ sending' = [sending EXCEPT ![Main] =
                [pc |-> "submit", conn |-> mconn, no |-> chunk', part |-> 1, of |-> 1]]
          /\ UNCHANGED mpc
       \/ /\ chunk = FileChunks
          /\ mpc' = "close"
          /\ UNCHANGED <<chunk, sending>>
    /\ UNCHANGED <<mconn, button, viewVars, frames, opened, wsVars, netVars>>

\* Mutants of StopCapture: the input is cleared first; the session goes on.
StopCaptureCleared ==
    /\ mpc = "idle" /\ capturing
    /\ running' = FALSE
    /\ serverConnectionInput' = Nil
    /\ capturing' = FALSE
    /\ UNCHANGED <<mainVars, replaced, frames, sending, opened, wsVars, netVars>>
StopCaptureRunning ==
    /\ mpc = "idle" /\ capturing
    /\ button' = "stop"
    /\ mconn' = serverConnectionInput
    /\ mpc' = "close"
    /\ UNCHANGED <<chunk, viewVars, frames, sending, opened, wsVars, netVars>>

\* startStop when capturing, up to stopRunning of the input.
StopCapture ==
    /\ mpc = "idle" /\ capturing
    /\ button' = "stop"
    /\ running' = FALSE
    /\ mconn' = serverConnectionInput
    /\ mpc' = "close"
    /\ UNCHANGED <<chunk, capturing, serverConnectionInput, replaced>>
    /\ UNCHANGED <<frames, sending, opened, wsVars, netVars>>

\* The rest of the handler; predefStopStart keeps its input.
Stopped ==
    /\ mpc = "stopped"
    /\ IF button = "stop"
       THEN serverConnectionInput' = Nil /\ capturing' = FALSE
       ELSE UNCHANGED <<serverConnectionInput, capturing>>
    /\ mpc' = "idle" /\ button' = "none" /\ mconn' = Nil
    /\ UNCHANGED <<chunk, running, replaced, frames, sending, opened, wsVars, netVars>>

-----------------------------------------------------------------------------
Sends(t) == Submit(t) \/ SendFragment(t)
Closes == SetClosing \/ SendClose \/ MarkClosing
MainStep == SemaphoreWait \/ ReadChunk \/ Stopped \/ Sends(Main) \/ Closes
DelegateStep(c) == HandleClose(c) \/ Flushed(c)
Next ==
    \/ StartCapture \/ PredefStopStart \/ StopCapture \/ MainStep
    \/ CaptureOutput \/ SubmitFrame \/ Sends(Camera)
    \/ \E c \in Conns :
          \/ DidOpen(c) \/ BadHandshake(c) \/ DelegateStep(c) \/ CheckClose(c)
          \/ Lost(c) \/ ServerCloses(c)

\* Threads run and timers fire; nothing is assumed of the user, the camera, the
\* network and the server.
Fairness ==
    /\ WF_vars(MainStep)
    /\ WF_vars(SubmitFrame \/ Sends(Camera))
    /\ \A c \in Conns : WF_vars(DelegateStep(c)) /\ WF_vars(CheckClose(c))

Spec == Init /\ [][Next]_vars /\ Fairness

-----------------------------------------------------------------------------
(* Properties.                                                             *)

SendStates == [pc : {"idle", "input", "submit", "fragments"}, conn : Conns \cup {Nil},
               no : Nat, part : Nat,
               of : CameraParts \cup {0, 1}]

\* Every variable has a value of its kind; while capturing there is an input.
TypeOK ==
    /\ mpc \in {"idle", "semaphore", "read", "close", "sendClose", "markClosing", "stopped"}
    /\ button \in {"none", "start", "predef", "stop"}
    /\ {mconn, serverConnectionInput} \subseteq Conns \cup {Nil}
    /\ (mpc = "idle") <=> (mconn = Nil)
    /\ chunk \in 0..FileChunks /\ capturing \in BOOLEAN /\ running \in BOOLEAN
    /\ frames \in 0..MaxFrames
    /\ sending \in [Threads -> SendStates]
    /\ opened \in 0..MaxConns /\ replaced \subseteq Conns
    /\ readystate \in [Conns -> {"Connecting", "Open", "Closing", "Closed"}]
    /\ isClosing \in [Conns -> BOOLEAN] /\ timer \in [Conns -> BOOLEAN]
    /\ semaphore \in [Conns -> 0..1]
    /\ socket \in [Conns -> {"none", "connecting", "dead", "up", "flushing", "down"}]
    /\ serverClose \in [Conns -> {"no", "sent", "read"}]
    /\ capturing => serverConnectionInput # Nil

AfterClose(c) == {i \in DOMAIN wire[c] : \E j \in 1..(i - 1) : wire[c][j] = Close}

\* A thread that has looked at readystate before close can still write after the
\* close message, but only what is left of the one message it was about to send.
LateFrames ==
    \A c \in Conns : \A i, j \in AfterClose(c) :
        wire[c][i].from = wire[c][j].from => wire[c][i].no = wire[c][j].no

\* As long as predefStopStart is not used while capturing, the streams of camera
\* and file stay apart, but for the one frame whose callback outlives stopCapture.
StreamsSeparate ==
    replaced = {} =>
        \A c \in Conns : \A i, j, k \in DOMAIN wire[c] :
            /\ wire[c][i].from = Main
            /\ wire[c][j].from = Camera /\ wire[c][k].from = Camera
            => wire[c][j].no = wire[c][k].no

\* A connection that is still open when the application is idle and not capturing
\* was replaced by predefStopStart; stopCapture and readChunks close all others.
NothingLeftOpen ==
    mpc = "idle" /\ ~capturing =>
        \A c \in Conns : socket[c] = "up" /\ Close \notin {wire[c][i] : i \in DOMAIN wire[c]}
            => c \in replaced

\* A connection that has been told to stop is disconnected, even if the server
\* never answers, unless the main thread waits for ever for another connection.
StopDisconnects ==
    \A c \in Conns :
        (mpc = "close" /\ mconn = c) ~> (socket[c] # "up" \/ mpc = "semaphore")

=============================================================================
