---------------------------- MODULE RecogPipeline ----------------------------
(***************************************************************************)
(* The web application (jvm/src/main): frames arrive over raw WebSockets   *)
(* or are read from a file by an HTTP request, are recognised by a         *)
(* blocking call through the AMQP gateway, and end up in the session store *)
(* of RecogSessions, which publishes its contents to the browsers.         *)
(*                                                                         *)
(* Threads: the container calls handleMessage and afterConnectionClosed    *)
(* of a WebSocket session on one thread, named by the session; an HTTP     *)
(* request runs foo or bar on a thread of its own, named by the session it *)
(* makes up; Executors are the threads of asyncExecutor, which serve both  *)
(* dispatchChannel and webSocketHandlerChannel from one unbounded FIFO     *)
(* queue.                                                                  *)
(*                                                                         *)
(* RecogSessions keeps its responses in a java.util.HashMap that nothing   *)
(* synchronises.  A call that adds or removes an entry takes two steps     *)
(* here, and when two such calls overlap either may be lost; iterating     *)
(* over the values takes one step per session, and may or may not notice   *)
(* that an entry was added or removed meanwhile.                           *)
(***************************************************************************)
EXTENDS Naturals, Sequences, FiniteSets, SequencesExt

CONSTANTS
    WsSessions,    \* the raw WebSocket sessions (the iOS application)
    HttpSessions,  \* the sessions of /app/predef/image and /app/predef/coins
    Executors,     \* the threads of asyncExecutor
    MaxFrames,     \* MaxFrames[s]: bound on the number of frames of session s
    Decodable      \* the frames the vision code processes without throwing

Sessions == WsSessions \cup HttpSessions
Threads == Sessions \cup Executors

\* Frame n of session s.  decodeFrame and the splitter turn every chunk into
\* exactly one frame, for both content types.
Frames == UNION {{s} \X (1..MaxFrames[s]) : s \in Sessions}
SessionOf(f) == f[1]
Corr == [f \in Frames |-> SessionOf(f)]

ASSUME PipelineAssumption ==
    /\ WsSessions \cap HttpSessions = {}
    /\ Sessions \cap Executors = {}
    /\ MaxFrames \in [Sessions -> Nat]
    /\ Decodable \subseteq Frames

VARIABLES
    call, answer,  \* the gateway: see RecogRpc
    conn,          \* conn[s]: open, ending (sessionEnded is running) or ended
    sent,          \* sent[s]: number of frames of s read or received so far
    tasks,         \* the queue of asyncExecutor
    pc,            \* pc[t]: what thread t is doing
    job,           \* job[t]: the task or frame thread t is working on
    store,         \* the entries of the HashMap RecogSessions.sessions
    raced,         \* threads whose change of the map overlapped another one
    iter,          \* iter[t]: thread t's iteration over sessions.values()
    stale,         \* threads whose iterator was overtaken by a change
    shown          \* what the browser displays: $scope.sessions

vars == <<call, answer, conn, sent, tasks, pc, job, store, raced, iter, stale, shown>>

Rpc == INSTANCE RecogRpc WITH Calls <- Frames, CorrelationId <- Corr

Entry(s, r) == [session |-> s, response |-> r]
EntriesOf(s) == {e \in store : e.session = s}
Values(entries) == {e.response : e \in entries}

FrameTask(f) == [kind |-> "frame", frame |-> f]
TopicTask(v) == [kind |-> "topic", values |-> v]
OutTask(v) == [kind |-> "out", values |-> v]
NoJob == [kind |-> "none"]
NoIter == [left |-> {}, values |-> {}]

Responses == {Rpc!Reply(f) : f \in Frames}
Tasks == {FrameTask(f) : f \in Frames}
           \cup [kind : {"topic", "out"}, values : SUBSET Responses]

PcStates == {"idle", "next", "rpc", "inserting", "remove", "removing",
             "iterate", "broker", "out", "done"}

TypeOK ==
    /\ Rpc!RpcTypeOK
    /\ conn \in [Sessions -> {"open", "ending", "ended"}]
    /\ sent \in [Sessions -> Nat]
    /\ tasks \in Seq(Tasks)
    /\ pc \in [Threads -> PcStates]
    /\ job \in [Threads -> Tasks \cup {NoJob}]
    /\ store \subseteq [session : Sessions, response : Responses]
    /\ raced \subseteq Threads
    /\ iter \in [Threads -> [left : SUBSET Sessions, values : SUBSET Responses]]
    /\ stale \subseteq Threads
    /\ shown \subseteq Responses

Init ==
    /\ Rpc!RpcInit
    /\ conn = [s \in Sessions |-> "open"]
    /\ sent = [s \in Sessions |-> 0]
    /\ tasks = <<>>
    /\ pc = [t \in Threads |-> "idle"]
    /\ job = [t \in Threads |-> NoJob]
    /\ store = {}
    /\ raced = {}
    /\ iter = [t \in Threads |-> NoIter]
    /\ stale = {}
    /\ shown = {}

Goto(t, label) == pc' = [pc EXCEPT ![t] = label]

mapVars == <<store, raced, iter, stale>>
rpcVars == <<call, answer>>

-----------------------------------------------------------------------------
(* WebSocket side: MessagingWebSocketHandler, as WebConfig overrides it.    *)

\* A binary message arrives; it is put on dispatchChannel under the id of the
\* WebSocket session.
handleMessage(s) ==
    /\ conn[s] = "open"
    /\ sent[s] < MaxFrames[s]
    /\ sent' = [sent EXCEPT ![s] = @ + 1]
    /\ tasks' = Append(tasks, FrameTask(<<s, sent[s] + 1>>))
    /\ UNCHANGED <<rpcVars, conn, pc, job, mapVars, shown>>

\* The socket is closed: recogSessions().sessionEnded is called at once.
afterConnectionClosed(s) ==
    /\ conn[s] = "open"
    /\ conn' = [conn EXCEPT ![s] = "ending"]
    /\ Goto(s, "remove")
    /\ UNCHANGED <<rpcVars, sent, tasks, job, mapVars, shown>>

-----------------------------------------------------------------------------
(* HTTP side: RecogController.foo and bar, with Utils.reader.               *)

\* The request opens the file.
HttpStart(s) ==
    /\ pc[s] = "idle"
    /\ Goto(s, "next")
    /\ UNCHANGED <<rpcVars, conn, sent, tasks, job, mapVars, shown>>

\* Mutant of HttpNextChunk: the chunk goes through dispatchChannel.
HttpNextChunkAsync(s) ==
    /\ pc[s] = "next"
    /\ sent[s] < MaxFrames[s]
    /\ tasks' = Append(tasks, FrameTask(<<s, sent[s] + 1>>))
    /\ sent' = [sent EXCEPT ![s] = @ + 1]
    /\ UNCHANGED <<rpcVars, conn, pc, job, mapVars, shown>>

\* The reader has another chunk and passes it to imageChunk or mjpegChunk,
\* which runs the whole chain up to the gateway on this thread.
HttpNextChunk(s) ==
    /\ pc[s] = "next"
    /\ sent[s] < MaxFrames[s]
    /\ LET f == <<s, sent[s] + 1>>
       IN /\ Rpc!Submit(f)
          /\ job' = [job EXCEPT ![s] = FrameTask(f)]
    /\ sent' = [sent EXCEPT ![s] = @ + 1]
    /\ Goto(s, "rpc")
    /\ UNCHANGED <<conn, tasks, mapVars, shown>>

\* readAll or readChunks returns -- at the end of the file, or because
\* eatMyShorts swallowed an exception -- and sessionEnded is called.
HttpStreamEnds(s) ==
    /\ pc[s] = "next"
    /\ conn' = [conn EXCEPT ![s] = "ending"]
    /\ Goto(s, "remove")
    /\ UNCHANGED <<rpcVars, sent, tasks, job, mapVars, shown>>

-----------------------------------------------------------------------------
(* asyncExecutor: a free thread takes the oldest task.                      *)

\* The controller method image or mjpeg: on to the gateway, on this thread.
TakeFrame(e) ==
    /\ pc[e] = "idle"
    /\ tasks # <<>>
    /\ Head(tasks).kind = "frame"
    /\ Rpc!Submit(Head(tasks).frame)
    /\ job' = [job EXCEPT ![e] = Head(tasks)]
    /\ tasks' = Tail(tasks)
    /\ Goto(e, "rpc")
    /\ UNCHANGED <<conn, sent, mapVars, shown>>

\* A message for the simple broker, or one on its way to a browser.
TakeMessage(e) ==
    /\ pc[e] = "idle"
    /\ tasks # <<>>
    /\ Head(tasks).kind \in {"topic", "out"}
    /\ job' = [job EXCEPT ![e] = Head(tasks)]
    /\ tasks' = Tail(tasks)
    /\ Goto(e, IF Head(tasks).kind = "topic" THEN "broker" ELSE "out")
    /\ UNCHANGED <<rpcVars, conn, sent, mapVars, shown>>

\* SimpleBrokerMessageHandler sends it off over webSocketHandlerChannel.
Broker(e) ==
    /\ pc[e] = "broker"
    /\ tasks' = Append(tasks, OutTask(job[e].values))
    /\ job' = [job EXCEPT ![e] = NoJob]
    /\ Goto(e, "idle")
    /\ UNCHANGED <<rpcVars, conn, sent, mapVars, shown>>

\* The browser receives it and replaces its list of sessions.
Deliver(e) ==
    /\ pc[e] = "out"
    /\ shown' = job[e].values
    /\ job' = [job EXCEPT ![e] = NoJob]
    /\ Goto(e, "idle")
    /\ UNCHANGED <<rpcVars, conn, sent, tasks, mapVars>>

-----------------------------------------------------------------------------
(* The end of the chain: the gateway returns, recogServiceActivator calls   *)
(* RecogSessions.onCoinResponse on the thread that sent the frame.          *)

\* Mutant of Throw: eatMyShorts does not catch.
ThrowUncaught(t) ==
    /\ job' = [job EXCEPT ![t] = NoJob]
    /\ UNCHANGED conn
    /\ Goto(t, IF t \in Executors THEN "idle" ELSE "done")

\* Where a thread goes when the code it called throws.  On an executor thread
\* the message is dropped; in foo and bar eatMyShorts ends the reading, unless
\* it is sessionEnded itself that throws, which ends the request or callback.
Throw(t) ==
    /\ job' = [job EXCEPT ![t] = NoJob]
    /\ IF t \in Executors
       THEN Goto(t, "idle") /\ UNCHANGED conn
       ELSE IF conn[t] = "open"
            THEN Goto(t, "remove") /\ conn' = [conn EXCEPT ![t] = "ending"]
            ELSE Goto(t, "done") /\ conn' = [conn EXCEPT ![t] = "ended"]

\* Where a thread goes when onCoinResponse or sessionEnded returns, or when the
\* chain ends without a reply.
Return(t) ==
    /\ job' = [job EXCEPT ![t] = NoJob]
    /\ IF t \in Executors
       THEN Goto(t, "idle") /\ UNCHANGED conn
       ELSE IF conn[t] = "open"
            THEN Goto(t, "next") /\ UNCHANGED conn
            ELSE Goto(t, "done") /\ conn' = [conn EXCEPT ![t] = "ended"]

\* The gateway returns the reply and the transformer turns it into a string.
GatewayReplied(t) == pc[t] = "rpc" /\ call[job[t].frame] = "answered"

\* Mutant of GatewayTimesOut: the gateway waits for ever.
GatewayNeverTimesOut(t) ==
    /\ pc[t] = "rpc"
    /\ call[job[t].frame] = "timedOut"
    /\ UNCHANGED vars

\* No reply in time.  Whether the gateway then throws or drops the message is
\* the library's default for requires-reply, so both are possible.
GatewayTimesOut(t) ==
    /\ pc[t] = "rpc"
    /\ call[job[t].frame] = "timedOut"
    /\ Throw(t) \/ Return(t)
    /\ UNCHANGED <<rpcVars, sent, tasks, mapVars, shown>>

-----------------------------------------------------------------------------
(* java.util.HashMap: put and remove.                                       *)

Writers == {t \in Threads : pc[t] \in {"inserting", "removing"}}

\* Threads iterating over the values: a structural change overtakes them all.
Iterators == {t \in Threads : pc[t] = "iterate"}

StartWriting(t) ==
    raced' = IF Writers = {} THEN raced ELSE raced \cup Writers \cup {t}

StopWriting(t) ==
    /\ raced' = raced \ {t}
    /\ stale' = stale \cup Iterators

\* The response is stored under the correlation id of the reply.
Key(t) == answer[job[t].frame].correlationId
NewEntry(t) == Entry(Key(t), answer[job[t].frame])

BeginIteration(t, entries) ==
    iter' = [iter EXCEPT ![t] = [left |-> {e.session : e \in entries}, values |-> {}]]

\* The key has an entry: its value is replaced, which is no structural change.
PutReplaces(t) ==
    /\ GatewayReplied(t)
    /\ \E e \in EntriesOf(Key(t)) : store' = (store \ {e}) \cup {NewEntry(t)}
    /\ BeginIteration(t, store')
    /\ Goto(t, "iterate")
    /\ UNCHANGED <<rpcVars, conn, sent, tasks, job, raced, stale, shown>>

\* The key has no entry: one is going to be linked in.
PutStartsInsert(t) ==
    /\ GatewayReplied(t)
    /\ EntriesOf(Key(t)) = {}
    /\ StartWriting(t)
    /\ Goto(t, "inserting")
    /\ UNCHANGED <<rpcVars, conn, sent, tasks, job, store, iter, stale, shown>>

PutEndsInsert(t) ==
    /\ pc[t] = "inserting"
    /\ \/ store' = store \cup {NewEntry(t)}
       \/ t \in raced /\ UNCHANGED store
    /\ StopWriting(t)
    /\ BeginIteration(t, store')
    /\ Goto(t, "iterate")
    /\ UNCHANGED <<rpcVars, conn, sent, tasks, job, shown>>

RemoveFindsNothing(s) ==
    /\ pc[s] = "remove"
    /\ EntriesOf(s) = {}
    /\ BeginIteration(s, store)
    /\ Goto(s, "iterate")
    /\ UNCHANGED <<rpcVars, conn, sent, tasks, job, store, raced, stale, shown>>

RemoveStarts(s) ==
    /\ pc[s] = "remove"
    /\ EntriesOf(s) # {}
    /\ StartWriting(s)
    /\ Goto(s, "removing")
    /\ UNCHANGED <<rpcVars, conn, sent, tasks, job, store, iter, stale, shown>>

RemoveEnds(s) ==
    /\ pc[s] = "removing"
    /\ \/ \E e \in EntriesOf(s) : store' = store \ {e}
       \/ s \in raced /\ UNCHANGED store
    /\ StopWriting(s)
    /\ BeginIteration(s, store')
    /\ Goto(s, "iterate")
    /\ UNCHANGED <<rpcVars, conn, sent, tasks, job, shown>>

-----------------------------------------------------------------------------
(* RecogSessions.sendSessions: convertAndSend turns sessions.values() into  *)
(* JSON on the calling thread and puts the message on dispatchChannel.      *)

StopIterating(t) ==
    /\ iter' = [iter EXCEPT ![t] = NoIter]
    /\ stale' = stale \ {t}

Visit(t) ==
    /\ pc[t] = "iterate"
    /\ \E s \in iter[t].left :
          iter' = [iter EXCEPT ![t].left = @ \ {s},
                               ![t].values = @ \cup Values(EntriesOf(s))]
    /\ UNCHANGED <<rpcVars, conn, sent, tasks, pc, job, store, raced, stale, shown>>

\* ConcurrentModificationException: the message is not sent.
VisitThrows(t) ==
    /\ pc[t] = "iterate"
    /\ t \in stale
    /\ iter[t].left # {}
    /\ StopIterating(t)
    /\ Throw(t)
    /\ UNCHANGED <<rpcVars, sent, tasks, store, raced, shown>>

SendSessions(t) ==
    /\ pc[t] = "iterate"
    /\ iter[t].left = {}
    /\ tasks' = Append(tasks, TopicTask(iter[t].values))
    /\ StopIterating(t)
    /\ Return(t)
    /\ UNCHANGED <<rpcVars, sent, store, raced, shown>>

-----------------------------------------------------------------------------

\* The recognition call proceeds as RecogRpc promises.
RpcStep(f) ==
    /\ Rpc!Answer(f) \/ Rpc!GiveUp(f)
    /\ UNCHANGED <<conn, sent, tasks, pc, job, mapVars, shown>>

\* onCoinResponse, on whichever thread sent the frame.
OnCoinResponse(t) ==
    GatewayTimesOut(t) \/ PutReplaces(t) \/ PutStartsInsert(t) \/ PutEndsInsert(t)

SessionEnded(s) == RemoveFindsNothing(s) \/ RemoveStarts(s) \/ RemoveEnds(s)

Iteration(t) == Visit(t) \/ VisitThrows(t) \/ SendSessions(t)

ExecutorStep(e) ==
    TakeFrame(e) \/ TakeMessage(e) \/ Broker(e) \/ Deliver(e)
        \/ OnCoinResponse(e) \/ Iteration(e)

HttpStep(s) ==
    HttpNextChunk(s) \/ HttpStreamEnds(s)
        \/ OnCoinResponse(s) \/ SessionEnded(s) \/ Iteration(s)

WsCloseStep(s) == SessionEnded(s) \/ Iteration(s)

Next ==
    \/ \E f \in Frames : RpcStep(f)
    \/ \E s \in WsSessions : handleMessage(s) \/ afterConnectionClosed(s) \/ WsCloseStep(s)
    \/ \E s \in HttpSessions : HttpStart(s) \/ HttpStep(s)
    \/ \E e \in Executors : ExecutorStep(e)

\* Threads run and the gateway's calls end; nothing makes a client send a
\* frame, close its socket or issue a request.
Fairness ==
    /\ \A f \in Frames : WF_vars(RpcStep(f))
    /\ \A s \in WsSessions : WF_vars(WsCloseStep(s))
    /\ \A s \in HttpSessions : WF_vars(HttpStep(s))
    /\ \A e \in Executors : WF_vars(ExecutorStep(e))

Spec == Init /\ [][Next]_vars /\ Fairness

-----------------------------------------------------------------------------

\* Thread t is between sending frame f and having stored its response.
Carries(t, f) ==
    /\ pc[t] \in {"rpc", "inserting"}
    /\ job[t].frame = f

\* Frame f waits for an executor thread or is carried by a thread.
Busy(f) == FrameTask(f) \in ToSet(tasks) \/ \E t \in Threads : Carries(t, f)

\* RecogController: "Because the readAll and readChunk functions block, when they
\* complete, we can safely call the recog session as ended."  Once foo or bar has
\* called sessionEnded, no thread and no queued task can store a response for
\* that session any more.
HttpEndIsFinal ==
    \A s \in HttpSessions :
        conn[s] # "open" => \A n \in 1..MaxFrames[s] : ~Busy(<<s, n>>)

\* The response kept for an HTTP session only ever moves to a later frame.
HttpFramesInOrder ==
    [][\A s \in HttpSessions : \A e \in EntriesOf(s), d \in EntriesOf(s)' :
           e.response.frame[2] <= d.response.frame[2]]_vars

\* Every frame that was received is eventually dealt with: executor threads that
\* block in the gateway and the messages of the topic share one pool, and still
\* neither can keep the other waiting for ever.
FrameCompletes == \A f \in Frames : Busy(f) ~> ~Busy(f)

\* A started HTTP request always ends its session, even if a call times out or
\* sendSessions throws in the middle of the stream (eatMyShorts).
HttpSessionEnds ==
    \A s \in HttpSessions : pc[s] = "next" ~> conn[s] = "ended"

\* RecogSessions: "When a session ends ..., we remove the just ended session".
EndedSessionsRemoved ==
    \A s \in Sessions : conn[s] = "ended" => EntriesOf(s) = {}

=============================================================================
