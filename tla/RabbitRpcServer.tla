--------------------------- MODULE RabbitRpcServer ---------------------------
(***************************************************************************)
(* The native recognition server (native/rabbit.cpp, native/recog/src) at  *)
(* work on the RabbitMQ queue sogx.recog.queue, and the callers that wait  *)
(* for its replies.                                                        *)
(*                                                                         *)
(* runAndJoin starts one thread per element of Workers.  Each thread runs  *)
(* runBlocking: it opens a channel of its own, registers a consumer with   *)
(* no_ack = true, takes ONE message, replies, and destroys the channel     *)
(* again.  Because of no_ack the broker pushes messages to a registered    *)
(* consumer without waiting for it (prefetch only counts unacknowledged    *)
(* messages), and forgets a message once it has been pushed.               *)
(*                                                                         *)
(* The broker (queue, Push) and the calling side (Send, ReceiveReply,      *)
(* Timeout) are libraries; they are modelled from the way the code and     *)
(* module-context.xml use them.                                            *)
(***************************************************************************)
EXTENDS Naturals, Sequences, FiniteSets, SequencesExt

CONSTANTS
    Calls,          \* the requests
    CorrelationId,  \* CorrelationId[c]: the correlation id request c carries
    Decodable,      \* the requests whose image can be processed
    Workers,        \* the threads runAndJoin creates
    MaxFaults       \* bound on the number of broken connections

ASSUME ServerAssumption ==
    /\ Decodable \subseteq Calls
    /\ MaxFaults \in Nat

VARIABLES
    call,      \* the callers: state of the blocking call for each request
    answer,    \* the callers: the reply each of them has received
    replies,   \* replies[c]: contents of the temporary reply queue of c
    queue,     \* the broker: sogx.recog.queue
    pc,        \* pc[w]: the point thread w has reached in runBlocking
    channel,   \* channel[w]: messages pushed to w's consumer, not yet taken
    env,       \* env[w]: the message w is handling
    handled,   \* handled[c]: how often handleEnvelope was entered for c
    server,    \* the process: running, exited (join_all returned) or aborted
    faults     \* number of broken connections so far

vars == <<call, answer, replies, queue, pc, channel, env, handled, server, faults>>

Rpc == INSTANCE RecogRpc

None == [kind |-> "none"]

PcStates == {"open", "receive", "handle", "publish", "close", "ended"}

TypeOK ==
    /\ call \in [Calls -> Rpc!CallStates]
    /\ answer \in [Calls -> {Rpc!NoReply} \cup {Rpc!Reply(c) : c \in Calls}]
    /\ replies \in [Calls -> Seq({Rpc!Reply(c) : c \in Calls})]
    /\ queue \in Seq(Calls)
    /\ pc \in [Workers -> PcStates]
    /\ channel \in [Workers -> Seq(Calls)]
    /\ env \in [Workers -> Calls \cup {None}]
    /\ handled \in [Calls -> Nat]
    /\ server \in {"running", "exited", "aborted"}
    /\ faults \in 0..MaxFaults

Init ==
    /\ Rpc!RpcInit
    /\ replies = [c \in Calls |-> <<>>]
    /\ queue = <<>>
    /\ pc = [w \in Workers |-> "open"]
    /\ channel = [w \in Workers |-> <<>>]
    /\ env = [w \in Workers |-> None]
    /\ handled = [c \in Calls |-> 0]
    /\ server = "running"
    /\ faults = 0

-----------------------------------------------------------------------------
(* The calling side: RabbitTemplate.sendAndReceive behind the outbound     *)
(* gateway.  The temporary reply queue of a call exists while it is        *)
(* pending, and is deleted with everything in it when the call ends.       *)

ReplyQueueExists(c) == call[c] = "pending"

Send(c) ==
    /\ Rpc!Submit(c)
    /\ queue' = Append(queue, c)
    /\ UNCHANGED <<replies, pc, channel, env, handled, server, faults>>

ReceiveReply(c) ==
    /\ ReplyQueueExists(c)
    /\ replies[c] # <<>>
    /\ call' = [call EXCEPT ![c] = "answered"]
    /\ answer' = [answer EXCEPT ![c] = Head(replies[c])]
    /\ replies' = [replies EXCEPT ![c] = <<>>]
    /\ UNCHANGED <<queue, pc, channel, env, handled, server, faults>>

Timeout(c) ==
    /\ Rpc!GiveUp(c)
    /\ replies' = [replies EXCEPT ![c] = <<>>]
    /\ UNCHANGED <<queue, pc, channel, env, handled, server, faults>>

-----------------------------------------------------------------------------
(* The broker pushes the oldest message to any registered consumer, busy   *)
(* or not, and regards it as delivered.                                    *)

ConsumerRegistered(w) == pc[w] \in {"receive", "handle", "publish", "close"}

Push(w) ==
    /\ queue # <<>>
    /\ ConsumerRegistered(w)
    /\ channel' = [channel EXCEPT ![w] = Append(@, Head(queue))]
    /\ queue' = Tail(queue)
    /\ UNCHANGED <<call, answer, replies, pc, env, handled, server, faults>>

-----------------------------------------------------------------------------
(* runBlocking.                                                            *)

\* Mutant of OpenChannel: BasicConsume is forgotten.
OpenChannelWithoutConsumer(w) ==
    /\ pc[w] = "open"
    /\ server = "running"
    /\ pc' = [pc EXCEPT ![w] = "bound"]
    /\ UNCHANGED <<call, answer, replies, queue, channel, env, handled, server, faults>>

\* Channel::Create, BindQueue and BasicConsume succeed.
OpenChannel(w) ==
    /\ pc[w] = "open"
    /\ server = "running"
    /\ pc' = [pc EXCEPT ![w] = "receive"]
    /\ UNCHANGED <<call, answer, replies, queue, channel, env, handled, server, faults>>

\* One of the three throws.  They stand outside the try block, so the exception
\* leaves the thread function and std::terminate ends the process: every thread
\* stops, and what was pushed to their channels is gone.
OpenChannelThrows(w) ==
    /\ pc[w] = "open"
    /\ server = "running"
    /\ faults < MaxFaults
    /\ faults' = faults + 1
    /\ server' = "aborted"
    /\ pc' = [v \in Workers |-> "ended"]
    /\ channel' = [v \in Workers |-> <<>>]
    /\ env' = [v \in Workers |-> None]
    /\ UNCHANGED <<call, answer, replies, queue, handled>>

\* BasicConsumeMessage returns the first message pushed to the channel.
BasicConsumeMessage(w) ==
    /\ pc[w] = "receive"
    /\ channel[w] # <<>>
    /\ env' = [env EXCEPT ![w] = Head(channel[w])]
    /\ channel' = [channel EXCEPT ![w] = Tail(@)]
    /\ pc' = [pc EXCEPT ![w] = "handle"]
    /\ UNCHANGED <<call, answer, replies, queue, handled, server, faults>>

\* handleMessage catches everything, so it always returns a body.
HandleMessage(w) ==
    /\ pc[w] = "handle"
    /\ handled' = [handled EXCEPT ![env[w]] = @ + 1]
    /\ pc' = [pc EXCEPT ![w] = "publish"]
    /\ UNCHANGED <<call, answer, replies, queue, channel, env, server, faults>>

\* Mutant of Response: the correlation id is not copied.
ResponseUncorrelated(w) == [Rpc!Reply(env[w]) EXCEPT !.correlationId = "none"]

\* The response goes to the reply queue named by the request's ReplyTo.
Response(w) == Rpc!Reply(env[w])

\* Mutant of PublishReply: the thread serves one request only.
PublishReplyAndEnd(w) ==
    /\ pc[w] = "publish"
    /\ ReplyQueueExists(env[w])
    /\ replies' = [replies EXCEPT ![env[w]] = Append(@, Response(w))]
    /\ env' = [env EXCEPT ![w] = None]
    /\ channel' = [channel EXCEPT ![w] = <<>>]
    /\ pc' = [pc EXCEPT ![w] = "ended"]
    /\ UNCHANGED <<call, answer, queue, handled, server, faults>>

\* BasicPublish is confirmed.
PublishReply(w) ==
    /\ pc[w] = "publish"
    /\ ReplyQueueExists(env[w])
    /\ replies' = [replies EXCEPT ![env[w]] = Append(@, Response(w))]
    /\ env' = [env EXCEPT ![w] = None]
    /\ pc' = [pc EXCEPT ![w] = "close"]
    /\ UNCHANGED <<call, answer, queue, channel, handled, server, faults>>

\* The catch clause leaves the loop: the channel is destroyed by unwinding and
\* the thread function returns.
BreakLoop(w) ==
    /\ pc' = [pc EXCEPT ![w] = "ended"]
    /\ channel' = [channel EXCEPT ![w] = <<>>]
    /\ env' = [env EXCEPT ![w] = None]

\* The reply queue is gone; since the reply is mandatory the broker returns it
\* and BasicPublish throws MessageReturnedException, a runtime_error.
ReplyReturned(w) ==
    /\ pc[w] = "publish"
    /\ ~ReplyQueueExists(env[w])
    /\ BreakLoop(w)
    /\ UNCHANGED <<call, answer, replies, queue, handled, server, faults>>

\* The connection breaks while the thread waits for a message ...
ConsumeThrows(w) ==
    /\ pc[w] = "receive"
    /\ faults < MaxFaults
    /\ faults' = faults + 1
    /\ BreakLoop(w)
    /\ UNCHANGED <<call, answer, replies, queue, handled, server>>

\* Mutant of PublishThrows: the reply is published again after a failure.
PublishThrowsAndRetries(w) ==
    /\ pc[w] = "publish"
    /\ faults < MaxFaults
    /\ faults' = faults + 1
    /\ ReplyQueueExists(env[w])
    /\ replies' = [replies EXCEPT ![env[w]] = Append(@, Response(w))]
    /\ UNCHANGED <<call, answer, queue, pc, channel, env, handled, server>>

\* ... or for the confirmation of its reply, which may have been routed.
PublishThrows(w) ==
    /\ pc[w] = "publish"
    /\ faults < MaxFaults
    /\ faults' = faults + 1
    /\ BreakLoop(w)
    /\ \/ UNCHANGED replies
       \/ /\ ReplyQueueExists(env[w])
          /\ replies' = [replies EXCEPT ![env[w]] = Append(@, Response(w))]
    /\ UNCHANGED <<call, answer, queue, handled, server>>

\* The end of the loop body destroys the channel and what was pushed to it.
CloseChannel(w) ==
    /\ pc[w] = "close"
    /\ channel' = [channel EXCEPT ![w] = <<>>]
    /\ pc' = [pc EXCEPT ![w] = "open"]
    /\ UNCHANGED <<call, answer, replies, queue, env, handled, server, faults>>

\* join_all returns when every thread has ended; then main returns.
JoinAll ==
    /\ server = "running"
    /\ \A w \in Workers : pc[w] = "ended"
    /\ server' = "exited"
    /\ UNCHANGED <<call, answer, replies, queue, pc, channel, env, handled, faults>>

-----------------------------------------------------------------------------

WorkerStep(w) ==
    \/ OpenChannel(w)
    \/ BasicConsumeMessage(w)
    \/ HandleMessage(w)
    \/ PublishReply(w)
    \/ ReplyReturned(w)
    \/ CloseChannel(w)

Fault(w) == OpenChannelThrows(w) \/ ConsumeThrows(w) \/ PublishThrows(w)

Next ==
    \/ \E c \in Calls : Send(c) \/ ReceiveReply(c) \/ Timeout(c)
    \/ \E w \in Workers : Push(w) \/ WorkerStep(w) \/ Fault(w)
    \/ JoinAll

\* The threads run, the broker delivers, and the reply timeout of the caller
\* expires.  Nothing obliges a connection to break or a caller to send.
Fairness ==
    /\ \A c \in Calls : WF_vars(ReceiveReply(c) \/ Timeout(c))
    /\ \A w \in Workers : WF_vars(WorkerStep(w))
    /\ WF_vars(\E w \in Workers : Push(w))
    /\ WF_vars(JoinAll)

Spec == Init /\ [][Next]_vars /\ Fairness

-----------------------------------------------------------------------------
(* Where a request is.                                                      *)

Queued(c) == c \in ToSet(queue)
Pushed(c, w) == c \in ToSet(channel[w])
InHand(c, w) == pc[w] \in {"handle", "publish"} /\ env[w] = c

InFlight(c) == Queued(c) \/ \E w \in Workers : Pushed(c, w) \/ InHand(c, w)

\* The strengthening that makes the next two properties inductive: a request is
\* in one place at a time -- in the queue, in one channel, or in the hands of one
\* worker -- and only before it is handled can it be in one of the first two.
SinglePlace ==
    /\ IsInjective(queue)
    /\ \A w \in Workers :
          /\ IsInjective(channel[w])
          /\ ~ConsumerRegistered(w) => channel[w] = <<>>
          /\ pc[w] \in {"handle", "publish"} => env[w] \in Calls
    /\ \A c \in Calls, w \in Workers :
          /\ Queued(c) => ~Pushed(c, w) /\ ~InHand(c, w)
          /\ \A v \in Workers : Pushed(c, w) => ~InHand(c, v)
          /\ \A v \in Workers : Pushed(c, w) /\ Pushed(c, v) => w = v
          /\ \A v \in Workers : InHand(c, w) /\ InHand(c, v) => w = v

CountsMatch ==
    \A c \in Calls :
        /\ call[c] = "new" => ~InFlight(c) /\ handled[c] = 0
        /\ Queued(c) => handled[c] = 0
        /\ \A w \in Workers :
              /\ Pushed(c, w) => handled[c] = 0
              /\ InHand(c, w) /\ pc[w] = "handle" => handled[c] = 0
              /\ InHand(c, w) /\ pc[w] = "publish" => handled[c] = 1 /\ replies[c] = <<>>

RepliesMatch ==
    \A c \in Calls : \A i \in 1..Len(replies[c]) : replies[c][i] = Rpc!Reply(c)

\* A request is handled by one worker at most, and its reply is published at
\* most once: runBlocking takes each message from the broker once, however the
\* threads interleave, and no worker repeats a message another worker lost.
HandledAtMostOnce ==
    \A c \in Calls : handled[c] <= 1 /\ Len(replies[c]) <= handled[c]

\* The reply a caller receives was computed from its own frame and carries its
\* own correlation id: handleEnvelope copies ReplyTo and CorrelationId from the
\* request it handles, although several threads handle requests at once.
AnswersOwnFrame ==
    \A c \in Calls : call[c] = "answered" => answer[c] = Rpc!Reply(c)

\* The inductive invariant.
Inv ==
    TypeOK /\ SinglePlace /\ CountsMatch /\ RepliesMatch
        /\ HandledAtMostOnce /\ AnswersOwnFrame

\* Unless the process was aborted, every thread that ended was ended by a broken
\* connection or by the late reply to a call that had timed out, and each of
\* those ends one thread at most (the catch clause of runBlocking).
WorkerLossAccounted ==
    server # "aborted" =>
        Cardinality({w \in Workers : pc[w] = "ended"})
            <= faults + Cardinality({c \in Calls : call[c] = "timedOut" /\ handled[c] = 1})

\* The server implements the contract the web application relies on.
ImplementsRpc == Rpc!RpcSpec

\* A queued request does not stay in the queue while a worker thread lives.
QueueDrains ==
    \A c \in Calls :
        Queued(c) ~> (~Queued(c) \/ \A w \in Workers : pc[w] = "ended")

\* rabbit.h: runAndJoin "performs the handleEnvelope ... on the messages": with
\* the broker reachable and no call timed out, a request that was sent is on its
\* way to a worker or was handled.
EveryMessageHandled ==
    faults = 0 /\ (\A c \in Calls : call[c] # "timedOut") =>
        \A c \in Calls : call[c] # "new" => InFlight(c) \/ handled[c] > 0

=============================================================================
