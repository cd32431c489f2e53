------------------------------ MODULE ChannelImpl ------------------------------
(***************************************************************************)
(* AmqpClient::Channel and its ChannelImpl (src/native/rabbitmq-cpp/src):  *)
(* one connection, over which every call of the program borrows an AMQP    *)
(* channel from a pool of free ones, or works on the channel of a consumer.*)
(* A call sends its request and then reads frames off the connection until *)
(* the answer is there; what it reads for other channels, or does not      *)
(* expect, it keeps in the frame queue of the channel.                     *)
(*                                                                         *)
(* The object is used by one thread: one call is in progress at a time.    *)
(* Every frame read is a step, between which the broker sends more.        *)
(***************************************************************************)
EXTENDS AmqpBroker, FiniteSets, SequencesExt

CONSTANTS
    Tags,           \* consumer tags
    ChannelMax,     \* amqp_get_channel_max, 0 for no limit
    MaxCalls,       \* bound on the number of calls
    MaxDeliveries   \* bound on the messages delivered to consumers

ASSUME TagsAssumption == NoTag \notin Tags
ASSUME BoundsAssumption == {ChannelMax, MaxCalls, MaxDeliveries} \subseteq Nat

VARIABLES
    m_open_channels,        \* the frame queue of each open channel
    m_free_channels,        \* the open channels no call or consumer uses
    m_consumer_channel_map, \* the channel of each consumer
    m_next_channel_id,      \* the channel id handed out last
    m_is_connected,
    call,                   \* the call in progress
    calls,                  \* calls so far
    broker,                 \* the broker and the frames it has sent
    envelopes,              \* history: the envelopes calls have returned
    outcomes                \* history: how BasicPublish calls have ended

impl == <<m_free_channels, m_consumer_channel_map, m_next_channel_id, m_is_connected>>
history == <<calls, envelopes, outcomes>>
vars == <<m_open_channels, impl, call, broker, history>>

\* Mutants of Responses: BasicPublish does not listen for basic.return, BasicGet
\* not for basic.get-empty.
ResponsesWithoutReturn ==
    [DoRpc |-> {"declare-ok"},
     BasicPublish |-> {"basic.ack"},
     BasicGet |-> {"basic.get-ok", "basic.get-empty"},
     BasicRecover |-> {"basic.recover-ok"},
     BasicConsume |-> {"basic.consume-ok"},
     BasicQos |-> {"basic.qos-ok"},
     BasicCancel |-> {"basic.cancel-ok"},
     BasicConsumeMessage |-> {"basic.deliver"}]
ResponsesWithoutEmpty == [ResponsesWithoutReturn EXCEPT
    !.BasicPublish = {"basic.ack", "basic.return"}, !.BasicGet = {"basic.get-ok"}]

\* The responses each call waits for, by the method it then reads.
Responses ==
    [DoRpc |-> {"declare-ok"},
     BasicPublish |-> {"basic.ack", "basic.return"},
     BasicGet |-> {"basic.get-ok", "basic.get-empty"},
     BasicRecover |-> {"basic.recover-ok"},
     BasicConsume |-> {"basic.consume-ok"},
     BasicQos |-> {"basic.qos-ok"},
     BasicCancel |-> {"basic.cancel-ok"},
     BasicConsumeMessage |-> {"basic.deliver"}]

Ops == DOMAIN Responses
Pooled == {"DoRpc", "BasicPublish", "BasicGet", "BasicConsume"}

\* Stages of a call: waiting for a method, then for the frames of a content.
Prelude == [open |-> {"channel.open-ok"}, select |-> {"confirm.select-ok"},
            qos |-> {"basic.qos-ok"}, confirm |-> {"basic.ack"}]
MethodStages == DOMAIN Prelude \cup {"reply"}
ContentStages == {"header", "body"}

NoFrame == Plain("")
NoCall == [op |-> "none", tag |-> NoTag, ch |-> 0, stage |-> "idle",
           pub |-> 0, held |-> NoFrame, header |-> NoFrame, body |-> <<>>]

Expected(k) == IF k.stage = "reply" THEN Responses[k.op] ELSE Prelude[k.stage]

is_expected_method(f, k) == f.type = "METHOD" /\ f.id \in Expected(k)

IsClose(f) == f.type = "METHOD" /\ f.id = "channel.close"

\* Positions in a frame queue of the frames that call k waits for.
ExpectedAt(q, k) == {i \in DOMAIN q : is_expected_method(q[i], k)}

Init ==
    /\ m_open_channels = [c \in {0} |-> <<>>]
    /\ m_free_channels = <<>>
    /\ m_consumer_channel_map = <<>>
    /\ m_next_channel_id = 1
    /\ m_is_connected = TRUE
    /\ call = NoCall
    /\ calls = 0
    /\ broker = NewBroker
    /\ envelopes = {}
    /\ outcomes = {}

-------------------------------------------------------------------------------
(* Memory, channels and the steps every call is made of.                     *)

\* Mutant of MaybeReleaseBuffers: only the queue of the current channel counts.
MaybeReleaseBuffersOwnQueue(queues) ==
    IF call.ch \notin DOMAIN queues \/ queues[call.ch] = <<>>
    THEN [c \in DOMAIN queues |->
            [i \in DOMAIN queues[c] |-> [queues[c][i] EXCEPT !.live = FALSE]]]
    ELSE queues

\* The pools of all channels are recycled once no frame queue holds a frame.
\* Between two frames the library is idle, so that it does recycle them.
MaybeReleaseBuffers(queues) ==
    IF \A c \in DOMAIN queues : queues[c] = <<>>
    THEN [c \in DOMAIN queues |->
            [i \in DOMAIN queues[c] |-> [queues[c][i] EXCEPT !.live = FALSE]]]
    ELSE queues

\* std::map::insert: a key that is there keeps its value.
Insert(f, x, y) == [z \in DOMAIN f \cup {x} |-> IF z \in DOMAIN f THEN f[z] ELSE y]

HasRoom == LET limit == IF ChannelMax = 0 THEN IdSpace - 1 ELSE ChannelMax
           IN  Cardinality(DOMAIN m_open_channels) < limit

\* The first id after the last one handed out that is not open, past the
\* largest id through 0.
GetNextChannelId ==
    LET id(k) == (m_next_channel_id + k) % IdSpace
        step  == CHOOSE k \in 1 .. IdSpace :
                    /\ id(k) \notin DOMAIN m_open_channels
                    /\ \A j \in 1 .. k - 1 : id(j) \in DOMAIN m_open_channels
    IN  id(step)

\* Send request r for call k, whose broker side is b, and go on as k.
Send(b, r, k) == broker' \in Serve(b, k.ch, r) /\ call' = k

Request(id, tag) == [id |-> id, tag |-> tag, msg |-> 0]

\* The request a call starts with once it has its channel.
FirstRequest(op, tag) ==
    CASE op = "DoRpc" -> Request("declare", NoTag)
      [] op = "BasicPublish" -> Request("basic.publish", NoTag)
      [] op = "BasicGet" -> Request("basic.get", NoTag)
      [] op \in {"BasicConsume", "BasicQos"} -> Request("basic.qos", NoTag)
      [] op = "BasicRecover" -> Request("basic.recover", NoTag)
      [] op = "BasicCancel" -> Request("basic.cancel", tag)

\* The call k has its channel: it sends the first request.
Enter(b, k) ==
    Send(b, FirstRequest(k.op, k.tag),
         [k EXCEPT !.stage = IF k.op = "BasicConsume" THEN "qos" ELSE "reply",
                   !.pub = IF k.op = "BasicPublish" THEN b.sent + 1 ELSE 0])

\* The call ends, with broker b and frame queues q.
EndCall(q, b) == m_open_channels' = q /\ broker' = b /\ call' = NoCall

\* The call goes on as k.
GoOn(q, b, k) == m_open_channels' = q /\ broker' = b /\ call' = k

\* The call ends and its channel is handed back.
ReturnChannel(q, b) ==
    /\ m_free_channels' = Append(m_free_channels, call.ch)
    /\ EndCall(MaybeReleaseBuffers(q), b)

\* The call ends with an exception because the broker closed its channel; q is
\* what is left of the frame queues.  The free channels and the consumers are
\* left as they are.
FinishCloseChannel(q, b) ==
    \E b2 \in Serve(b, call.ch, Request("channel.close-ok", NoTag)) : EndCall(q, b2)

Erase(q) == Restrict(q, DOMAIN q \ {call.ch})

-------------------------------------------------------------------------------
(* The calls.  CheckIsConnected is a guard: otherwise the call throws.       *)

Idle == call.op = "none" /\ m_is_connected /\ calls < MaxCalls

Called == calls' = calls + 1

\* GetChannel: a free channel, or a new one that is opened first.
GetChannel(k) ==
    \/ /\ m_free_channels # <<>>
       /\ m_free_channels' = Tail(m_free_channels)
       /\ Enter(broker, [k EXCEPT !.ch = Head(m_free_channels)])
       /\ UNCHANGED <<m_open_channels, m_next_channel_id>>
    \/ /\ m_free_channels = <<>>
       /\ HasRoom
       /\ m_next_channel_id' = GetNextChannelId
       /\ m_open_channels' = Insert(m_open_channels, GetNextChannelId, <<>>)
       /\ Send(broker, Request("channel.open", NoTag),
               [k EXCEPT !.ch = GetNextChannelId, !.stage = "open"])
       /\ UNCHANGED m_free_channels

\* DeclareExchange, DeleteExchange, BindExchange, UnbindExchange, DeclareQueue,
\* DeleteQueue, BindQueue, UnbindQueue and PurgeQueue, BasicPublish, BasicGet
\* and BasicConsume.
PooledCall(op, tag) ==
    /\ Idle
    /\ Called
    /\ GetChannel([NoCall EXCEPT !.op = op, !.tag = tag])
    /\ UNCHANGED <<m_consumer_channel_map, m_is_connected, envelopes, outcomes>>

DoRpc == PooledCall("DoRpc", NoTag)
BasicPublish == PooledCall("BasicPublish", NoTag)
BasicGet == PooledCall("BasicGet", NoTag)
BasicConsume(tag) == PooledCall("BasicConsume", tag)

\* BasicRecover, BasicQos and BasicCancel of a known consumer.  The request is
\* sent before GetChannelQueueOrThrow looks for the queue of the channel: if the
\* channel has been closed the call ends there, with the request sent.
ConsumerCall(op, tag) ==
    /\ Idle
    /\ tag \in DOMAIN m_consumer_channel_map
    /\ Called
    /\ LET k == [NoCall EXCEPT !.op = op, !.tag = tag, !.ch = m_consumer_channel_map[tag]]
       IN  IF k.ch \in DOMAIN m_open_channels
           THEN Enter(broker, k)
           ELSE broker' \in Serve(broker, k.ch, FirstRequest(op, tag)) /\ call' = call
    /\ UNCHANGED <<m_open_channels, impl, envelopes, outcomes>>

BasicRecover(tag) == ConsumerCall("BasicRecover", tag)
BasicQos(tag) == ConsumerCall("BasicQos", tag)
BasicCancel(tag) == ConsumerCall("BasicCancel", tag)

\* BasicConsumeMessage; on a closed channel it throws.
BasicConsumeMessage(tag) ==
    /\ Idle
    /\ tag \in DOMAIN m_consumer_channel_map
    /\ m_consumer_channel_map[tag] \in DOMAIN m_open_channels
    /\ Called
    /\ call' = [NoCall EXCEPT !.op = "BasicConsumeMessage", !.tag = tag,
                              !.ch = m_consumer_channel_map[tag], !.stage = "reply"]
    /\ UNCHANGED <<m_open_channels, impl, broker, envelopes, outcomes>>

\* BasicAck does not wait for an answer.
BasicAck(e) ==
    /\ Idle
    /\ e.ch \in DOMAIN m_open_channels
    /\ Called
    /\ broker' \in Serve(broker, e.ch, [id |-> "basic.ack", tag |-> NoTag, msg |-> e.msg])
    /\ UNCHANGED <<m_open_channels, impl, call, envelopes, outcomes>>

-------------------------------------------------------------------------------
(* The method a call waits for has arrived: f, with frame queues q and broker *)
(* b once it is taken.                                                        *)

\* CreateNewChannel goes on with confirm.select and then with the call itself.
ChannelOpened(q, b) ==
    /\ call.stage = "open"
    /\ m_open_channels' = q
    /\ Send(b, Request("confirm.select", NoTag), [call EXCEPT !.stage = "select"])
    /\ UNCHANGED <<impl, history>>

ConfirmSelected(q, b) ==
    /\ call.stage = "select"
    /\ m_open_channels' = q
    /\ Enter(b, call)
    /\ UNCHANGED <<impl, history>>

\* BasicConsume has set the prefetch count and subscribes.
QosSet(q, b) ==
    /\ call.stage = "qos"
    /\ m_open_channels' = MaybeReleaseBuffers(q)
    /\ Send(b, Request("basic.consume", call.tag), [call EXCEPT !.stage = "reply"])
    /\ UNCHANGED <<impl, history>>

\* DoRpc ends, BasicGet finds the queue empty.
Answered(f, q, b) ==
    /\ call.stage = "reply"
    /\ f.id \in {"declare-ok", "basic.get-empty"}
    /\ ReturnChannel(q, b)
    /\ UNCHANGED <<m_consumer_channel_map, m_next_channel_id, m_is_connected, history>>

\* BasicPublish ends: with the confirm of the message, or after the message came
\* back and was read.
Published(f, q, b) ==
    /\ f.id = "basic.ack"
    /\ outcomes' = outcomes \cup
          {[pub |-> call.pub, ack |-> f.msg, returned |-> call.stage = "confirm",
            content |-> call.header.msg]}
    /\ ReturnChannel(q, b)
    /\ UNCHANGED <<m_consumer_channel_map, m_next_channel_id, m_is_connected, calls, envelopes>>

\* A return or the answer to basic.get: the content comes next.
ContentFollows(f, q, b) ==
    /\ f.id \in {"basic.return", "basic.get-ok"}
    /\ GoOn(q, b, [call EXCEPT !.stage = "header", !.held = f])
    /\ UNCHANGED <<impl, history>>

\* BasicConsumeMessage has copied what it needs of the delivery when it releases
\* the buffers.
DeliveryFollows(f, q, b) ==
    /\ f.id = "basic.deliver"
    /\ GoOn(MaybeReleaseBuffers(q), b, [call EXCEPT !.stage = "header", !.held = f])
    /\ UNCHANGED <<impl, history>>

\* BasicRecover and BasicQos end.
Adjusted(f, q, b) ==
    /\ call.stage = "reply"
    /\ f.id \in {"basic.recover-ok", "basic.qos-ok"}
    /\ EndCall(MaybeReleaseBuffers(q), b)
    /\ UNCHANGED <<impl, history>>

\* BasicConsume ends (AddConsumer).
Consuming(f, q, b) ==
    /\ f.id = "basic.consume-ok"
    /\ m_consumer_channel_map' = Insert(m_consumer_channel_map, call.tag, call.ch)
    /\ EndCall(MaybeReleaseBuffers(q), b)
    /\ UNCHANGED <<m_free_channels, m_next_channel_id, m_is_connected, history>>

\* BasicCancel ends: the channel is free again, the frames in its queue stay.
Cancelled(f, q, b) ==
    /\ f.id = "basic.cancel-ok"
    /\ m_consumer_channel_map' =
          Restrict(m_consumer_channel_map, DOMAIN m_consumer_channel_map \ {call.tag})
    /\ ReturnChannel(q, b)
    /\ UNCHANGED <<m_next_channel_id, m_is_connected, history>>

MethodArrived(f, q, b) ==
    \/ ChannelOpened(q, b)
    \/ ConfirmSelected(q, b)
    \/ QosSet(q, b)
    \/ Answered(f, q, b)
    \/ Published(f, q, b)
    \/ ContentFollows(f, q, b)
    \/ DeliveryFollows(f, q, b)
    \/ Adjusted(f, q, b)
    \/ Consuming(f, q, b)
    \/ Cancelled(f, q, b)

-------------------------------------------------------------------------------
(* A frame of the content a call waits for: ReadContent.                     *)

Envelope(k) == [tag |-> k.held.tag, msg |-> k.held.msg,
                header |-> k.header, body |-> k.body, ch |-> k.ch]

\* Mutant of ContentComplete: after a basic.return BasicPublish hands the channel
\* back without waiting for the confirm.
ContentCompleteUnconfirmed(k, q, b) ==
    \/ /\ k.op = "BasicPublish"
       /\ ReturnChannel(q, b)
       /\ UNCHANGED <<m_consumer_channel_map, m_next_channel_id, m_is_connected, history>>
    \/ /\ k.op = "BasicGet"
       /\ envelopes' = envelopes \cup {Envelope(k)}
       /\ ReturnChannel(q, b)
       /\ UNCHANGED <<m_consumer_channel_map, m_next_channel_id, m_is_connected, calls, outcomes>>
    \/ /\ k.op = "BasicConsumeMessage"
       /\ envelopes' = envelopes \cup {Envelope(k)}
       /\ EndCall(MaybeReleaseBuffers(q), b)
       /\ UNCHANGED <<impl, calls, outcomes>>

\* The content is complete: k is the call with all of it.  BasicPublish waits
\* for the confirm, BasicGet and BasicConsumeMessage return an envelope.
ContentComplete(k, q, b) ==
    \/ /\ k.op = "BasicPublish"
       /\ GoOn(q, b, [k EXCEPT !.stage = "confirm"])
       /\ UNCHANGED <<impl, history>>
    \/ /\ k.op = "BasicGet"
       /\ envelopes' = envelopes \cup {Envelope(k)}
       /\ ReturnChannel(q, b)
       /\ UNCHANGED <<m_consumer_channel_map, m_next_channel_id, m_is_connected, calls, outcomes>>
    \/ /\ k.op = "BasicConsumeMessage"
       /\ envelopes' = envelopes \cup {Envelope(k)}
       /\ EndCall(MaybeReleaseBuffers(q), b)
       /\ UNCHANGED <<impl, calls, outcomes>>

\* Mutant of ContentRead: the last body frame stays in the queue.
ContentReadShort(k, q, b) ==
    \/ /\ Len(k.body) + 1 < k.header.n
       /\ GoOn(q, b, [k EXCEPT !.stage = "body"])
       /\ UNCHANGED <<impl, history>>
    \/ /\ Len(k.body) + 1 >= k.header.n
       /\ ContentComplete(k, q, b)

\* The call holds k after a frame of the content.
ContentRead(k, q, b) ==
    \/ /\ Len(k.body) < k.header.n
       /\ GoOn(q, b, [k EXCEPT !.stage = "body"])
       /\ UNCHANGED <<impl, history>>
    \/ /\ Len(k.body) >= k.header.n
       /\ ContentComplete(k, q, b)

\* A header first, then body frames; any other frame ends the call with an
\* exception, and the channel is not handed back.
ReadContent(f, q, b) ==
    \/ /\ call.stage = "header" /\ f.type = "HEADER"
       /\ ContentRead([call EXCEPT !.header = f], q, b)
    \/ /\ call.stage = "body" /\ f.type = "BODY"
       /\ ContentRead([call EXCEPT !.body = Append(@, f)], q, b)
    \/ /\ f.type # IF call.stage = "header" THEN "HEADER" ELSE "BODY"
       /\ EndCall(q, b)
       /\ UNCHANGED <<impl, history>>

-------------------------------------------------------------------------------
(* Where the frames come from.                                                *)

\* GetMethodOnChannel finds the method in the queue of the channel.
MethodFromQueue ==
    /\ call.stage \in MethodStages
    /\ LET queue == m_open_channels[call.ch]
           found == ExpectedAt(queue, call)
           first == CHOOSE i \in found : \A j \in found : i <= j
       IN  /\ found # {}
           /\ MethodArrived(queue[first],
                            [m_open_channels EXCEPT ![call.ch] = RemoveAt(@, first)], broker)

\* GetNextFrameOnChannel takes the first frame of the queue of the channel.
ContentFromQueue ==
    /\ call.stage \in ContentStages
    /\ m_open_channels[call.ch] # <<>>
    /\ LET f == Head(m_open_channels[call.ch])
           q == [m_open_channels EXCEPT ![call.ch] = Tail(@)]
       IN  \/ /\ IsClose(f)
              /\ FinishCloseChannel(Erase(q), broker)
              /\ UNCHANGED <<impl, history>>
           \/ /\ ~IsClose(f)
              /\ ReadContent(f, q, broker)

\* The call has found nothing in the queue and reads from the connection.
Reading ==
    \/ /\ call.stage \in MethodStages
       /\ ExpectedAt(m_open_channels[call.ch], call) = {}
    \/ /\ call.stage \in ContentStages
       /\ m_open_channels[call.ch] = <<>>

\* Mutant of OwnFrame: a frame the call does not expect is dropped.
OwnFrameDropping(f, b) ==
    \/ /\ call.stage \in MethodStages /\ is_expected_method(f, call)
       /\ MethodArrived(f, m_open_channels, b)
    \/ /\ call.stage \in MethodStages /\ ~is_expected_method(f, call)
       /\ GoOn(m_open_channels, b, call)
       /\ UNCHANGED <<impl, history>>
    \/ /\ call.stage \in ContentStages
       /\ ReadContent(f, m_open_channels, b)

\* Frame f of the call's own channel.  A channel.close is noticed here while the
\* call waits for a method, and what is not expected is queued.
OwnFrame(f, b) ==
    \/ /\ call.stage \in MethodStages /\ is_expected_method(f, call)
       /\ MethodArrived(f, m_open_channels, b)
    \/ /\ call.stage \in MethodStages /\ IsClose(f)
       /\ FinishCloseChannel(MaybeReleaseBuffers(Erase(m_open_channels)), b)
       /\ UNCHANGED <<impl, history>>
    \/ /\ call.stage \in MethodStages /\ ~is_expected_method(f, call) /\ ~IsClose(f)
       /\ GoOn([m_open_channels EXCEPT ![call.ch] = Append(@, f)], b, call)
       /\ UNCHANGED <<impl, history>>
    \/ /\ call.stage \in ContentStages
       /\ ReadContent(f, m_open_channels, b)

\* Frame f of another channel c is queued; without a queue the call throws.
OtherFrame(c, f, b) ==
    /\ IF c \in DOMAIN m_open_channels
       THEN GoOn([m_open_channels EXCEPT ![c] = Append(@, f)], b, call)
       ELSE EndCall(m_open_channels, b)
    /\ UNCHANGED <<impl, history>>

\* connection.close: FinishCloseConnection, and the call throws.
ConnectionFrame(b) ==
    /\ m_is_connected' = FALSE
    /\ EndCall(m_open_channels, b)
    /\ UNCHANGED <<m_free_channels, m_consumer_channel_map, m_next_channel_id, history>>

\* GetNextFrameFromBrokerOnChannel reads one frame, of channel c.
FrameFromBroker(c) ==
    /\ Reading
    /\ broker.out[c] # <<>>
    /\ LET f == Head(broker.out[c])
           b == [broker EXCEPT !.out[c] = Tail(@)]
       IN  \/ c = call.ch /\ OwnFrame(f, b)
           \/ c = 0 /\ ConnectionFrame(b)
           \/ c \notin {0, call.ch} /\ OtherFrame(c, f, b)

\* The time of BasicConsumeMessage is up before the delivery starts.  For a call
\* without a timeout this step never comes.
Timeout ==
    /\ call.op = "BasicConsumeMessage" /\ call.stage = "reply"
    /\ Reading
    /\ EndCall(m_open_channels, broker)
    /\ UNCHANGED <<impl, history>>

-------------------------------------------------------------------------------
(* The broker's own steps.                                                    *)

Deliver(c, tag) ==
    /\ broker.up
    /\ tag \in broker.consumers[c]
    /\ Cardinality(UNION {broker.delivered[d] : d \in Ids}) < MaxDeliveries
    /\ \E n \in BodyFrames :
          broker' = Delivered(broker, c, "basic.deliver", tag, n)
    /\ UNCHANGED <<m_open_channels, impl, call, history>>

\* The broker, or its operator, closes the connection.
ForceClose ==
    /\ broker.up
    /\ broker' = CloseConnection(broker)
    /\ UNCHANGED <<m_open_channels, impl, call, history>>

CallStep ==
    \/ MethodFromQueue
    \/ ContentFromQueue
    \/ \E c \in Ids : FrameFromBroker(c)

Next ==
    \/ DoRpc
    \/ BasicPublish
    \/ BasicGet
    \/ \E tag \in Tags :
          \/ BasicConsume(tag)
          \/ BasicRecover(tag)
          \/ BasicQos(tag)
          \/ BasicCancel(tag)
          \/ BasicConsumeMessage(tag)
    \/ \E e \in envelopes : BasicAck(e)
    \/ CallStep
    \/ Timeout
    \/ \E c \in Ids, tag \in Tags : Deliver(c, tag)
    \/ ForceClose

\* The thread that calls goes on as long as there is something to read.
Spec == Init /\ [][Next]_vars /\ WF_vars(CallStep)

-------------------------------------------------------------------------------
(* Properties.                                                                *)

\* What the broker sends, and no method.
MethodIds == {"channel.open-ok", "confirm.select-ok", "declare-ok", "basic.qos-ok", "basic.ack",
              "basic.nack", "basic.return", "basic.get-ok", "basic.get-empty", "basic.recover-ok",
              "basic.consume-ok", "basic.cancel-ok", "basic.deliver", "channel.close",
              "connection.close", ""}

Frames == [type : {"METHOD", "HEADER", "BODY"}, id : MethodIds, tag : Tags \cup {NoTag},
           msg : Nat, n : Nat, live : BOOLEAN]

\* The variables have their types; channel 0 is open and nothing is queued for it.
TypeOK ==
    /\ DOMAIN m_open_channels \subseteq Ids
    /\ \A c \in DOMAIN m_open_channels : m_open_channels[c] \in Seq(Frames)
    /\ 0 \in DOMAIN m_open_channels /\ m_open_channels[0] = <<>>
    /\ m_free_channels \in Seq(Ids)
    /\ DOMAIN m_consumer_channel_map \subseteq Tags
    /\ Range(m_consumer_channel_map) \subseteq Ids
    /\ m_next_channel_id \in Ids
    /\ m_is_connected \in BOOLEAN
    /\ call.op \in Ops \cup {"none"} /\ call.ch \in Ids
    /\ calls \in 0 .. MaxCalls

\* An envelope holds the content of the message its delivery announced, complete
\* and in order, whatever frames of other channels and other messages were read
\* in between (BasicGet, BasicConsumeMessage and ReadContent).
EnvelopesIntact ==
    \A e \in envelopes :
        /\ e.header.msg = e.msg
        /\ e.body = [k \in 1 .. e.header.n |-> Body(e.msg, k)]

\* BasicPublish ends with the confirm of its own message, and throws
\* MessageReturnedException, with that message, exactly if the broker returned it.
PublishTruthful ==
    \A o \in outcomes :
        /\ o.ack = o.pub
        /\ o.returned <=> o.pub \in broker.returned
        /\ o.returned => o.content = o.pub

\* Replies, the methods some call waits for.
ReplyMethods == (UNION ({Responses[op] : op \in Ops} \cup {Prelude[s] : s \in DOMAIN Prelude}))
                  \ {"basic.deliver"}

\* A channel in the free list is open, is there once, belongs to no consumer and
\* to no call in progress, and no answer to an earlier call is still to be read
\* on it: the next call would take it for its own.
FreeChannelsClean ==
    /\ \A i, j \in DOMAIN m_free_channels :
          m_free_channels[i] = m_free_channels[j] => i = j
    /\ \A c \in Range(m_free_channels) :
          /\ c \in DOMAIN m_open_channels \ {0}
          /\ broker.consumers[c] = {}
          /\ call.op # "none" => c # call.ch
          /\ c \notin Range(m_consumer_channel_map)
          /\ \A f \in Range(m_open_channels[c] \o broker.out[c]) :
                f.type = "METHOD" => f.id \notin ReplyMethods

\* No frame in a queue lies in memory that the library has recycled.
QueuedFramesLive ==
    \A c \in DOMAIN m_open_channels : \A f \in Range(m_open_channels[c]) : f.live

\* While the connection is open, every message delivered to a consumer that still
\* has its channel is on the way to the client, in its queue, in its hand or in an envelope: reading for another
\* call never drops one.
NothingDropped ==
    m_is_connected =>
    \A c \in DOMAIN m_open_channels : broker.consumers[c] # {} =>
        \A m \in broker.delivered[c] :
            \/ \E e \in envelopes : e.msg = m
            \/ call.held.msg = m
            \/ \E f \in Range(m_open_channels[c] \o broker.out[c]) :
                  f.id = "basic.deliver" /\ f.msg = m

\* The call waits for an answer on a channel, with the close of that channel in
\* the queue.
Deaf == /\ call.stage \in MethodStages
        /\ \E f \in Range(m_open_channels[call.ch]) : IsClose(f)
        /\ ExpectedAt(m_open_channels[call.ch], call) = {}

\* BasicPublish waits for a confirm and the broker has refused the message.
Nacked == /\ call.op = "BasicPublish"
          /\ \E f \in Range(m_open_channels[call.ch]) : f.id = "basic.nack"

\* Every call ends, returning or throwing, as long as the thread reads on; the
\* only calls that wait for ever are BasicConsumeMessage when nothing is delivered,
\* BasicPublish after a basic.nack, and a call on a channel whose close an earlier
\* call has read.
CallsEnd ==
    call.op # "none" ~> \/ call.op = "none"
                        \/ Deaf
                        \/ Nacked
                        \/ call.op = "BasicConsumeMessage" /\ call.stage = "reply"

===============================================================================
