---------------------------- MODULE AmqpConnection ----------------------------
(***************************************************************************)
(* A connection of rabbitmq-c (src/native/rabbitmq-c/librabbitmq,          *)
(* amqp_connection.c and amqp_socket.c) as AmqpClient::Channel uses it:    *)
(* login, waiting for frames, releasing buffers, close.                    *)
(*                                                                         *)
(* The server's frames arrive as bytes, in pieces of any size.  Byte k of  *)
(* frame i is the pair <<i, k>>, so that a frame that is put together      *)
(* wrongly is recognised.  Heartbeats are off (BROKER_HEARTBEAT is 0), and *)
(* so are all timers of the library.                                       *)
(***************************************************************************)
EXTENDS AmqpPool, Sequences, FiniteSets

CONSTANTS
    Frames,             \* the frames the server may send once the login is complete
    EarlyFrames,        \* those it may send before it answers connection.open
    MaxSent,            \* bound on the number of frames
    RecvSizes,          \* how many bytes recv may return
    InitialPageSize,    \* INITIAL_FRAME_POOL_PAGE_SIZE
    ClientFrameMax,     \* frame_max of the caller of amqp_login
    ServerFrameMax,     \* frame_max in the server's connection.tune, 0 for no limit
    BlockSize           \* the size of other blocks the library allocates, by their use

HEADER_SIZE == 7
FOOTER_SIZE == 1

FrameTypes == {"protocol", "method", "header", "body", "heartbeat", "unknown"}

\* What the server sends only as the answer to something.
Replies == {"start", "tune", "open-ok", "close-ok"}

ASSUME FramesAssumption ==
    /\ \A f \in Frames \cup EarlyFrames :
          /\ f.type \in FrameTypes \ {"protocol"} /\ f.channel \in Nat /\ f.size \in Nat
          /\ f.type = "method" => f.size > 0
          /\ f.id \notin Replies
    /\ BlockSize \in [{"method", "header", "sasl", "copy", "link"} -> Nat \ {0}]
    /\ RecvSizes \subseteq Nat \ {0}
    /\ {InitialPageSize, ClientFrameMax} \subseteq Nat \ {0}
    /\ ServerFrameMax \in Nat /\ MaxSent \in Nat

Method(id) == [type |-> "method", channel |-> 0, id |-> id, size |-> 5]
ProtocolHeader == [type |-> "protocol", channel |-> 0, id |-> "none", size |-> 0]
Answers == [header |-> "start", startOk |-> "tune", open |-> "open-ok", close |-> "close-ok"]

VARIABLES
    phase,          \* start, tune, open: in amqp_login; ready: between two calls;
                    \* wait: in amqp_simple_wait_frame; close; closed, failed
    asked,          \* the last message to the server that it has not answered
    state,          \* INITIAL, IDLE, HEADER, BODY
    target_size, inbound_offset,
    inbound_buffer, \* the bytes of header_buffer or of the block for the frame
    buffer,         \* what is left of sock_inbound_buffer
    pools,          \* the pool of each channel that has one
    frame_max,
    queued,         \* the library's queue of frames, by number
    heap,           \* history: the blocks of the pools and the frames they are for
    sent,           \* the frames the server has sent
    unread,         \* bytes on their way
    decoded,        \* history: the numbers of the frames decoded, 0 for garbage
    given,          \* history: the numbers of the frames handed to the application
    held            \* the frames the application still uses

inVars == <<state, target_size, inbound_offset, inbound_buffer>>
memVars == <<pools, heap>>
netVars == <<sent, unread>>
vars == <<phase, asked, inVars, buffer, memVars, frame_max, queued, netVars, decoded, given, held>>

Zero == <<0, 0>>
Dirt == <<0, 1>>
Header == [k \in 1..(HEADER_SIZE + 1) |-> Dirt]
Channels == {f.channel : f \in Frames \cup EarlyFrames} \cup {0}

Total(f) == f.size + HEADER_SIZE + FOOTER_SIZE

\* The first byte of a method's payload is the high byte of its class, which is 0.
Byte(f, i, k) == IF f.type = "method" /\ k = HEADER_SIZE + 1 THEN Zero ELSE <<i, k>>
Bytes(f, i) == [k \in 1..Total(f) |-> Byte(f, i, k)]

\* amqp_new_connection and the header amqp_login sends.
Init ==
    /\ phase = "start" /\ asked = "header"
    /\ state = "INITIAL" /\ target_size = HEADER_SIZE + 1 /\ inbound_offset = 0
    /\ inbound_buffer = Header
    /\ buffer = <<>> /\ pools = <<>> /\ heap = {}
    /\ frame_max = InitialPageSize
    /\ queued = <<>> /\ sent = <<>> /\ unread = <<>>
    /\ decoded = <<>> /\ given = <<>> /\ held = {}

Waiting == phase \in {"start", "tune", "open", "wait", "close"}

-----------------------------------------------------------------------------
(* The server (external).                                                  *)

\* Nothing follows a connection.close.
Closed == \E i \in DOMAIN sent : sent[i].channel = 0 /\ sent[i].id = "close"

Send(f) ==
    /\ Len(sent) < MaxSent /\ ~Closed
    /\ sent' = Append(sent, f)
    /\ unread' = unread \o Bytes(f, Len(sent) + 1)

\* The answer to what was asked; a server of another version answers the header
\* with its own.
ServerAnswers ==
    /\ asked # "none"
    /\ \/ Send(Method(Answers[asked]))
       \/ asked = "header" /\ Send(ProtocolHeader)
    /\ asked' = "none"
    /\ UNCHANGED <<phase, inVars, buffer, memVars, frame_max, queued, decoded, given, held>>

ServerSends ==
    /\ \/ phase \in {"tune", "open"} /\ asked # "none" /\ \E f \in EarlyFrames : Send(f)
       \/ phase \in {"ready", "wait", "close"} /\ \E f \in Frames : Send(f)
    /\ UNCHANGED <<phase, asked, inVars, buffer, memVars, frame_max, queued, decoded, given, held>>

-----------------------------------------------------------------------------
(* Reading: recv_with_timeout and amqp_handle_input.                       *)

Recv ==
    /\ Waiting /\ buffer = <<>>
    /\ \E n \in RecvSizes :
          /\ n <= Len(unread)
          /\ buffer' = SubSeq(unread, 1, n)
          /\ unread' = SubSeq(unread, n + 1, Len(unread))
    /\ UNCHANGED <<phase, asked, inVars, memVars, frame_max, queued, sent, decoded, given, held>>

\* The connection is lost while the client waits: the call fails.
RecvFails ==
    /\ Waiting /\ buffer = <<>>
    /\ phase' = IF phase = "close" THEN "closed" ELSE "failed"
    /\ UNCHANGED <<asked, inVars, buffer, memVars, frame_max, queued, netVars, decoded, given, held>>

\* consume_data: what is available and fits.
Consumed == IF Len(buffer) < target_size - inbound_offset
            THEN Len(buffer) ELSE target_size - inbound_offset

ConsumeData ==
    /\ Waiting /\ buffer # <<>>
    /\ inbound_offset < target_size
    /\ state' = IF state = "IDLE" THEN "HEADER" ELSE state
    /\ inbound_buffer' = [k \in DOMAIN inbound_buffer |->
          IF k \in (inbound_offset + 1)..(inbound_offset + Consumed)
          THEN buffer[k - inbound_offset] ELSE inbound_buffer[k]]
    /\ inbound_offset' = inbound_offset + Consumed
    /\ buffer' = SubSeq(buffer, Consumed + 1, Len(buffer))
    /\ UNCHANGED <<phase, asked, target_size, memVars, frame_max, queued, netVars, decoded, given, held>>

\* The frame whose header has been read, and its number.
Number == inbound_buffer[1][1]
Incoming == sent[Number]

\* return_to_idle
ReturnToIdle ==
    /\ state' = "IDLE"
    /\ target_size' = HEADER_SIZE
    /\ inbound_offset' = 0
    /\ inbound_buffer' = Header

\* amqp_get_or_create_channel_pool
PoolOf(m, channel) ==
    IF channel \in DOMAIN m.pools THEN m.pools[channel] ELSE init_amqp_pool(frame_max)

\* A block for frame i from the pool of its channel.
Record(m, channel, a, i) ==
    [pools |-> [c \in DOMAIN m.pools \cup {channel} |->
                   IF c = channel THEN a.pool ELSE m.pools[c]],
     heap |-> m.heap \cup {[channel |-> channel, block |-> a.block, for |-> i]}]
Alloc(m, channel, amount, i) ==
    Record(m, channel, amqp_pool_alloc(PoolOf(m, channel), amount), i)

Memory == [pools |-> pools, heap |-> heap]
SetMemory(m) == pools' = m.pools /\ heap' = m.heap

HeaderRead ==
    /\ Waiting /\ state \in {"INITIAL", "HEADER"} /\ inbound_offset = target_size

\* Mutant of StartBody: pages that are not cleared.
StartBodyDirty ==
    /\ HeaderRead /\ Incoming.type # "protocol"
    /\ SetMemory(Alloc(Memory, Incoming.channel, Total(Incoming), Number))
    /\ target_size' = Total(Incoming)
    /\ inbound_buffer' = [k \in 1..Total(Incoming) |->
          IF k <= HEADER_SIZE THEN inbound_buffer[k] ELSE Dirt]
    /\ state' = "BODY"
    /\ UNCHANGED <<phase, asked, inbound_offset, buffer, frame_max, queued, netVars, decoded, given, held>>
\* The header of a frame is complete: the frame gets a block, to which the header
\* is copied.  Of the 8 bytes read in state INITIAL this copies 7; the eighth is
\* right because the block is cleared and the byte 0.
StartBody ==
    /\ HeaderRead /\ Incoming.type # "protocol"
    /\ SetMemory(Alloc(Memory, Incoming.channel, Total(Incoming), Number))
    /\ target_size' = Total(Incoming)
    /\ inbound_buffer' = [k \in 1..Total(Incoming) |->
          IF k <= HEADER_SIZE THEN inbound_buffer[k]
          ELSE IF Zeroed(PoolOf(Memory, Incoming.channel), Total(Incoming)) THEN Zero ELSE Dirt]
    /\ state' = "BODY"
    /\ UNCHANGED <<phase, asked, inbound_offset, buffer, frame_max, queued, netVars, decoded, given, held>>

-----------------------------------------------------------------------------
(* A complete frame, and what the call in progress makes of it.            *)

FrameRead == Waiting /\ state = "BODY" /\ inbound_offset = target_size

\* The frame in the buffer if it is as the server has sent it.
Decoded == IF inbound_buffer = Bytes(Incoming, Number) THEN Number ELSE 0

\* amqp_decode_method and amqp_decode_properties allocate in the same pool.
AfterDecoding ==
    IF Incoming.type \in DOMAIN BlockSize
    THEN Alloc(Memory, Incoming.channel, BlockSize[Incoming.type], Number)
    ELSE Memory

FrameDecoded ==
    /\ ReturnToIdle
    /\ decoded' = Append(decoded, Decoded)
    /\ UNCHANGED <<buffer, netVars>>

Kept == Incoming.type \in {"method", "header", "body"}
IsMethod(id) == Incoming.type = "method" /\ Incoming.channel = 0 /\ Incoming.id = id

\* amqp_maybe_release_buffers_on_channel: a pool is kept while a frame of its channel
\* is queued.
Releasable(channel) == \A j \in DOMAIN queued : sent[queued[j]].channel # channel

\* Mutant of Recycled: pools are recycled although frames are queued.
RecycledAll(m, channels) ==
    [pools |-> [c \in DOMAIN m.pools |->
                   IF c \in channels THEN recycle_amqp_pool(m.pools[c]) ELSE m.pools[c]],
     heap |-> {a \in m.heap : a.channel \notin channels}]

Recycled(m, channels) ==
    [pools |-> [c \in DOMAIN m.pools |->
                   IF c \in channels /\ Releasable(c)
                   THEN recycle_amqp_pool(m.pools[c]) ELSE m.pools[c]],
     heap |-> {a \in m.heap : ~(a.channel \in channels /\ Releasable(a.channel))}]

\* amqp_release_buffers
Released(m) == Recycled(m, DOMAIN m.pools)

\* A heartbeat or a frame of unknown type: wait_frame_inner goes on.  A heartbeat
\* releases the buffers of channel 0.
SkipFrame ==
    /\ FrameRead
    /\ \/ Incoming.type = "heartbeat" /\ SetMemory(Recycled(Memory, {0}))
       \/ Incoming.type = "unknown" /\ UNCHANGED memVars
    /\ FrameDecoded
    /\ UNCHANGED <<phase, asked, frame_max, queued, given, held>>

\* A protocol header instead of connection.start: amqp_simple_wait_method closes
\* the socket.
WrongProtocol ==
    /\ HeaderRead /\ Incoming.type = "protocol"
    /\ ReturnToIdle
    /\ decoded' = Append(decoded, Number)
    /\ phase' = "failed"
    /\ UNCHANGED <<asked, buffer, memVars, frame_max, queued, netVars, given, held>>

\* amqp_login: connection.start is answered with the response of sasl_response, a
\* block in the pool of channel 0, and all buffers are released.
LoginStart ==
    /\ phase = "start" /\ FrameRead /\ IsMethod("start")
    /\ FrameDecoded
    /\ SetMemory(Released(Alloc(AfterDecoding, 0, BlockSize["sasl"], Number)))
    /\ phase' = "tune" /\ asked' = "startOk"
    /\ UNCHANGED <<frame_max, queued, given, held>>

\* connection.tune: the smaller frame_max is used, and connection.open sent.
LoginTune ==
    /\ phase = "tune" /\ FrameRead /\ IsMethod("tune")
    /\ FrameDecoded
    /\ frame_max' = IF ServerFrameMax # 0 /\ ServerFrameMax < ClientFrameMax
                    THEN ServerFrameMax ELSE ClientFrameMax
    /\ SetMemory(Released(AfterDecoding))
    /\ phase' = "open" /\ asked' = "open"
    /\ UNCHANGED <<queued, given, held>>

\* Another method: amqp_simple_wait_method closes the socket, and amqp_login fails.
LoginWrongMethod ==
    /\ FrameRead /\ Kept
    /\ \/ phase = "start" /\ ~IsMethod("start")
       \/ phase = "tune" /\ ~IsMethod("tune")
    /\ FrameDecoded
    /\ SetMemory(Released(AfterDecoding))
    /\ phase' = "failed"
    /\ UNCHANGED <<asked, frame_max, queued, given, held>>

\* amqp_simple_rpc has its reply, or the server closes the connection instead; both
\* end amqp_login, which releases buffers, or the close.
Reply == IsMethod(IF phase = "open" THEN "open-ok" ELSE "close-ok")
RpcReply ==
    /\ phase \in {"open", "close"} /\ FrameRead
    /\ \/ Reply /\ phase' = IF phase = "open" THEN "ready" ELSE "closed"
       \/ IsMethod("close") /\ phase' = "failed"
    /\ FrameDecoded
    /\ SetMemory(IF phase = "open" THEN Released(AfterDecoding) ELSE AfterDecoding)
    /\ UNCHANGED <<asked, frame_max, queued, given, held>>

\* Any other frame is kept for later.  The copy and the link are blocks of the pool
\* of the frame's channel.
Queued(m, f, i) == Alloc(Alloc(m, f.channel, BlockSize["copy"], i), f.channel, BlockSize["link"], i)

\* Mutant of RpcQueue: the new frame goes to the head of the queue.
RpcQueueFirst ==
    /\ phase \in {"open", "close"} /\ FrameRead
    /\ Kept /\ ~Reply /\ ~IsMethod("close")
    /\ FrameDecoded
    /\ queued' = <<Number>> \o queued
    /\ SetMemory(Queued(AfterDecoding, Incoming, Number))
    /\ UNCHANGED <<phase, asked, frame_max, given, held>>
RpcQueue ==
    /\ phase \in {"open", "close"} /\ FrameRead
    /\ Kept /\ ~Reply /\ ~IsMethod("close")
    /\ FrameDecoded
    /\ queued' = Append(queued, Number)
    /\ SetMemory(Queued(AfterDecoding, Incoming, Number))
    /\ UNCHANGED <<phase, asked, frame_max, given, held>>

\* What AmqpClient does with frame i: it keeps those of its channels, closes the
\* connection when the server does, and ignores others of channel 0.
Give(i) ==
    /\ given' = Append(given, i)
    /\ held' = IF sent[i].channel = 0 THEN held ELSE held \cup {i}
    /\ phase' = IF sent[i].channel = 0 /\ sent[i].id = "close" THEN "failed" ELSE "ready"

\* amqp_simple_wait_frame returns the frame.
WaitFrameReturns ==
    /\ phase = "wait" /\ FrameRead /\ Kept
    /\ FrameDecoded
    /\ SetMemory(AfterDecoding)
    /\ Give(Number)
    /\ UNCHANGED <<asked, frame_max, queued>>

-----------------------------------------------------------------------------
(* Calls of AmqpClient::Channel on a connection that is ready.             *)

\* amqp_simple_wait_frame takes a queued frame, or waits for the next.
WaitFrame ==
    /\ phase = "ready"
    /\ \/ /\ queued # <<>>
          /\ Give(Head(queued))
          /\ queued' = Tail(queued)
       \/ /\ queued = <<>>
          /\ phase' = "wait"
          /\ UNCHANGED <<given, held, queued>>
    /\ UNCHANGED <<asked, inVars, buffer, memVars, frame_max, netVars, decoded>>

\* MaybeReleaseBuffers of ChannelImpl, when it is done with all frames.
MaybeReleaseBuffers ==
    /\ phase = "ready" /\ held # {}
    /\ held' = {}
    /\ SetMemory(Released(Memory))
    /\ UNCHANGED <<phase, asked, inVars, buffer, frame_max, queued, netVars, decoded, given>>

\* The destructor: amqp_connection_close.
ConnectionClose ==
    /\ phase = "ready"
    /\ phase' = "close" /\ asked' = "close"
    /\ UNCHANGED <<inVars, buffer, memVars, frame_max, queued, netVars, decoded, given, held>>

-----------------------------------------------------------------------------
Read ==
    \/ Recv \/ ConsumeData \/ StartBody \/ SkipFrame \/ WrongProtocol
    \/ LoginStart \/ LoginTune \/ LoginWrongMethod \/ RpcReply \/ RpcQueue \/ WaitFrameReturns
Next ==
    \/ ServerAnswers \/ ServerSends \/ Read \/ RecvFails
    \/ WaitFrame \/ MaybeReleaseBuffers \/ ConnectionClose

Spec == Init /\ [][Next]_vars

-----------------------------------------------------------------------------
(* Properties.                                                             *)

\* The buffers have the sizes the offsets into them need, and the pools their form.
TypeOK ==
    /\ phase \in {"start", "tune", "open", "ready", "wait", "close", "closed", "failed"}
    /\ asked \in DOMAIN Answers \cup {"none"}
    /\ state \in {"INITIAL", "IDLE", "HEADER", "BODY"}
    /\ inbound_offset \in 0..target_size /\ target_size \in 0..Len(inbound_buffer)
    /\ state \in {"IDLE", "HEADER"} => target_size = HEADER_SIZE
    /\ DOMAIN pools \subseteq Channels
    /\ \A c \in DOMAIN pools :
          /\ pools[c].next_page \in 0..pools[c].pages
          /\ pools[c].alloc_block \in 0..pools[c].pages
          /\ pools[c].alloc_used \in 0..pools[c].pagesize
          /\ pools[c].dirty \in 0..pools[c].pages
    /\ frame_max \in Nat
    /\ held \subseteq DOMAIN sent

\* However the bytes of the server arrive, amqp_handle_input puts together the
\* frames it has sent, each once and in order, and leaves nothing half read: when
\* every byte has arrived and been looked at, a client that waits has decoded every
\* frame and waits for a new one.
FramesAsSent ==
    /\ \A j \in DOMAIN decoded : decoded[j] = j
    /\ Waiting /\ unread = <<>> /\ buffer = <<>> /\ ~HeaderRead /\ ~FrameRead
         => Len(decoded) = Len(sent) /\ inbound_offset = 0

\* Blocks in use do not overlap, and the block of a page lies within the page.
BlocksDisjoint ==
    /\ \A a, b \in heap : a # b /\ a.channel = b.channel => ~Overlap(a.block, b.block)
    /\ \A a \in heap : a.block.kind = "page" =>
          a.block.start + a.block.size <= pools[a.channel].pagesize

\* Frames the application holds, queued frames and the frame being read keep their
\* memory: releasing buffers never takes it away.
FramesKeepMemory ==
    \A j \in held \cup {queued[k] : k \in DOMAIN queued}
             \cup (IF state = "BODY" THEN {Number} ELSE {}) :
        \E a \in heap : a.for = j /\ a.channel = sent[j].channel

\* The application gets the frames in the order in which they were sent, and all
\* that were decoded but for the answers amqp_login and the close wait for.
KeptFrames == {i \in {decoded[j] : j \in DOMAIN decoded} \ {0} :
                  /\ sent[i].type \in {"method", "header", "body"}
                  /\ sent[i].id \notin Replies}
InOrder(q) == \A i, j \in DOMAIN q : i < j => q[i] < q[j]
GivenInOrder ==
    phase # "failed" =>
      /\ InOrder(given \o queued)
      /\ {(given \o queued)[i] : i \in DOMAIN (given \o queued)} = KeptFrames

=============================================================================
