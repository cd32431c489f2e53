------------------------------ MODULE AmqpBroker ------------------------------
(***************************************************************************)
(* The AMQP broker as the C++ client of src/native/rabbitmq-cpp sees it    *)
(* through one connection: an external service, modelled from the methods  *)
(* that client sends and the answers it waits for.                         *)
(*                                                                         *)
(* The broker is a record that the requests map to the set of records it   *)
(* may become.  A request is served when it is sent: what the broker does  *)
(* before it serves it could as well have happened before the client sent  *)
(* it.  The frames to the client wait in one sequence for each channel,    *)
(* and the client reads the head of any of them: the order within a        *)
(* channel is kept, frames of different channels interleave freely.        *)
(***************************************************************************)
EXTENDS Naturals, Sequences

CONSTANTS
    IdSpace,        \* number of channel ids; 2^16 in the code
    BodyFrames,     \* the possible numbers of body frames of a message
    NoAck           \* the consumers, NoTag for BasicGet, that ask for no_ack

ASSUME IdSpaceAssumption == IdSpace \in Nat /\ IdSpace > 2
ASSUME BodyFramesAssumption == BodyFrames \subseteq Nat

Ids == 0 .. IdSpace - 1

NoTag == "no tag"

\* An amqp_frame_t: a method (msg: the message a delivery, a return or a
\* confirm is about; tag: the consumer), a content header (n: the number of
\* body frames that body_size announces) or the n-th body frame.  live is
\* false once the memory pool that holds the frame has been recycled.
Method(id, tag, msg) ==
    [type |-> "METHOD", id |-> id, tag |-> tag, msg |-> msg, n |-> 0, live |-> TRUE]
Header(msg, n) ==
    [type |-> "HEADER", id |-> "", tag |-> NoTag, msg |-> msg, n |-> n, live |-> TRUE]
Body(msg, n) ==
    [type |-> "BODY", id |-> "", tag |-> NoTag, msg |-> msg, n |-> n, live |-> TRUE]

Plain(id) == Method(id, NoTag, 0)
Content(msg, n) == <<Header(msg, n)>> \o [k \in 1 .. n |-> Body(msg, k)]

\* The broker of a connection that amqp_login has just opened.
NewBroker ==
    [up        |-> TRUE,                             \* it still serves requests
     state     |-> [c \in Ids |-> "closed"],         \* closed, open or closing
     consumers |-> [c \in Ids |-> {}],               \* consumer tags by channel
     unacked   |-> [c \in Ids |-> {}],               \* deliveries not acknowledged
     delivered |-> [c \in Ids |-> {}],               \* history: all deliveries
     returned  |-> {},                               \* history: messages returned
     sent      |-> 0,                                \* messages so far
     out       |-> [c \in Ids |-> <<>>]]             \* frames on their way

Push(b, c, frames) == [b EXCEPT !.out[c] = @ \o frames]

CloseConnection(b) == [Push(b, 0, <<Plain("connection.close")>>) EXCEPT !.up = FALSE]

CloseChannel(b, c) ==
    [Push(b, c, <<Plain("channel.close")>>) EXCEPT
        !.state[c] = "closing", !.consumers[c] = {}, !.unacked[c] = {}]

\* A message that was published with the mandatory flag comes back.
Returned(b, c, n) ==
    [Push(b, c, <<Method("basic.return", NoTag, b.sent + 1)>> \o Content(b.sent + 1, n)
                  \o <<Method("basic.ack", NoTag, b.sent + 1)>>) EXCEPT
        !.sent = @ + 1, !.returned = @ \cup {b.sent + 1}]

\* A message for the client: the answer to basic.get, or a delivery.  Without
\* acknowledgements (no_ack) the broker forgets it.
Delivered(b, c, id, tag, n) ==
    [Push(b, c, <<Method(id, tag, b.sent + 1)>> \o Content(b.sent + 1, n)) EXCEPT
        !.sent = @ + 1,
        !.unacked[c] = IF tag \in NoAck THEN @ ELSE @ \cup {b.sent + 1},
        !.delivered[c] = IF id = "basic.deliver" THEN @ \cup {b.sent + 1} ELSE @]

\* What the broker may answer on an open channel (or to channel.open).
Replies(b, c, r) ==
    CASE r.id = "channel.open" ->
            {[Push(b, c, <<Plain("channel.open-ok")>>) EXCEPT !.state[c] = "open"]}
      [] r.id = "confirm.select" -> {Push(b, c, <<Plain("confirm.select-ok")>>)}
      [] r.id = "declare" -> {Push(b, c, <<Plain("declare-ok")>>), CloseChannel(b, c)}
      [] r.id = "basic.qos" -> {Push(b, c, <<Plain("basic.qos-ok")>>)}
      [] r.id = "basic.publish" ->
            {[Push(b, c, <<Method(id, NoTag, b.sent + 1)>>) EXCEPT !.sent = @ + 1] :
                id \in {"basic.ack", "basic.nack"}}
            \cup {Returned(b, c, n) : n \in BodyFrames}
            \cup {CloseChannel(b, c)}
      [] r.id = "basic.get" ->
            {Push(b, c, <<Plain("basic.get-empty")>>), CloseChannel(b, c)}
            \cup {Delivered(b, c, "basic.get-ok", NoTag, n) : n \in BodyFrames}
      [] r.id = "basic.recover" ->
            {[Push(b, c, <<Plain("basic.recover-ok")>>) EXCEPT !.unacked[c] = {}]}
      [] r.id = "basic.consume" ->
            {[Push(b, c, <<Plain("basic.consume-ok")>>) EXCEPT
                !.consumers[c] = @ \cup {r.tag}],
             CloseChannel(b, c)}
      [] r.id = "basic.cancel" ->
            {[Push(b, c, <<Plain("basic.cancel-ok")>>) EXCEPT
                !.consumers[c] = @ \ {r.tag}]}
      [] r.id = "basic.ack" ->
            IF r.msg \in b.unacked[c] THEN {[b EXCEPT !.unacked[c] = @ \ {r.msg}]}
                                      ELSE {CloseChannel(b, c)}

\* The broker after request r on channel c.  After connection.close it serves
\* nothing, on a channel it has closed it drops everything but the close-ok,
\* and a method on a channel that is not open is a connection error.
Serve(b, c, r) ==
    IF ~b.up THEN {b}
    ELSE IF b.state[c] = "closing"
         THEN {IF r.id = "channel.close-ok" THEN [b EXCEPT !.state[c] = "closed"] ELSE b}
    ELSE IF b.state[c] = "closed" /\ r.id # "channel.open" THEN {CloseConnection(b)}
    ELSE Replies(b, c, r)

===============================================================================
