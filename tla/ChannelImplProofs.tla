-------------------------- MODULE ChannelImplProofs --------------------------
(***************************************************************************)
(* Proofs about ChannelImpl, for any consumer tags, messages, behaviour of *)
(* the broker and number of calls, as long as the ids of the channels do   *)
(* not start again from the beginning: a consumer whose channel the broker *)
(* has closed keeps its entry, and once the id of that channel is given to *)
(* another one the two share it.                                           *)
(***************************************************************************)
EXTENDS ChannelImpl, SequenceTheorems, FiniteSetTheorems, WellFoundedInduction, TLAPS

\* A call opens one channel at most, with ids from 2 to IdSpace - 1 before the first
\* is used again: 2^16 - 2 calls.
FewCalls == MaxCalls + 2 <= IdSpace

-----------------------------------------------------------------------------
(* Types.                                                                   *)

Wire == [type : {"METHOD", "HEADER", "BODY"}, id : MethodIds, tag : Tags \cup {NoTag},
         msg : Nat, n : Nat, live : {TRUE}]

Brokers ==
    [up : BOOLEAN, state : [Ids -> {"closed", "open", "closing"}],
     consumers : [Ids -> SUBSET Tags], unacked : [Ids -> SUBSET Nat],
     delivered : [Ids -> SUBSET Nat], returned : SUBSET Nat, sent : Nat,
     out : [Ids -> Seq(Wire)]]

CallRecords ==
    [op : Ops \cup {"none"}, tag : Tags \cup {NoTag}, ch : Ids,
     stage : {"idle", "open", "select", "qos", "reply", "confirm", "header", "body"},
     pub : Nat, held : Wire, header : Wire, body : Seq(Wire)]

Envelopes ==
    [tag : Tags \cup {NoTag}, msg : Nat, header : Wire, body : Seq(Wire), ch : Ids \ {0}]

Busy == call.op # "none"

TypeInv ==
    /\ DOMAIN m_open_channels \subseteq Ids
    /\ m_open_channels \in [DOMAIN m_open_channels -> Seq(Wire)]
    /\ 0 \in DOMAIN m_open_channels /\ m_open_channels[0] = <<>>
    /\ m_free_channels \in Seq(Ids)
    /\ DOMAIN m_consumer_channel_map \subseteq Tags
    /\ m_consumer_channel_map \in [DOMAIN m_consumer_channel_map -> Ids]
    /\ m_next_channel_id \in Ids
    /\ m_is_connected \in BOOLEAN
    /\ call \in CallRecords
    /\ calls \in 0 .. MaxCalls
    /\ broker \in Brokers
    /\ envelopes \subseteq Envelopes

\* What a call does in its stages.
StageInv ==
    /\ ~Busy => call = NoCall
    /\ Busy => call.stage # "idle" /\ m_is_connected
    /\ call.stage \in {"open", "select"} => call.op \in Pooled
    /\ call.stage = "qos" => call.op = "BasicConsume"
    /\ call.stage = "confirm" => call.op = "BasicPublish"
    /\ call.stage \in ContentStages => call.op \in {"BasicPublish", "BasicGet", "BasicConsumeMessage"}
    /\ call.op = "BasicConsume" => call.tag \in Tags

-----------------------------------------------------------------------------
(* Who uses a channel.                                                      *)

\* Ids are handed out upwards, one per call at most; a channel is free, or a consumer's, or
\* the one of the call in progress, or lost.
ChannelInv ==
    /\ m_next_channel_id \in 1 .. calls + 1
    /\ DOMAIN m_open_channels \subseteq {0} \cup 2 .. m_next_channel_id
    /\ \A tag \in DOMAIN m_consumer_channel_map :
          m_consumer_channel_map[tag] \in 2 .. m_next_channel_id
    /\ \A s, t \in DOMAIN m_consumer_channel_map :
          m_consumer_channel_map[s] = m_consumer_channel_map[t] => s = t
    /\ \A i, j \in DOMAIN m_free_channels : m_free_channels[i] = m_free_channels[j] => i = j
    /\ \A i \in DOMAIN m_free_channels :
          /\ m_free_channels[i] \in DOMAIN m_open_channels \ {0}
          /\ \A tag \in DOMAIN m_consumer_channel_map :
                m_free_channels[i] # m_consumer_channel_map[tag]
          /\ Busy => m_free_channels[i] # call.ch
    /\ Busy => /\ call.ch \in DOMAIN m_open_channels \ {0}
               /\ call.op \in Pooled => \A tag \in DOMAIN m_consumer_channel_map :
                                           call.ch # m_consumer_channel_map[tag]
               /\ call.op \notin Pooled => /\ call.tag \in DOMAIN m_consumer_channel_map
                                           /\ call.ch = m_consumer_channel_map[call.tag]

\* What is on its way on channel c with frame queues q and broker b: the frames of the
\* queue, then those the broker has sent.
Flow(q, b, c) == q[c] \o b.out[c]

\* A channel the client has no queue for is not open at the broker, and nothing is on
\* its way on it; on every other channel the close comes last.  Only open channels have
\* consumers.
Tidy(q, b) ==
    /\ b.consumers[0] = {} /\ \A c \in Ids \ {0} : b.consumers[c] # {} => b.state[c] = "open"
    /\ \A c \in Ids \ (DOMAIN q \cup {0}) : b.out[c] = <<>> /\ b.state[c] # "open"
    /\ \A c \in DOMAIN q \ {0} : \A i \in 1 .. Len(Flow(q, b, c)) :
          IsClose(Flow(q, b, c)[i]) => i = Len(Flow(q, b, c)) /\ b.state[c] = "closing"

Stream(c) == Flow(m_open_channels, broker, c)

CloseInv == Tidy(m_open_channels, broker)

\* What every other invariant rests on.
Base == TypeInv /\ StageInv /\ ChannelInv /\ CloseInv

-----------------------------------------------------------------------------
(* The answers on their way.                                                *)

\* An answer to a call: all methods but deliveries and the close of the channel.
Answer(f) == f.type = "METHOD" /\ f.id \notin {"basic.deliver", "channel.close"}

Answers(s) == {i \in DOMAIN s : Answer(s[i])}

\* At most one answer is on its way, one of ids.
OneAnswer(s, ids) ==
    /\ \A i, j \in Answers(s) : i = j
    /\ \A i \in Answers(s) : s[i].id \in ids

\* The message p that came back will be confirmed.
Confirmed(s, p, b) ==
    /\ OneAnswer(s, {"basic.ack"})
    /\ \A i \in Answers(s) : s[i].msg = p
    /\ p \in b.returned

\* The answers to the publishing of message p: the confirm, the refusal, or the message
\* itself and then the confirm.
PublishAnswers(s, p, b) ==
    /\ \A i \in Answers(s) : s[i].id \in {"basic.ack", "basic.nack", "basic.return"} /\ s[i].msg = p
    /\ \A i, j \in Answers(s) : s[i].id = s[j].id \/ s[i].id = "basic.nack" => i = j
    /\ \A i, j \in Answers(s) : s[i].id = "basic.return" /\ s[j].id # "basic.return" => i < j
    /\ Answers(s) # {} => /\ p <= b.sent
                          /\ p \in b.returned <=> \E i \in Answers(s) : s[i].id = "basic.return"

\* The call has published its message and waits for the first answer.
Publishing(k) == k.op = "BasicPublish" /\ k.stage = "reply"

\* The call has read the return of its message.
Confirming(k) == k.op = "BasicPublish" /\ k.stage \in ContentStages \cup {"confirm"}

\* What call k finds on its channel.
Awaits(s, k, b) ==
    /\ Publishing(k) => PublishAnswers(s, k.pub, b)
    /\ Confirming(k) => Confirmed(s, k.pub, b)
    /\ k.stage \in MethodStages /\ ~Publishing(k) /\ ~Confirming(k) => OneAnswer(s, Expected(k))
    /\ k.stage \in ContentStages /\ ~Confirming(k) => Answers(s) = {}
    /\ k.op \in {"DoRpc", "BasicPublish", "BasicGet"} => b.consumers[k.ch] = {}
    /\ k.op \notin {"DoRpc", "BasicPublish", "BasicGet"} => b.consumers[k.ch] \subseteq {k.tag}
    /\ k.op = "BasicCancel" /\ Answers(s) # {} => b.consumers[k.ch] = {}

\* No answer is on its way on a channel that no call uses, and who uses a channel uses it
\* alone.
AnswerInv ==
    /\ \A i \in DOMAIN m_free_channels :
          /\ Answers(Stream(m_free_channels[i])) = {}
          /\ broker.consumers[m_free_channels[i]] = {}
    /\ \A tag \in DOMAIN m_consumer_channel_map :
          LET c == m_consumer_channel_map[tag]
          IN  /\ broker.consumers[c] \subseteq {tag}
              /\ m_is_connected /\ c \in DOMAIN m_open_channels /\ ~(Busy /\ c = call.ch) =>
                    Answers(Stream(c)) = {}
    /\ Busy => Awaits(Stream(call.ch), call, broker)

\* How the calls of BasicPublish have ended.
PublishInv ==
    /\ broker.returned \subseteq 1 .. broker.sent
    /\ \A o \in outcomes : /\ o.pub \in Nat /\ o.pub <= broker.sent /\ o.ack = o.pub
                           /\ o.returned <=> o.pub \in broker.returned

-----------------------------------------------------------------------------
(* Queues and frames.                                                       *)

\* While a frame lies in some queue nothing is recycled, and otherwise there is nothing to
\* recycle in a queue (MaybeReleaseBuffers).
LEMMA NothingRecycled ==
  ASSUME NEW D, NEW q \in [D -> Seq(Wire)]
  PROVE  MaybeReleaseBuffers(q) = q
<1>1. CASE \A c \in DOMAIN q : q[c] = <<>>
  <2>1. \A c \in D : [i \in DOMAIN q[c] |-> [q[c][i] EXCEPT !.live = FALSE]] = q[c]
    BY <1>1
  <2> QED BY <1>1, <2>1 DEF MaybeReleaseBuffers
<1>2. CASE ~ \A c \in DOMAIN q : q[c] = <<>>
  BY <1>2 DEF MaybeReleaseBuffers
<1> QED BY <1>1, <1>2

\* Some number in a set of naturals is the least.
LEMMA LeastNumber ==
  ASSUME NEW S \in SUBSET Nat, S # {}
  PROVE  \E i \in S : \A j \in S : i <= j
<1>1. PICK n \in S : TRUE
  OBVIOUS
<1> DEFINE I == 0 .. n
           up(i) == S \cap (0 .. i)
           F == {up(i) : i \in S \cap I}
           R == StrictSubsetOrdering(I)
<1>2. n \in Nat /\ IsFiniteSet(I)
  BY FS_Interval
<1>3. IsWellFoundedOn(R, SUBSET I)
  BY <1>2, FS_StrictSubsetOrderingWellFounded, FS_FiniteSubsetsOfFinite
<1>4. F \subseteq SUBSET I /\ F # {}
  <2>1. n \in S \cap I
    BY <1>2
  <2>2. \A i \in S \cap I : up(i) \subseteq I
    BY <1>2
  <2> QED BY <2>1, <2>2
<1>5. PICK x \in F : \A y \in F : <<y, x>> \notin R
  <2> HIDE DEF F, R
  <2> QED BY <1>3, <1>4, WFMin
<1>6. PICK i \in S \cap I : x = up(i)
  OBVIOUS
<1>7. ASSUME NEW j \in S, j < i PROVE FALSE
  <2>1. j \in S \cap I /\ i \in Nat /\ j \in Nat
    BY <1>2, <1>7
  <2>2. up(j) \subseteq up(i) /\ i \in up(i) /\ i \notin up(j)
    BY <1>7, <2>1
  <2>3. up(i) \subseteq I /\ up(j) \subseteq I
    BY <1>2, <2>1
  <2> HIDE DEF I, up
  <2>4. <<up(j), x>> \in R
    BY <1>6, <2>2, <2>3 DEF StrictSubsetOrdering
  <2>5. up(j) \in F
    BY <2>1
  <2> QED BY <1>5, <2>4, <2>5
<1>8. i \in Nat /\ \A j \in S : j \in Nat
  OBVIOUS
<1> QED BY <1>7, <1>8

\* Concatenation.
LEMMA Associated ==
  \A x, y, z \in Seq(Wire) : (x \o y) \o z = x \o (y \o z)
BY ConcatAssociative

\* A sequence without its frame at p.
LEMMA Removed ==
  ASSUME NEW s \in Seq(Wire), NEW p \in 1 .. Len(s)
  PROVE  /\ RemoveAt(s, p) \in Seq(Wire)
         /\ Len(RemoveAt(s, p)) = Len(s) - 1
         /\ \A i \in 1 .. Len(s) - 1 : RemoveAt(s, p)[i] = s[IF i < p THEN i ELSE i + 1]
<1> DEFINE x == SubSeq(s, 1, p - 1)
           y == SubSeq(s, p + 1, Len(s))
<1>0. /\ Len(s) \in Nat /\ p \in Nat /\ 1 <= p /\ p <= Len(s)
      /\ \A i \in 1 .. Len(s) : s[i] \in Wire
  BY LenProperties, ElementOfSeq
<1>1. x \in Seq(Wire) /\ Len(x) = p - 1 /\ \A i \in 1 .. p - 1 : x[i] = s[i]
  <2>1. \A i \in 1 .. p - 1 : s[i] \in Wire
    BY <1>0
  <2>2. /\ x \in Seq(Wire) /\ Len(x) = (IF 1 <= p - 1 THEN p - 1 - 1 + 1 ELSE 0)
        /\ \A i \in 1 .. p - 1 - 1 + 1 : x[i] = s[1 + i - 1]
    BY <1>0, <2>1, SubSeqProperties
  <2> QED BY <1>0, <2>2
<1>2. y \in Seq(Wire) /\ Len(y) = Len(s) - p /\ \A i \in 1 .. Len(s) - p : y[i] = s[p + i]
  <2>1. \A i \in p + 1 .. Len(s) : s[i] \in Wire
    BY <1>0
  <2>2. /\ y \in Seq(Wire) /\ Len(y) = (IF p + 1 <= Len(s) THEN Len(s) - (p + 1) + 1 ELSE 0)
        /\ \A i \in 1 .. Len(s) - (p + 1) + 1 : y[i] = s[(p + 1) + i - 1]
    BY <1>0, <2>1, SubSeqProperties
  <2> QED BY <1>0, <2>2
<1>3. RemoveAt(s, p) = x \o y
  BY DEF RemoveAt
<1> HIDE DEF x, y
<1>4. /\ x \o y \in Seq(Wire) /\ Len(x \o y) = Len(x) + Len(y)
      /\ \A i \in 1 .. Len(x) + Len(y) : (x \o y)[i] = IF i <= Len(x) THEN x[i] ELSE y[i - Len(x)]
  BY <1>1, <1>2, ConcatProperties
<1>5. Len(x \o y) = Len(s) - 1
  BY <1>0, <1>1, <1>2, <1>4
<1>6. \A i \in 1 .. Len(s) - 1 : (x \o y)[i] = s[IF i < p THEN i ELSE i + 1]
  <2> SUFFICES ASSUME NEW i \in 1 .. Len(s) - 1
               PROVE  (x \o y)[i] = s[IF i < p THEN i ELSE i + 1]
    OBVIOUS
  <2>1. CASE i < p
    <3>1. i \in 1 .. p - 1 /\ i \in 1 .. Len(x) + Len(y) /\ i <= Len(x)
      BY <1>0, <1>1, <1>2, <2>1
    <3> QED BY <1>1, <1>4, <2>1, <3>1
  <2>2. CASE ~(i < p)
    <3>1. i - (p - 1) \in 1 .. Len(s) - p /\ i \in 1 .. Len(x) + Len(y) /\ ~(i <= Len(x))
      BY <1>0, <1>1, <1>2, <2>2
    <3>2. (x \o y)[i] = y[i - (p - 1)] /\ y[i - (p - 1)] = s[p + (i - (p - 1))]
      BY <1>1, <1>2, <1>4, <3>1
    <3>3. p + (i - (p - 1)) = i + 1
      BY <1>0
    <3> QED BY <2>2, <3>2, <3>3
  <2> QED BY <2>1, <2>2
<1> QED BY <1>3, <1>4, <1>5, <1>6

\* A sequence that is as long and has the same frames.
LEMMA SameRemoved ==
  ASSUME NEW s \in Seq(Wire), NEW p \in 1 .. Len(s), NEW t \in Seq(Wire), Len(t) = Len(s) - 1,
         \A i \in 1 .. Len(s) - 1 : t[i] = s[IF i < p THEN i ELSE i + 1]
  PROVE  t = RemoveAt(s, p)
<1>1. /\ RemoveAt(s, p) \in Seq(Wire)
      /\ Len(RemoveAt(s, p)) = Len(s) - 1
      /\ \A i \in 1 .. Len(s) - 1 : RemoveAt(s, p)[i] = s[IF i < p THEN i ELSE i + 1]
  BY Removed
<1> QED BY <1>1, SeqEqual

\* What is on its way, q and then o, once the frame at p of q is taken, or the head of o.
LEMMA Taken ==
  ASSUME NEW q \in Seq(Wire), NEW o \in Seq(Wire)
  PROVE  /\ \A p \in 1 .. Len(q) : RemoveAt(q, p) \o o = RemoveAt(q \o o, p)
         /\ o # <<>> => q \o Tail(o) = RemoveAt(q \o o, Len(q) + 1)
<1> DEFINE s == q \o o
<1>0. Len(q) \in Nat /\ Len(o) \in Nat
  BY LenProperties
<1>1. /\ s \in Seq(Wire) /\ Len(s) = Len(q) + Len(o)
      /\ \A i \in 1 .. Len(q) + Len(o) : s[i] = IF i <= Len(q) THEN q[i] ELSE o[i - Len(q)]
  BY ConcatProperties
<1> HIDE DEF s
<1>2. ASSUME NEW p \in 1 .. Len(q) PROVE RemoveAt(q, p) \o o = RemoveAt(s, p)
  <2> DEFINE x == RemoveAt(q, p)
             t == x \o o
  <2>1. /\ x \in Seq(Wire) /\ Len(x) = Len(q) - 1
        /\ \A i \in 1 .. Len(q) - 1 : x[i] = q[IF i < p THEN i ELSE i + 1]
    BY Removed
  <2> HIDE DEF x
  <2>2. /\ t \in Seq(Wire) /\ Len(t) = Len(x) + Len(o)
        /\ \A i \in 1 .. Len(x) + Len(o) : t[i] = IF i <= Len(x) THEN x[i] ELSE o[i - Len(x)]
    BY <2>1, ConcatProperties
  <2> HIDE DEF t
  <2>3. p \in 1 .. Len(s) /\ Len(t) = Len(s) - 1
    BY <1>0, <1>1, <2>1, <2>2
  <2>4. \A i \in 1 .. Len(s) - 1 : t[i] = s[IF i < p THEN i ELSE i + 1]
    <3> SUFFICES ASSUME NEW i \in 1 .. Len(s) - 1 PROVE t[i] = s[IF i < p THEN i ELSE i + 1]
      OBVIOUS
    <3>1. CASE i <= Len(q) - 1
      BY <1>0, <1>1, <2>1, <2>2, <3>1
    <3>2. CASE i > Len(q) - 1
      <4>1. t[i] = o[i - (Len(q) - 1)]
        BY <1>0, <1>1, <2>1, <2>2, <3>2
      <4>2. s[i + 1] = o[i + 1 - Len(q)]
        BY <1>0, <1>1, <3>2
      <4>3. i - (Len(q) - 1) = i + 1 - Len(q) /\ ~(i < p)
        BY <1>0, <1>1, <3>2
      <4> QED BY <4>1, <4>2, <4>3
    <3> QED BY <1>0, <1>1, <3>1, <3>2
  <2>5. t = RemoveAt(s, p)
    BY <1>1, <2>2, <2>3, <2>4, SameRemoved
  <2> QED BY <2>5 DEF t, x
<1>3. ASSUME o # <<>> PROVE q \o Tail(o) = RemoveAt(s, Len(q) + 1)
  <2> DEFINE x == Tail(o)
             t == q \o x
  <2>1. /\ x \in Seq(Wire) /\ Len(x) = Len(o) - 1
        /\ \A i \in 1 .. Len(x) : x[i] = o[i + 1]
    BY <1>3, HeadTailProperties
  <2> HIDE DEF x
  <2>2. /\ t \in Seq(Wire) /\ Len(t) = Len(q) + Len(x)
        /\ \A i \in 1 .. Len(q) + Len(x) : t[i] = IF i <= Len(q) THEN q[i] ELSE x[i - Len(q)]
    BY <2>1, ConcatProperties
  <2> HIDE DEF t
  <2>0. Len(x) \in Nat
    BY <2>1, LenProperties
  <2>3. Len(q) + 1 \in 1 .. Len(s) /\ Len(t) = Len(s) - 1
    BY <1>0, <1>1, <2>1, <2>2, <2>0
  <2>4. \A i \in 1 .. Len(s) - 1 : t[i] = s[IF i < Len(q) + 1 THEN i ELSE i + 1]
    <3> SUFFICES ASSUME NEW i \in 1 .. Len(s) - 1
                 PROVE  t[i] = s[IF i < Len(q) + 1 THEN i ELSE i + 1]
      OBVIOUS
    <3>1. CASE i <= Len(q)
      <4>1. i \in 1 .. Len(q) + Len(x) /\ i \in 1 .. Len(q) + Len(o) /\ i < Len(q) + 1
        BY <1>0, <2>0, <2>1, <3>1
      <4> QED BY <1>1, <2>2, <3>1, <4>1
    <3>2. CASE i > Len(q)
      <4>1. t[i] = x[i - Len(q)]
        BY <1>0, <1>1, <2>1, <2>2, <3>2
      <4>2. i - Len(q) \in 1 .. Len(x) /\ i + 1 \in 1 .. Len(q) + Len(o) /\ ~(i + 1 <= Len(q))
        BY <1>0, <1>1, <2>1, <3>2
      <4>3. x[i - Len(q)] = o[i - Len(q) + 1]
        BY <2>1, <4>2
      <4>5. s[i + 1] = o[i + 1 - Len(q)]
        BY <1>1, <4>2
      <4>4. i - Len(q) + 1 = i + 1 - Len(q) /\ ~(i < Len(q) + 1)
        BY <1>0, <3>2
      <4> QED BY <4>1, <4>3, <4>4, <4>5
    <3> QED BY <1>0, <1>1, <3>1, <3>2
  <2>5. t = RemoveAt(s, Len(q) + 1)
    BY <1>1, <2>2, <2>3, <2>4, SameRemoved
  <2> QED BY <2>5 DEF t, x
<1> QED BY <1>2, <1>3 DEF s

-----------------------------------------------------------------------------
(* The broker.                                                              *)

Requests ==
    [id : {"channel.open", "confirm.select", "declare", "basic.qos", "basic.publish", "basic.get",
           "basic.recover", "basic.consume", "basic.cancel", "basic.ack", "channel.close-ok"},
     tag : Tags \cup {NoTag}, msg : Nat]

\* The answer to a request that has one and only one, when it is not refused.
AnswerTo ==
    [id \in {"channel.open", "confirm.select", "declare", "basic.qos", "basic.recover",
             "basic.consume", "basic.cancel"} |->
        CASE id = "channel.open" -> "channel.open-ok"
          [] id = "confirm.select" -> "confirm.select-ok"
          [] id = "declare" -> "declare-ok"
          [] id = "basic.qos" -> "basic.qos-ok"
          [] id = "basic.recover" -> "basic.recover-ok"
          [] id = "basic.consume" -> "basic.consume-ok"
          [] id = "basic.cancel" -> "basic.cancel-ok"]

\* The broker does not answer request r on channel c.
Silent(b, b2, c, r) ==
    /\ b2.out[c] = b.out[c] /\ b2.consumers[c] = b.consumers[c]
    /\ \/ b2.state[c] = b.state[c]
       \/ r.id = "channel.close-ok" /\ b.state[c] = "closing" /\ b2.state[c] = "closed"
    /\ b2.returned = b.returned

\* It closes the channel.
Closes(b, b2, c) ==
    /\ b2.out[c] = b.out[c] \o <<Plain("channel.close")>>
    /\ b.state[c] = "open" /\ b2.state[c] = "closing" /\ b2.consumers[c] = {}
    /\ b2.returned = b.returned

\* It answers request r with the frames u.
Replied(b, b2, c, r, u) ==
    /\ b2.out[c] = b.out[c] \o u
    /\ b2.state[c] = "open"
    /\ b.state[c] = "open" \/ (b.state[c] = "closed" /\ r.id = "channel.open")
    /\ b2.consumers[c] = CASE r.id = "basic.consume" -> b.consumers[c] \cup {r.tag}
                           [] r.id = "basic.cancel" -> b.consumers[c] \ {r.tag}
                           [] OTHER -> b.consumers[c]
    /\ \/ /\ r.id \in DOMAIN AnswerTo /\ u = <<Plain(AnswerTo[r.id])>>
          /\ b2.returned = b.returned
       \/ /\ r.id = "basic.get" /\ u = <<Plain("basic.get-empty")>>
          /\ b2.returned = b.returned
       \/ /\ r.id = "basic.get"
          /\ \E m, n \in Nat : u = <<Method("basic.get-ok", NoTag, m)>> \o Content(m, n)
          /\ b2.returned = b.returned
       \/ /\ r.id = "basic.publish" /\ b2.sent = b.sent + 1
          /\ \E id \in {"basic.ack", "basic.nack"} : u = <<Method(id, NoTag, b.sent + 1)>>
          /\ b2.returned = b.returned
       \/ /\ r.id = "basic.publish" /\ b2.sent = b.sent + 1
          /\ \E n \in Nat : u = <<Method("basic.return", NoTag, b.sent + 1)>> \o Content(b.sent + 1, n)
                                \o <<Method("basic.ack", NoTag, b.sent + 1)>>
          /\ b2.returned = b.returned \cup {b.sent + 1}

\* Frames.
LEMMA FrameTypes ==
  /\ \A id \in MethodIds, tag \in Tags \cup {NoTag}, m \in Nat : Method(id, tag, m) \in Wire
  /\ \A m, n \in Nat : Header(m, n) \in Wire /\ Body(m, n) \in Wire
  /\ \A id \in MethodIds : Plain(id) \in Wire
<1>1. \A id \in MethodIds, tag \in Tags \cup {NoTag}, m \in Nat : Method(id, tag, m) \in Wire
  BY DEF Method, Wire
<1>2. \A m, n \in Nat : Header(m, n) \in Wire /\ Body(m, n) \in Wire
  BY DEF Header, Body, Wire, MethodIds
<1>3. \A id \in MethodIds : Plain(id) \in Wire
  BY <1>1 DEF Plain
<1> QED BY <1>1, <1>2, <1>3

\* Only the method that says so closes a channel.
LEMMA CloseFrames ==
  /\ \A m, n : ~IsClose(Header(m, n))
  /\ \A m, n : ~IsClose(Body(m, n))
  /\ \A id, tag, m : IsClose(Method(id, tag, m)) <=> id = "channel.close"
<1>1. \A m, n : Header(m, n).type = "HEADER"
  BY DEF Header
<1>2. \A m, n : Body(m, n).type = "BODY"
  BY DEF Body
<1>3. \A id, tag, m : Method(id, tag, m).type = "METHOD" /\ Method(id, tag, m).id = id
  BY DEF Method
<1> QED BY <1>1, <1>2, <1>3 DEF IsClose

\* A content is its header and then its body frames.
LEMMA ContentFrames ==
  ASSUME NEW m \in Nat, NEW n \in Nat
  PROVE  /\ Content(m, n) \in Seq(Wire)
         /\ Len(Content(m, n)) = n + 1
         /\ Content(m, n)[1] = Header(m, n)
         /\ \A k \in 1 .. n : Content(m, n)[k + 1] = Body(m, k)
<1> DEFINE h == <<Header(m, n)>>
           b == [k \in 1 .. n |-> Body(m, k)]
<1>1. h \in Seq(Wire) /\ Len(h) = 1 /\ h[1] = Header(m, n)
  BY FrameTypes
<1>2. b \in Seq(Wire) /\ Len(b) = n
  BY FrameTypes
<1>3. \A k \in 1 .. n : b[k] = Body(m, k)
  OBVIOUS
<1>4. Content(m, n) = h \o b
  BY DEF Content
<1> HIDE DEF h, b
<1>5. /\ h \o b \in Seq(Wire) /\ Len(h \o b) = Len(h) + Len(b)
      /\ \A i \in 1 .. Len(h) + Len(b) : (h \o b)[i] = IF i <= Len(h) THEN h[i] ELSE b[i - Len(h)]
  BY <1>1, <1>2, ConcatProperties
<1>6. (h \o b)[1] = h[1]
  BY <1>1, <1>2, <1>5
<1>7. ASSUME NEW k \in 1 .. n PROVE (h \o b)[k + 1] = Body(m, k)
  <2>1. k + 1 \in 1 .. Len(h) + Len(b) /\ ~(k + 1 <= Len(h)) /\ k + 1 - Len(h) = k
    BY <1>1, <1>2
  <2> QED BY <1>3, <1>5, <2>1
<1> QED BY <1>1, <1>2, <1>4, <1>5, <1>6, <1>7

\* Frames added on one channel.
LEMMA Pushed ==
  ASSUME NEW b \in Brokers, NEW c \in Ids, NEW u \in Seq(Wire)
  PROVE  /\ Push(b, c, u) \in Brokers
         /\ Push(b, c, u).out[c] = b.out[c] \o u
         /\ \A d \in Ids \ {c} : Push(b, c, u).out[d] = b.out[d]
         /\ Push(b, c, u).up = b.up /\ Push(b, c, u).state = b.state
         /\ Push(b, c, u).consumers = b.consumers /\ Push(b, c, u).unacked = b.unacked
         /\ Push(b, c, u).delivered = b.delivered /\ Push(b, c, u).returned = b.returned
         /\ Push(b, c, u).sent = b.sent
<1>1. b.out \in [Ids -> Seq(Wire)]
  BY DEF Brokers
<1>2. b.out[c] \o u \in Seq(Wire)
  BY <1>1, ConcatProperties
<1>3. [b.out EXCEPT ![c] = @ \o u] \in [Ids -> Seq(Wire)]
  BY <1>1, <1>2
<1>4. Push(b, c, u) = [b EXCEPT !.out = [b.out EXCEPT ![c] = @ \o u]]
  BY DEF Push, Brokers
<1> DEFINE o == [b.out EXCEPT ![c] = @ \o u]
<1>5. o[c] = b.out[c] \o u /\ \A d \in Ids \ {c} : o[d] = b.out[d]
  BY <1>1
<1> HIDE DEF o
<1> QED BY <1>3, <1>4, <1>5 DEF Brokers, o

\* What each request may change: the frames and the books of its own channel, the frames of
\* channel 0, and what is counted.
OtherChannels(b, b2, c) ==
    /\ \A d \in Ids \ {0, c} : b2.out[d] = b.out[d] /\ b2.state[d] = b.state[d]
    /\ \A d \in Ids \ {c} : b2.consumers[d] = b.consumers[d]
    /\ b2.delivered = b.delivered
    /\ b.sent <= b2.sent

\* The broker closes channel c.
LEMMA ChannelClosed ==
  ASSUME NEW b \in Brokers, NEW c \in Ids \ {0}, b.state[c] = "open"
  PROVE  /\ CloseChannel(b, c) \in Brokers
         /\ OtherChannels(b, CloseChannel(b, c), c)
         /\ Closes(b, CloseChannel(b, c), c)
<1> DEFINE f == Plain("channel.close")
           u == <<f>>
           p == Push(b, c, u)
<1>a. f \in Wire
  BY FrameTypes DEF MethodIds
<1>1. u \in Seq(Wire)
  BY <1>a
<1> HIDE DEF u
<1>2. /\ p \in Brokers /\ p.out[c] = b.out[c] \o u /\ \A d \in Ids \ {c} : p.out[d] = b.out[d]
      /\ p.up = b.up /\ p.state = b.state /\ p.consumers = b.consumers
      /\ p.delivered = b.delivered /\ p.returned = b.returned /\ p.sent = b.sent
  BY <1>1, Pushed
<1>3. CloseChannel(b, c) = [p EXCEPT !.state[c] = "closing", !.consumers[c] = {}, !.unacked[c] = {}]
  BY DEF CloseChannel, u
<1> HIDE DEF p
<1>4. /\ p.state \in [Ids -> {"closed", "open", "closing"}] /\ p.consumers \in [Ids -> SUBSET Tags]
      /\ p.unacked \in [Ids -> SUBSET Nat] /\ p.sent \in Nat
  BY <1>2 DEF Brokers
<1> DEFINE z == CloseChannel(b, c)
           st == [p.state EXCEPT ![c] = "closing"]
           co == [p.consumers EXCEPT ![c] = {}]
           ua == [p.unacked EXCEPT ![c] = {}]
<1>9. /\ st \in [Ids -> {"closed", "open", "closing"}] /\ co \in [Ids -> SUBSET Tags]
      /\ ua \in [Ids -> SUBSET Nat]
  BY <1>4
<1>10. z = [p EXCEPT !.state = st, !.consumers = co, !.unacked = ua]
  BY <1>2, <1>3 DEF Brokers
<1>11. st[c] = "closing" /\ co[c] = {} /\ \A d \in Ids \ {c} : st[d] = p.state[d] /\ co[d] = p.consumers[d]
  BY <1>4
<1> HIDE DEF z, st, co, ua
<1>5. /\ z \in Brokers /\ z.out = p.out /\ z.delivered = p.delivered /\ z.returned = p.returned
      /\ z.sent = p.sent /\ z.state = st /\ z.consumers = co
  BY <1>2, <1>9, <1>10 DEF Brokers
<1>6. z.state[c] = "closing" /\ z.consumers[c] = {}
  BY <1>5, <1>11
<1>7. OtherChannels(b, z, c)
  BY <1>2, <1>4, <1>5, <1>11 DEF OtherChannels
<1>8. Closes(b, z, c)
  BY <1>2, <1>5, <1>6 DEF Closes, u
<1> QED BY <1>5, <1>7, <1>8 DEF z

\* The broker closes the connection.
LEMMA ConnectionClosed ==
  ASSUME NEW b \in Brokers
  PROVE  /\ CloseConnection(b) \in Brokers
         /\ \A c \in Ids \ {0} : OtherChannels(b, CloseConnection(b), c)
         /\ \A c \in Ids \ {0}, r \in Requests : Silent(b, CloseConnection(b), c, r)
<1> DEFINE f == Plain("connection.close")
           u == <<f>>
           p == Push(b, 0, u)
<1>0. 0 \in Ids
  BY IdSpaceAssumption DEF Ids
<1>a. f \in Wire
  BY FrameTypes DEF MethodIds
<1>1. u \in Seq(Wire)
  BY <1>a
<1> HIDE DEF u
<1>2. /\ p \in Brokers /\ \A d \in Ids \ {0} : p.out[d] = b.out[d]
      /\ p.state = b.state /\ p.consumers = b.consumers
      /\ p.delivered = b.delivered /\ p.returned = b.returned /\ p.sent = b.sent
  BY <1>0, <1>1, Pushed
<1>3. CloseConnection(b) = [p EXCEPT !.up = FALSE]
  BY DEF CloseConnection, u
<1> HIDE DEF p
<1> DEFINE z == CloseConnection(b)
<1>4. /\ z \in Brokers /\ z.out = p.out /\ z.delivered = p.delivered /\ z.returned = p.returned
      /\ z.sent = p.sent /\ z.state = p.state /\ z.consumers = p.consumers
  BY <1>2, <1>3 DEF Brokers
<1> HIDE DEF z
<1>5. b.sent \in Nat
  BY DEF Brokers
<1>6. \A c \in Ids \ {0} : OtherChannels(b, z, c)
  BY <1>2, <1>4, <1>5 DEF OtherChannels
<1>7. \A c \in Ids \ {0}, r \in Requests : Silent(b, z, c, r)
  BY <1>2, <1>4 DEF Silent
<1> QED BY <1>4, <1>6, <1>7 DEF z

\* A message with its content, alone and with a confirm behind it.
LEMMA MessageFrames ==
  ASSUME NEW id \in MethodIds, NEW tag \in Tags \cup {NoTag}, NEW m \in Nat, NEW n \in Nat
  PROVE  /\ <<Method(id, tag, m)>> \o Content(m, n) \in Seq(Wire)
         /\ <<Method(id, tag, m)>> \o Content(m, n) \o <<Method("basic.ack", NoTag, m)>> \in Seq(Wire)
<1>1. <<Method(id, tag, m)>> \in Seq(Wire)
  BY FrameTypes
<1>2. <<Method("basic.ack", NoTag, m)>> \in Seq(Wire)
  <2>1. Method("basic.ack", NoTag, m) \in Wire
    BY FrameTypes DEF MethodIds
  <2> QED BY <2>1
<1>3. Content(m, n) \in Seq(Wire)
  BY ContentFrames
<1>4. <<Method(id, tag, m)>> \o Content(m, n) \in Seq(Wire)
  BY <1>1, <1>3, ConcatProperties
<1> QED BY <1>2, <1>4, ConcatProperties

\* u are the frames of a message, and v of one that comes back and is confirmed.
Framed(u, v, id, tag, m, n) ==
    /\ u \in Seq(Wire) /\ v \in Seq(Wire)
    /\ Len(u) = n + 2 /\ u[1] = Method(id, tag, m) /\ u[2] = Header(m, n)
    /\ \A k \in 1 .. n : u[k + 2] = Body(m, k)
    /\ Len(v) = n + 3 /\ \A i \in 1 .. n + 2 : v[i] = u[i]
    /\ v[n + 3] = Method("basic.ack", NoTag, m)

\* The frames of a message, one after the other.
LEMMA MessageParts ==
  ASSUME NEW id \in MethodIds, NEW tag \in Tags \cup {NoTag}, NEW m \in Nat, NEW n \in Nat
  PROVE  Framed(<<Method(id, tag, m)>> \o Content(m, n),
                <<Method(id, tag, m)>> \o Content(m, n) \o <<Method("basic.ack", NoTag, m)>>,
                id, tag, m, n)
<1> DEFINE f == Method(id, tag, m)
           x == <<f>>
           t == Content(m, n)
           g == Method("basic.ack", NoTag, m)
           y == <<g>>
           u == x \o t
           v == u \o y
<1>1. x \in Seq(Wire) /\ Len(x) = 1 /\ x[1] = f
  <2>1. f \in Wire
    BY FrameTypes
  <2> QED BY <2>1
<1>2. y \in Seq(Wire) /\ Len(y) = 1 /\ y[1] = g
  <2>1. g \in Wire
    BY FrameTypes DEF MethodIds
  <2> QED BY <2>1
<1>3. /\ t \in Seq(Wire) /\ Len(t) = n + 1 /\ t[1] = Header(m, n)
      /\ \A k \in 1 .. n : t[k + 1] = Body(m, k)
  BY ContentFrames
<1> HIDE DEF x, y, t, f, g
<1>5. /\ u \in Seq(Wire) /\ Len(u) = Len(x) + Len(t)
      /\ \A i \in 1 .. Len(x) + Len(t) : u[i] = IF i <= Len(x) THEN x[i] ELSE t[i - Len(x)]
  BY <1>1, <1>3, ConcatProperties
<1> HIDE DEF u
<1>6. /\ v \in Seq(Wire) /\ Len(v) = Len(u) + Len(y)
      /\ \A i \in 1 .. Len(u) + Len(y) : v[i] = IF i <= Len(u) THEN u[i] ELSE y[i - Len(u)]
  <2>1. u \in Seq(Wire) /\ y \in Seq(Wire)
    BY <1>2, <1>5
  <2> QED BY <2>1, ConcatProperties
<1> HIDE DEF v
<1>7. Len(u) = n + 2 /\ Len(v) = n + 3
  BY <1>1, <1>2, <1>3, <1>5, <1>6
<1>8. u[1] = f /\ u[2] = Header(m, n)
  BY <1>1, <1>3, <1>5
<1>9. ASSUME NEW k \in 1 .. n PROVE u[k + 2] = Body(m, k)
  <2>1. k + 2 \in 1 .. Len(x) + Len(t) /\ ~(k + 2 <= Len(x)) /\ k + 2 - Len(x) = k + 1
    BY <1>1, <1>3
  <2> QED BY <1>3, <1>5, <2>1
<1>10. \A i \in 1 .. n + 2 : v[i] = u[i]
  BY <1>2, <1>6, <1>7
<1>11. v[n + 3] = g
  <2>1. n + 3 \in 1 .. Len(u) + Len(y) /\ ~(n + 3 <= Len(u)) /\ n + 3 - Len(u) = 1
    BY <1>2, <1>7
  <2> QED BY <1>2, <1>6, <2>1
<1>12. Framed(u, v, id, tag, m, n)
  BY <1>5, <1>6, <1>7, <1>8, <1>9, <1>10, <1>11 DEF Framed, f, g
<1> QED BY <1>12 DEF u, v, x, y, t, f, g

\* z is the broker b after it has sent a message of n body frames on channel c.
Message(b, c, id, tag, n, z) ==
    /\ z \in Brokers
    /\ z.out[c] = b.out[c] \o (<<Method(id, tag, b.sent + 1)>> \o Content(b.sent + 1, n))
    /\ \A d \in Ids \ {c} : z.out[d] = b.out[d]
    /\ z.up = b.up /\ z.state = b.state /\ z.consumers = b.consumers /\ z.returned = b.returned
    /\ z.sent = b.sent + 1
    /\ \A d \in Ids : z.delivered[d] = IF d = c /\ id = "basic.deliver"
                                        THEN b.delivered[d] \cup {b.sent + 1} ELSE b.delivered[d]

\* A delivery, or the message that answers basic.get.
LEMMA MessageDelivered ==
  ASSUME NEW b \in Brokers, NEW c \in Ids \ {0}, NEW id \in {"basic.deliver", "basic.get-ok"},
         NEW tag \in Tags \cup {NoTag}, NEW n \in Nat
  PROVE  Message(b, c, id, tag, n, Delivered(b, c, id, tag, n))
<1> DEFINE u == <<Method(id, tag, b.sent + 1)>> \o Content(b.sent + 1, n)
           z == Delivered(b, c, id, tag, n)
<1> DEFINE p == Push(b, c, u)
<1>0. b.sent \in Nat /\ b.sent + 1 \in Nat
  BY DEF Brokers
<1>1. u \in Seq(Wire)
  BY <1>0, MessageFrames DEF MethodIds
<1> HIDE DEF u
<1>2. /\ p \in Brokers /\ p.out[c] = b.out[c] \o u /\ \A d \in Ids \ {c} : p.out[d] = b.out[d]
      /\ p.up = b.up /\ p.state = b.state /\ p.consumers = b.consumers /\ p.unacked = b.unacked
      /\ p.delivered = b.delivered /\ p.returned = b.returned /\ p.sent = b.sent
  BY <1>1, Pushed
<1>3. z = [p EXCEPT !.sent = @ + 1,
                    !.unacked[c] = IF tag \in NoAck THEN @ ELSE @ \cup {b.sent + 1},
                    !.delivered[c] = IF id = "basic.deliver" THEN @ \cup {b.sent + 1} ELSE @]
  BY DEF Delivered, u
<1> HIDE DEF p, z
<1>4. b.unacked \in [Ids -> SUBSET Nat] /\ b.delivered \in [Ids -> SUBSET Nat]
  BY DEF Brokers
<1> DEFINE ua == [p.unacked EXCEPT ![c] = IF tag \in NoAck THEN @ ELSE @ \cup {b.sent + 1}]
           dl == [p.delivered EXCEPT ![c] = IF id = "basic.deliver" THEN @ \cup {b.sent + 1} ELSE @]
<1>5. ua \in [Ids -> SUBSET Nat]
  BY <1>0, <1>2, <1>4
<1>6. dl \in [Ids -> SUBSET Nat]
  BY <1>0, <1>2, <1>4
<1>7. \A d \in Ids : dl[d] = IF d = c /\ id = "basic.deliver"
                             THEN b.delivered[d] \cup {b.sent + 1} ELSE b.delivered[d]
  BY <1>2, <1>4
<1>8. z = [p EXCEPT !.sent = b.sent + 1, !.unacked = ua, !.delivered = dl]
  BY <1>2, <1>3 DEF Brokers
<1> HIDE DEF ua, dl
<1>9. /\ z \in Brokers /\ z.out = p.out /\ z.up = p.up /\ z.state = p.state /\ z.consumers = p.consumers
      /\ z.returned = p.returned /\ z.sent = b.sent + 1 /\ z.delivered = dl
  BY <1>0, <1>2, <1>5, <1>6, <1>8 DEF Brokers
<1>10. /\ z.out[c] = b.out[c] \o u /\ \A d \in Ids \ {c} : z.out[d] = b.out[d]
       /\ z.up = b.up /\ z.state = b.state /\ z.consumers = b.consumers /\ z.returned = b.returned
  BY <1>2, <1>9
<1> QED BY <1>7, <1>9, <1>10 DEF Message, u, z

\* What Serve may do to the broker of a request on channel c.
Served(b, b2, c, r) ==
    /\ b2 \in Brokers
    /\ OtherChannels(b, b2, c)
    /\ \/ Silent(b, b2, c, r)
       \/ Closes(b, b2, c)
       \/ \E u \in Seq(Wire) : Replied(b, b2, c, r, u)

\* The answers to the requests that have one.
LEMMA PlainReplies ==
  ASSUME NEW b \in Brokers, NEW c \in Ids \ {0}, NEW r \in Requests, r.id \in DOMAIN AnswerTo,
         b.state[c] = "open" \/ (b.state[c] = "closed" /\ r.id = "channel.open"),
         r.id = "basic.consume" => r.tag \in Tags,
         NEW b2 \in Replies(b, c, r)
  PROVE  Served(b, b2, c, r)
<1> DEFINE id == AnswerTo[r.id]
           st == IF r.id = "channel.open" THEN [b.state EXCEPT ![c] = "open"] ELSE b.state
           co == CASE r.id = "basic.consume" -> [b.consumers EXCEPT ![c] = @ \cup {r.tag}]
                   [] r.id = "basic.cancel" -> [b.consumers EXCEPT ![c] = @ \ {r.tag}]
                   [] OTHER -> b.consumers
           ua == IF r.id = "basic.recover" THEN [b.unacked EXCEPT ![c] = {}] ELSE b.unacked
           f == Plain(id)
           u == <<f>>
           p == Push(b, c, u)
           z == [p EXCEPT !.state = st, !.consumers = co, !.unacked = ua]
<1>0. /\ b.state \in [Ids -> {"closed", "open", "closing"}] /\ b.consumers \in [Ids -> SUBSET Tags]
      /\ b.unacked \in [Ids -> SUBSET Nat]
  BY DEF Brokers
<1>1. r.id \in {"channel.open", "confirm.select", "declare", "basic.qos", "basic.recover",
                "basic.consume", "basic.cancel"}
  BY DEF AnswerTo
<1>2. id \in MethodIds
  BY <1>1 DEF AnswerTo, MethodIds
<1>3. st \in [Ids -> {"closed", "open", "closing"}] /\ st[c] = "open"
      /\ \A d \in Ids \ {c} : st[d] = b.state[d]
  BY <1>0
<1>4. /\ co \in [Ids -> SUBSET Tags]
      /\ co[c] = CASE r.id = "basic.consume" -> b.consumers[c] \cup {r.tag}
                   [] r.id = "basic.cancel" -> b.consumers[c] \ {r.tag}
                   [] OTHER -> b.consumers[c]
      /\ \A d \in Ids \ {c} : co[d] = b.consumers[d]
  <2>1. CASE r.id = "basic.consume"
    BY <1>0, <2>1
  <2>2. CASE r.id = "basic.cancel"
    BY <1>0, <2>2
  <2>3. CASE r.id \notin {"basic.consume", "basic.cancel"}
    BY <1>0, <2>3
  <2> QED BY <2>1, <2>2, <2>3
<1>5. ua \in [Ids -> SUBSET Nat]
  BY <1>0
<1>6. /\ p \in Brokers /\ p.state = b.state /\ p.consumers = b.consumers /\ p.unacked = b.unacked
      /\ p.out[c] = b.out[c] \o u /\ \A d \in Ids \ {c} : p.out[d] = b.out[d]
      /\ p.delivered = b.delivered /\ p.returned = b.returned /\ p.sent = b.sent /\ u \in Seq(Wire)
  <2>1. f \in Wire
    BY <1>2, FrameTypes
  <2>2. u \in Seq(Wire)
    BY <2>1
  <2> QED BY <2>2, Pushed
<1>7. b2 = z \/ (b2 = CloseChannel(b, c) /\ r.id # "channel.open")
  <2> HIDE DEF p, u
  <2>1. CASE r.id = "channel.open"
    <3>1. b2 = [p EXCEPT !.state[c] = "open"]
      BY <2>1 DEF Replies, AnswerTo, p, u
    <3>2. st = [p.state EXCEPT ![c] = "open"] /\ co = p.consumers /\ ua = p.unacked
      BY <1>6, <2>1
    <3> HIDE DEF st, co, ua
    <3>3. z = [p EXCEPT !.state = [p.state EXCEPT ![c] = "open"], !.consumers = p.consumers,
                        !.unacked = p.unacked]
      BY <3>2
    <3> QED BY <1>6, <3>1, <3>3 DEF Brokers
  <2>2. CASE r.id \in {"confirm.select", "basic.qos"}
    <3>1. b2 = p
      BY <2>2 DEF Replies, AnswerTo, p, u
    <3>2. st = p.state /\ co = p.consumers /\ ua = p.unacked
      BY <1>6, <2>2
    <3> HIDE DEF st, co, ua
    <3>3. z = [p EXCEPT !.state = p.state, !.consumers = p.consumers, !.unacked = p.unacked]
      BY <3>2, Zenon
    <3>4. z = p
      BY <1>6, <3>3 DEF Brokers
    <3> QED BY <3>1, <3>4
  <2>3. CASE r.id = "declare"
    <3>1. b2 = p \/ b2 = CloseChannel(b, c)
      BY <2>3 DEF Replies, AnswerTo, p, u
    <3>2. p = z
      BY <1>6, <2>3 DEF Brokers
    <3> QED BY <2>3, <3>1, <3>2
  <2>4. CASE r.id = "basic.recover"
    <3>1. b2 = [p EXCEPT !.unacked[c] = {}]
      BY <2>4 DEF Replies, AnswerTo, p, u
    <3> QED BY <1>6, <2>4, <3>1, ZenonT(30) DEF Brokers
  <2>5. CASE r.id = "basic.consume"
    <3>1. b2 = [p EXCEPT !.consumers[c] = @ \cup {r.tag}] \/ b2 = CloseChannel(b, c)
      BY <2>5 DEF Replies, AnswerTo, p, u
    <3>2. [p EXCEPT !.consumers[c] = @ \cup {r.tag}] = z
      BY <1>6, <2>5 DEF Brokers
    <3> QED BY <2>5, <3>1, <3>2
  <2>6. CASE r.id = "basic.cancel"
    <3>1. b2 = [p EXCEPT !.consumers[c] = @ \ {r.tag}]
      BY <2>6 DEF Replies, AnswerTo, p, u
    <3>2. st = p.state /\ co = [p.consumers EXCEPT ![c] = @ \ {r.tag}] /\ ua = p.unacked
      BY <1>6, <2>6
    <3> HIDE DEF st, co, ua
    <3>3. z = [p EXCEPT !.state = p.state, !.consumers = [p.consumers EXCEPT ![c] = @ \ {r.tag}],
                        !.unacked = p.unacked]
      BY <3>2, Zenon
    <3>4. b2 = [p EXCEPT !.consumers = [p.consumers EXCEPT ![c] = @ \ {r.tag}]]
      BY <3>1
    <3>5. z = b2
      BY <1>6, <3>3, <3>4 DEF Brokers
    <3> QED BY <3>5
  <2> QED BY <1>1, <2>1, <2>2, <2>3, <2>4, <2>5, <2>6
<1> HIDE DEF st, co, ua, id
<1>8. /\ z \in Brokers /\ OtherChannels(b, z, c) /\ z.out[c] = b.out[c] \o u /\ u \in Seq(Wire)
      /\ z.state = st /\ z.consumers = co /\ z.returned = b.returned
  <2>1. /\ z \in Brokers /\ z.out = p.out /\ z.delivered = p.delivered /\ z.returned = p.returned
        /\ z.sent = p.sent /\ z.state = st /\ z.consumers = co
    <3> HIDE DEF p
    <3> QED BY <1>3, <1>4, <1>5, <1>6 DEF Brokers
  <2>2. b.sent \in Nat
    BY DEF Brokers
  <2> HIDE DEF z, p
  <2>3. OtherChannels(b, z, c)
    BY <1>3, <1>4, <1>6, <2>1, <2>2 DEF OtherChannels
  <2> QED BY <1>6, <2>1, <2>3
<1>9. CASE b2 = z
  <2>1. Replied(b, b2, c, r, u)
    BY <1>1, <1>3, <1>4, <1>8, <1>9 DEF Replied, AnswerTo, id
  <2> QED BY <1>8, <1>9, <2>1 DEF Served
<1>10. CASE b2 = CloseChannel(b, c) /\ r.id # "channel.open"
  BY <1>10, ChannelClosed DEF Served
<1> QED BY <1>7, <1>9, <1>10

\* The answers to basic.publish.
LEMMA PublishReplies ==
  ASSUME NEW b \in Brokers, NEW c \in Ids \ {0}, NEW r \in Requests, r.id = "basic.publish",
         b.state[c] = "open", NEW b2 \in Replies(b, c, r)
  PROVE  Served(b, b2, c, r)
<1> DEFINE m == b.sent + 1
<1>0. b.sent \in Nat /\ m \in Nat /\ b.returned \in SUBSET Nat
  BY DEF Brokers
<1>1. \/ \E id \in {"basic.ack", "basic.nack"} : b2 = [Push(b, c, <<Method(id, NoTag, m)>>) EXCEPT !.sent = @ + 1]
      \/ \E n \in BodyFrames : b2 = Returned(b, c, n)
      \/ b2 = CloseChannel(b, c)
  BY DEF Replies
<1> HIDE DEF m
<1>2. ASSUME NEW u \in Seq(Wire), NEW rt \in SUBSET Nat,
             b2 = [Push(b, c, u) EXCEPT !.sent = m, !.returned = rt]
      PROVE  /\ b2 \in Brokers /\ OtherChannels(b, b2, c)
             /\ b2.out[c] = b.out[c] \o u /\ b2.state = b.state /\ b2.consumers = b.consumers
             /\ b2.returned = rt /\ b2.sent = m
  <2> DEFINE p == Push(b, c, u)
  <2>1. /\ p \in Brokers /\ p.out[c] = b.out[c] \o u /\ \A d \in Ids \ {c} : p.out[d] = b.out[d]
        /\ p.state = b.state /\ p.consumers = b.consumers /\ p.delivered = b.delivered
    BY Pushed
  <2> HIDE DEF p
  <2>2. b2 = [p EXCEPT !.sent = m, !.returned = rt]
    BY <1>2 DEF p
  <2>3. /\ b2 \in Brokers /\ b2.out = p.out /\ b2.delivered = p.delivered /\ b2.returned = rt
        /\ b2.sent = m /\ b2.state = p.state /\ b2.consumers = p.consumers
    BY <1>0, <2>1, <2>2 DEF Brokers
  <2>4. OtherChannels(b, b2, c)
    BY <1>0, <2>1, <2>3 DEF OtherChannels, m
  <2> QED BY <2>1, <2>3, <2>4
<1>3. ASSUME NEW id \in {"basic.ack", "basic.nack"},
             b2 = [Push(b, c, <<Method(id, NoTag, m)>>) EXCEPT !.sent = @ + 1]
      PROVE  Served(b, b2, c, r)
  <2> DEFINE f == Method(id, NoTag, m)
             u == <<f>>
  <2>1. f \in Wire
    BY <1>0, FrameTypes DEF MethodIds
  <2>2. u \in Seq(Wire)
    BY <2>1
  <2>3. Push(b, c, u) \in Brokers /\ Push(b, c, u).sent = b.sent /\ Push(b, c, u).returned = b.returned
    BY <2>2, Pushed
  <2>4. b2 = [Push(b, c, u) EXCEPT !.sent = m, !.returned = b.returned]
    BY <1>3, <2>3 DEF Brokers, m
  <2> HIDE DEF u
  <2>5. /\ b2 \in Brokers /\ OtherChannels(b, b2, c)
        /\ b2.out[c] = b.out[c] \o u /\ b2.state = b.state /\ b2.consumers = b.consumers
        /\ b2.returned = b.returned /\ b2.sent = m
    BY <1>0, <1>2, <2>2, <2>4
  <2>6. Replied(b, b2, c, r, u)
    BY <2>5 DEF Replied, u, m
  <2> QED BY <2>2, <2>5, <2>6 DEF Served
<1>4. ASSUME NEW n \in BodyFrames, b2 = Returned(b, c, n)
      PROVE  Served(b, b2, c, r)
  <2> DEFINE u == <<Method("basic.return", NoTag, m)>> \o Content(m, n) \o <<Method("basic.ack", NoTag, m)>>
             rt == b.returned \cup {m}
  <2>1. n \in Nat
    BY BodyFramesAssumption
  <2>2. u \in Seq(Wire)
    BY <1>0, <2>1, MessageFrames DEF MethodIds
  <2>3. Push(b, c, u) \in Brokers /\ Push(b, c, u).sent = b.sent /\ Push(b, c, u).returned = b.returned
    BY <2>2, Pushed
  <2>4. b2 = [Push(b, c, u) EXCEPT !.sent = @ + 1, !.returned = @ \cup {m}]
    BY <1>4 DEF Returned, m
  <2> HIDE DEF u
  <2>7. b2 = [Push(b, c, u) EXCEPT !.sent = m, !.returned = rt]
    BY <2>3, <2>4 DEF Brokers, m
  <2>8. rt \in SUBSET Nat
    BY <1>0
  <2>5. /\ b2 \in Brokers /\ OtherChannels(b, b2, c)
        /\ b2.out[c] = b.out[c] \o u /\ b2.state = b.state /\ b2.consumers = b.consumers
        /\ b2.returned = rt /\ b2.sent = m
    BY <1>2, <2>2, <2>7, <2>8
  <2>6. Replied(b, b2, c, r, u)
    BY <2>1, <2>5 DEF Replied, u, m
  <2> QED BY <2>2, <2>5, <2>6 DEF Served
<1>5. ASSUME b2 = CloseChannel(b, c) PROVE Served(b, b2, c, r)
  BY <1>5, ChannelClosed DEF Served
<1> QED BY <1>1, <1>3, <1>4, <1>5

\* The answers to basic.get.
LEMMA GetReplies ==
  ASSUME NEW b \in Brokers, NEW c \in Ids \ {0}, NEW r \in Requests, r.id = "basic.get",
         b.state[c] = "open", NEW b2 \in Replies(b, c, r)
  PROVE  Served(b, b2, c, r)
<1>0. b.sent \in Nat /\ NoTag \in Tags \cup {NoTag}
  BY DEF Brokers
<1>1. \/ b2 = Push(b, c, <<Plain("basic.get-empty")>>)
      \/ b2 = CloseChannel(b, c)
      \/ \E n \in BodyFrames : b2 = Delivered(b, c, "basic.get-ok", NoTag, n)
  BY DEF Replies
<1>2. ASSUME b2 = Push(b, c, <<Plain("basic.get-empty")>>) PROVE Served(b, b2, c, r)
  <2> DEFINE f == Plain("basic.get-empty")
             u == <<f>>
  <2>1. f \in Wire
    BY FrameTypes DEF MethodIds
  <2>2. u \in Seq(Wire)
    BY <2>1
  <2>3. b2 = Push(b, c, u)
    BY <1>2
  <2> HIDE DEF u
  <2>4. /\ b2 \in Brokers /\ b2.out[c] = b.out[c] \o u /\ \A d \in Ids \ {c} : b2.out[d] = b.out[d]
        /\ b2.state = b.state /\ b2.consumers = b.consumers /\ b2.delivered = b.delivered
        /\ b2.returned = b.returned /\ b2.sent = b.sent
    BY <2>2, <2>3, Pushed, SMTT(30)
  <2>5. OtherChannels(b, b2, c)
    BY <1>0, <2>4 DEF OtherChannels
  <2>6. Replied(b, b2, c, r, u)
    BY <2>4 DEF Replied, u
  <2> QED BY <2>2, <2>4, <2>5, <2>6 DEF Served
<1>3. ASSUME NEW n \in BodyFrames, b2 = Delivered(b, c, "basic.get-ok", NoTag, n)
      PROVE  Served(b, b2, c, r)
  <2> DEFINE m == b.sent + 1
             u == <<Method("basic.get-ok", NoTag, m)>> \o Content(m, n)
  <2>1. n \in Nat /\ m \in Nat
    BY <1>0, BodyFramesAssumption
  <2>2. u \in Seq(Wire)
    BY <2>1, MessageFrames DEF MethodIds
  <2>3. /\ b2 \in Brokers /\ b2.out[c] = b.out[c] \o u /\ \A d \in Ids \ {c} : b2.out[d] = b.out[d]
        /\ b2.state = b.state /\ b2.consumers = b.consumers /\ b2.returned = b.returned
        /\ b2.sent = b.sent + 1 /\ b2.delivered = b.delivered
    <3> HIDE DEF m, u
    <3> DEFINE id == "basic.get-ok"
    <3>1. id \in {"basic.deliver", "basic.get-ok"} /\ id # "basic.deliver"
      OBVIOUS
    <3>2. b2 = Delivered(b, c, id, NoTag, n)
      BY <1>3
    <3>3. u = <<Method(id, NoTag, b.sent + 1)>> \o Content(b.sent + 1, n)
      BY DEF u, m
    <3> HIDE DEF id
    <3>8. Message(b, c, id, NoTag, n, b2)
      BY <1>0, <2>1, <3>1, <3>2, MessageDelivered
    <3>4. /\ b2 \in Brokers /\ b2.out[c] = b.out[c] \o u /\ \A d \in Ids \ {c} : b2.out[d] = b.out[d]
          /\ b2.state = b.state /\ b2.consumers = b.consumers /\ b2.returned = b.returned
          /\ b2.sent = b.sent + 1
          /\ \A d \in Ids : b2.delivered[d] = IF d = c /\ id = "basic.deliver"
                                               THEN b.delivered[d] \cup {b.sent + 1} ELSE b.delivered[d]
      BY <3>3, <3>8 DEF Message
    <3>5. b.delivered \in [Ids -> SUBSET Nat] /\ b2.delivered \in [Ids -> SUBSET Nat]
      BY <3>4 DEF Brokers
    <3>6. b2.delivered = b.delivered
      BY <3>1, <3>4, <3>5
    <3> QED BY <3>4, <3>6
  <2>4. \E m1, n1 \in Nat : u = <<Method("basic.get-ok", NoTag, m1)>> \o Content(m1, n1)
    BY <2>1
  <2> HIDE DEF u, m
  <2>5. OtherChannels(b, b2, c)
    BY <1>0, <2>3 DEF OtherChannels
  <2>6. Replied(b, b2, c, r, u)
    BY <2>3, <2>4 DEF Replied
  <2> QED BY <2>2, <2>3, <2>5, <2>6 DEF Served
<1>4. ASSUME b2 = CloseChannel(b, c) PROVE Served(b, b2, c, r)
  BY <1>4, ChannelClosed DEF Served
<1> QED BY <1>1, <1>2, <1>3, <1>4

\* basic.ack has no answer.
LEMMA AckReplies ==
  ASSUME NEW b \in Brokers, NEW c \in Ids \ {0}, NEW r \in Requests, r.id = "basic.ack",
         b.state[c] = "open", NEW b2 \in Replies(b, c, r)
  PROVE  Served(b, b2, c, r)
<1>1. b2 = [b EXCEPT !.unacked[c] = @ \ {r.msg}] \/ b2 = CloseChannel(b, c)
  BY DEF Replies
<1>2. ASSUME b2 = [b EXCEPT !.unacked[c] = @ \ {r.msg}] PROVE Served(b, b2, c, r)
  <2> DEFINE ua == [b.unacked EXCEPT ![c] = @ \ {r.msg}]
  <2>1. b.unacked \in [Ids -> SUBSET Nat] /\ b.sent \in Nat
    BY DEF Brokers
  <2>2. ua \in [Ids -> SUBSET Nat]
    BY <2>1
  <2>3. b2 = [b EXCEPT !.unacked = ua]
    BY <1>2 DEF Brokers
  <2> HIDE DEF ua
  <2>4. /\ b2 \in Brokers /\ b2.out = b.out /\ b2.state = b.state /\ b2.consumers = b.consumers
        /\ b2.returned = b.returned /\ b2.delivered = b.delivered /\ b2.sent = b.sent
    BY <2>2, <2>3 DEF Brokers
  <2> QED BY <2>1, <2>4 DEF Served, OtherChannels, Silent
<1>3. ASSUME b2 = CloseChannel(b, c) PROVE Served(b, b2, c, r)
  BY <1>3, ChannelClosed DEF Served
<1> QED BY <1>1, <1>2, <1>3

\* A request is served or dropped, and changes nothing of the other channels.
LEMMA ServeEffect ==
  ASSUME NEW b \in Brokers, NEW c \in Ids \ {0}, NEW r \in Requests,
         r.id = "basic.consume" => r.tag \in Tags,
         r.id = "channel.close-ok" => b.state[c] # "open",
         r.id = "channel.open" => b.state[c] # "open",
         NEW b2 \in Serve(b, c, r)
  PROVE  Served(b, b2, c, r)
<1>0. b.state[c] \in {"closed", "open", "closing"} /\ b.sent \in Nat
  BY DEF Brokers
<1>1. CASE ~b.up
  BY <1>0, <1>1 DEF Serve, Served, OtherChannels, Silent
<1>2. CASE b.up /\ b.state[c] = "closing"
  <2>1. CASE r.id = "channel.close-ok"
    <3> DEFINE st == [b.state EXCEPT ![c] = "closed"]
    <3>1. st \in [Ids -> {"closed", "open", "closing"}] /\ st[c] = "closed"
          /\ \A d \in Ids \ {c} : st[d] = b.state[d]
      BY DEF Brokers
    <3>2. b2 = [b EXCEPT !.state = st]
      BY <1>2, <2>1 DEF Serve, Brokers
    <3> HIDE DEF st
    <3>3. /\ b2 \in Brokers /\ b2.out = b.out /\ b2.state = st /\ b2.consumers = b.consumers
          /\ b2.returned = b.returned /\ b2.delivered = b.delivered /\ b2.sent = b.sent
      BY <3>1, <3>2 DEF Brokers
    <3> QED BY <1>0, <1>2, <2>1, <3>1, <3>3 DEF Served, OtherChannels, Silent
  <2>2. CASE r.id # "channel.close-ok"
    BY <1>0, <1>2, <2>2 DEF Serve, Served, OtherChannels, Silent
  <2> QED BY <2>1, <2>2
<1>3. CASE b.up /\ b.state[c] = "closed" /\ r.id # "channel.open"
  <2>1. b2 = CloseConnection(b)
    BY <1>3 DEF Serve
  <2> QED BY <2>1, ConnectionClosed DEF Served
<1>4. CASE b.up /\ (b.state[c] = "open" \/ (b.state[c] = "closed" /\ r.id = "channel.open"))
  <2>1. b2 \in Replies(b, c, r)
    BY <1>4 DEF Serve
  <2>2. r.id \in {"channel.open", "confirm.select", "declare", "basic.qos", "basic.publish",
                  "basic.get", "basic.recover", "basic.consume", "basic.cancel", "basic.ack",
                  "channel.close-ok"}
    BY DEF Requests
  <2>3. CASE r.id \in DOMAIN AnswerTo
    BY <1>4, <2>1, <2>3, PlainReplies
  <2>4. CASE r.id \in {"basic.publish", "basic.get", "basic.ack"}
    BY <1>4, <2>1, <2>4, PublishReplies, GetReplies, AckReplies
  <2>5. r.id # "channel.close-ok"
    BY <1>0, <1>4
  <2> QED BY <2>2, <2>3, <2>4, <2>5 DEF AnswerTo
<1> QED BY <1>0, <1>1, <1>2, <1>3, <1>4

\* A request on channel c keeps the channels tidy, whose queues are q.
LEMMA ServeKeeps ==
  ASSUME NEW D \in SUBSET Ids, NEW q \in [D -> Seq(Wire)], NEW b \in Brokers, Tidy(q, b),
         NEW c \in Ids \ {0}, NEW r \in Requests, NEW b2, Served(b, b2, c, r),
         c \notin D => b.state[c] # "open" /\ r.id # "channel.open",
         r.id = "channel.close-ok" => c \notin D
  PROVE  Tidy(q, b2)
<1>3. b2.consumers[0] = {} /\ \A d \in Ids \ {0} : b2.consumers[d] # {} => b2.state[d] = "open"
  <2>0. 0 \in Ids \ {c} /\ b.consumers[0] = {}
        /\ \A d \in Ids \ {0} : b.consumers[d] # {} => b.state[d] = "open"
    BY IdSpaceAssumption DEF Tidy, Ids
  <2>1. \A d \in Ids \ {c} : b2.consumers[d] = b.consumers[d]
    BY DEF Served, OtherChannels
  <2>2. \A d \in Ids \ {0, c} : b2.state[d] = b.state[d]
    BY DEF Served, OtherChannels
  <2>3. b2.consumers[c] # {} => b2.state[c] = "open"
    BY <2>0 DEF Served, Silent, Closes, Replied
  <2> QED BY <2>0, <2>1, <2>2, <2>3
<1>0. /\ \A d \in Ids \ {0, c} : b2.out[d] = b.out[d] /\ b2.state[d] = b.state[d]
      /\ DOMAIN q = D /\ b2.out \in [Ids -> Seq(Wire)] /\ b.out \in [Ids -> Seq(Wire)]
  BY DEF Served, OtherChannels, Brokers
<1>1. ASSUME NEW d \in Ids \ (D \cup {0})
      PROVE  b2.out[d] = <<>> /\ b2.state[d] # "open"
  <2>0. b.out[d] = <<>> /\ b.state[d] # "open"
    BY <1>0 DEF Tidy
  <2>1. CASE d # c
    BY <1>0, <2>0, <2>1
  <2>2. CASE d = c
    BY <2>0, <2>2 DEF Served, Silent, Closes, Replied
  <2> QED BY <2>1, <2>2
<1>2. ASSUME NEW d \in D \ {0}, NEW i \in 1 .. Len(Flow(q, b2, d)), IsClose(Flow(q, b2, d)[i])
      PROVE  i = Len(Flow(q, b2, d)) /\ b2.state[d] = "closing"
  <2>0. \A j \in 1 .. Len(Flow(q, b, d)) :
           IsClose(Flow(q, b, d)[j]) => j = Len(Flow(q, b, d)) /\ b.state[d] = "closing"
    BY <1>0 DEF Tidy
  <2>1. CASE b2.out[d] = b.out[d] /\ b2.state[d] = b.state[d]
    BY <1>2, <2>0, <2>1 DEF Flow
  <2>2. CASE d = c
    <3>1. CASE Silent(b, b2, c, r)
      BY <2>1, <2>2, <3>1 DEF Silent
    <3> DEFINE s == Flow(q, b, c)
    <3>2. s \in Seq(Wire) /\ Len(s) \in Nat
      BY <1>0, <2>2, ConcatProperties, LenProperties DEF Flow
    <3>3. ASSUME NEW u \in Seq(Wire), b2.out[c] = b.out[c] \o u
          PROVE  /\ Flow(q, b2, c) = s \o u
                 /\ Len(Flow(q, b2, c)) = Len(s) + Len(u)
                 /\ \A j \in 1 .. Len(s) + Len(u) :
                       Flow(q, b2, c)[j] = IF j <= Len(s) THEN s[j] ELSE u[j - Len(s)]
      <4>0. q[c] \in Seq(Wire) /\ b.out[c] \in Seq(Wire)
        BY <1>0, <2>2
      <4>1. Flow(q, b2, c) = s \o u
        <5>1. (q[c] \o b.out[c]) \o u = q[c] \o (b.out[c] \o u)
          BY <4>0, Associated, ZenonT(30)
        <5> QED BY <3>3, <5>1 DEF Flow
      <4> HIDE DEF s
      <4> QED BY <3>2, <4>1, ConcatProperties
    <3>4. CASE Closes(b, b2, c)
      <4> DEFINE f == Plain("channel.close")
                 u == <<f>>
      <4>1. f \in Wire
        BY FrameTypes DEF MethodIds
      <4>2. u \in Seq(Wire) /\ Len(u) = 1
        BY <4>1
      <4>3. b2.out[c] = b.out[c] \o u /\ b.state[c] = "open" /\ b2.state[c] = "closing"
        BY <3>4 DEF Closes
      <4> HIDE DEF u, s
      <4>4. /\ Len(Flow(q, b2, c)) = Len(s) + Len(u)
            /\ \A j \in 1 .. Len(s) + Len(u) :
                       Flow(q, b2, c)[j] = IF j <= Len(s) THEN s[j] ELSE u[j - Len(s)]
        BY <3>3, <4>2, <4>3
      <4>5. i <= Len(s) => i \in 1 .. Len(s) /\ Flow(q, b2, c)[i] = s[i]
        BY <2>2, <3>2, <4>2, <4>4
      <4>6. ~(i <= Len(s))
        BY <1>2, <2>0, <2>2, <4>3, <4>5 DEF s
      <4> QED BY <2>2, <3>2, <4>2, <4>3, <4>4, <4>6
    <3>5. CASE \E u \in Seq(Wire) : Replied(b, b2, c, r, u)
      <4> PICK u \in Seq(Wire) : Replied(b, b2, c, r, u)
        BY <3>5
      <4>1. b2.out[c] = b.out[c] \o u /\ b.state[c] # "closing"
        BY DEF Replied
      <4>2. \A j \in 1 .. Len(u) : ~IsClose(u[j])
        <5>1. \A f : u = <<f>> => (\A j \in 1 .. Len(u) : u[j] = f)
          OBVIOUS
        <5>2. CASE r.id \in DOMAIN AnswerTo /\ u = <<Plain(AnswerTo[r.id])>>
          BY <5>2, SMTT(30) DEF AnswerTo, IsClose, Plain, Method
        <5>3. CASE u = <<Plain("basic.get-empty")>>
          BY <5>3 DEF IsClose, Plain, Method
        <5>4. ASSUME NEW id \in {"basic.ack", "basic.nack"}, NEW m, u = <<Method(id, NoTag, m)>>
              PROVE  \A j \in 1 .. Len(u) : ~IsClose(u[j])
          BY <5>4 DEF IsClose, Method
        <5>8. ASSUME NEW id \in {"basic.get-ok", "basic.return"}, NEW m \in Nat, NEW n \in Nat,
                     NEW v, v = <<Method(id, NoTag, m)>> \o Content(m, n),
                     NEW w, w = v \o <<Method("basic.ack", NoTag, m)>>
              PROVE  /\ \A j \in 1 .. Len(v) : ~IsClose(v[j])
                     /\ \A j \in 1 .. Len(w) : ~IsClose(w[j])
          <6>1. id \in MethodIds /\ NoTag \in Tags \cup {NoTag}
            BY DEF MethodIds
          <6>5. Framed(v, w, id, NoTag, m, n)
            BY <5>8, <6>1, MessageParts
          <6>2. /\ Len(v) = n + 2 /\ v[1] = Method(id, NoTag, m) /\ v[2] = Header(m, n)
                /\ \A k \in 1 .. n : v[k + 2] = Body(m, k)
                /\ Len(w) = n + 3 /\ \A j \in 1 .. n + 2 : w[j] = v[j]
                /\ w[n + 3] = Method("basic.ack", NoTag, m)
            BY <6>5 DEF Framed
          <6>3. ASSUME NEW j \in 1 .. n + 2 PROVE ~IsClose(v[j])
            <7>1. CASE j = 1
              BY <5>8, <6>2, <7>1, CloseFrames
            <7>2. CASE j = 2
              BY <6>2, <7>2, CloseFrames
            <7>3. CASE j > 2
              <8>1. j - 2 \in 1 .. n /\ j = j - 2 + 2
                BY <7>3
              <8>2. v[j] = Body(m, j - 2)
                BY <6>2, <8>1
              <8> QED BY <8>2, CloseFrames
            <7> QED BY <7>1, <7>2, <7>3
          <6>4. ~IsClose(w[n + 3])
            BY <6>2 DEF IsClose, Method
          <6> QED BY <6>2, <6>3, <6>4, SMTT(20)
        <5>5. ASSUME NEW m \in Nat, NEW n \in Nat, u = <<Method("basic.get-ok", NoTag, m)>> \o Content(m, n)
              PROVE  \A j \in 1 .. Len(u) : ~IsClose(u[j])
          BY <5>5, <5>8
        <5>6. ASSUME NEW m \in Nat, NEW n \in Nat,
                     u = <<Method("basic.return", NoTag, m)>> \o Content(m, n)
                                \o <<Method("basic.ack", NoTag, m)>>
              PROVE  \A j \in 1 .. Len(u) : ~IsClose(u[j])
          BY <5>6, <5>8
        <5>7. b.sent + 1 \in Nat
          BY DEF Brokers
        <5> QED BY <5>2, <5>3, <5>4, <5>5, <5>6, <5>7 DEF Replied
      <4>3. Len(u) \in Nat
        BY LenProperties
      <4> HIDE DEF s
      <4>4. /\ Len(Flow(q, b2, c)) = Len(s) + Len(u)
            /\ \A j \in 1 .. Len(s) + Len(u) :
                       Flow(q, b2, c)[j] = IF j <= Len(s) THEN s[j] ELSE u[j - Len(s)]
        BY <3>3, <4>1
      <4>5. i <= Len(s) => i \in 1 .. Len(s) /\ Flow(q, b2, c)[i] = s[i]
        BY <2>2, <3>2, <4>3, <4>4
      <4>6. ~(i <= Len(s)) => i - Len(s) \in 1 .. Len(u) /\ Flow(q, b2, c)[i] = u[i - Len(s)]
        BY <2>2, <3>2, <4>3, <4>4
      <4> QED BY <1>2, <2>0, <2>2, <4>1, <4>2, <4>5, <4>6 DEF s
    <3> QED BY <3>1, <3>4, <3>5 DEF Served
  <2> QED BY <1>0, <2>1, <2>2
<1> QED BY <1>0, <1>1, <1>2, <1>3 DEF Tidy

-----------------------------------------------------------------------------
(* The steps of a call.                                                     *)

\* The call takes f, the p-th frame on its way on its channel, from the queue or from the
\* connection: q and b are what is left.
Takes(f, q, b, p) ==
    LET c == call.ch
        queue == m_open_channels[c]
    IN  /\ p \in 1 .. Len(Stream(c)) /\ f = Stream(c)[p]
        /\ \/ /\ p \in 1 .. Len(queue) /\ b = broker
              /\ q = [m_open_channels EXCEPT ![c] = RemoveAt(queue, p)]
           \/ /\ p = Len(queue) + 1 /\ broker.out[c] # <<>> /\ q = m_open_channels
              /\ b = [broker EXCEPT !.out[c] = Tail(@)]

\* The method a call waits for, and no earlier one on its channel.
MethodTaken ==
    \E f, q, b, p :
        /\ Takes(f, q, b, p)
        /\ call.stage \in MethodStages
        /\ is_expected_method(f, call)
        /\ \A i \in 1 .. Len(Stream(call.ch)) : i < p => ~is_expected_method(Stream(call.ch)[i], call)
        /\ MethodArrived(f, q, b)

\* The next frame for a call that reads a content.
ContentTaken ==
    \E f, q, b :
        /\ Takes(f, q, b, 1)
        /\ call.stage \in ContentStages
        /\ ReadContent(f, q, b)

\* The close of the channel of the call.
CloseTaken ==
    \E f, q, b, p :
        /\ Takes(f, q, b, p)
        /\ IsClose(f) /\ call.stage \in MethodStages \cup ContentStages
        /\ FinishCloseChannel(Erase(q), b)
        /\ UNCHANGED <<impl, history>>

\* A frame that goes to a queue.
FrameQueued ==
    \E c \in DOMAIN m_open_channels \ {0} :
        LET f == Head(broker.out[c])
        IN  /\ broker.out[c] # <<>>
            /\ c = call.ch => /\ call.stage \in MethodStages
                              /\ ~is_expected_method(f, call)
            /\ GoOn([m_open_channels EXCEPT ![c] = Append(@, f)], [broker EXCEPT !.out[c] = Tail(@)], call)
            /\ UNCHANGED <<impl, history>>

\* A frame of the connection itself.
ConnectionLost ==
    /\ broker.out[0] # <<>>
    /\ ConnectionFrame([broker EXCEPT !.out[0] = Tail(@)])

\* Taking the first frame is taking the head.
LEMMA HeadTaken ==
  ASSUME NEW s \in Seq(Wire), s # <<>>
  PROVE  1 \in 1 .. Len(s) /\ Head(s) = s[1] /\ Tail(s) = RemoveAt(s, 1)
<1>1. Len(s) \in Nat /\ Len(s) # 0
  BY EmptySeq, LenProperties
<1>2. Tail(s) \in Seq(Wire) /\ Len(Tail(s)) = Len(s) - 1 /\ \A i \in 1 .. Len(s) - 1 : Tail(s)[i] = s[i + 1]
  BY HeadTailProperties
<1>3. 1 \in 1 .. Len(s) /\ \A i \in 1 .. Len(s) - 1 : Tail(s)[i] = s[IF i < 1 THEN i ELSE i + 1]
  BY <1>1, <1>2
<1>4. Tail(s) = RemoveAt(s, 1)
  BY <1>2, <1>3, SameRemoved
<1>5. Head(s) = s[1]
  OBVIOUS
<1> QED BY <1>3, <1>4, <1>5

\* A call that is at some stage has its channel.
LEMMA CallChannel ==
  ASSUME Base, call.stage \in MethodStages \cup ContentStages
  PROVE  /\ Busy /\ m_is_connected
         /\ call.ch \in DOMAIN m_open_channels \ {0} /\ call.ch \in Ids
         /\ m_open_channels[call.ch] \in Seq(Wire)
         /\ broker \in Brokers /\ broker.out[call.ch] \in Seq(Wire)
<1>1. call.stage # "idle"
  BY DEF MethodStages, ContentStages, Prelude
<1>2. Busy
  BY <1>1 DEF Base, StageInv, NoCall
<1> QED BY <1>2 DEF Base, StageInv, ChannelInv, TypeInv, CallRecords, Brokers

\* The queue, then the frames from the broker.
LEMMA StreamParts ==
  ASSUME NEW x \in Seq(Wire), NEW y \in Seq(Wire)
  PROVE  /\ x \o y \in Seq(Wire) /\ Len(x \o y) = Len(x) + Len(y)
         /\ Len(x) \in Nat /\ Len(y) \in Nat
         /\ \A i \in 1 .. Len(x) : (x \o y)[i] = x[i]
         /\ y # <<>> => Len(x) + 1 \in 1 .. Len(x \o y) /\ (x \o y)[Len(x) + 1] = Head(y)
<1>1. /\ x \o y \in Seq(Wire) /\ Len(x \o y) = Len(x) + Len(y)
      /\ \A i \in 1 .. Len(x) + Len(y) : (x \o y)[i] = IF i <= Len(x) THEN x[i] ELSE y[i - Len(x)]
  BY ConcatProperties
<1>2. Len(x) \in Nat /\ Len(y) \in Nat
  BY LenProperties
<1>3. \A i \in 1 .. Len(x) : (x \o y)[i] = x[i]
  BY <1>1, <1>2
<1>4. ASSUME y # <<>> PROVE Len(x) + 1 \in 1 .. Len(x \o y) /\ (x \o y)[Len(x) + 1] = Head(y)
  <2>1. 1 \in 1 .. Len(y) /\ Head(y) = y[1]
    BY <1>4, HeadTaken
  <2>2. Len(x) + 1 \in 1 .. Len(x) + Len(y) /\ ~(Len(x) + 1 <= Len(x)) /\ Len(x) + 1 - Len(x) = 1
    BY <1>2, <2>1
  <2> QED BY <1>1, <2>1, <2>2
<1> QED BY <1>1, <1>2, <1>3, <1>4

\* What a call does with the frames it reads (MethodFromQueue, ContentFromQueue,
\* FrameFromBroker).
LEMMA CallSteps ==
  ASSUME Base, CallStep
  PROVE  MethodTaken \/ ContentTaken \/ CloseTaken \/ FrameQueued \/ ConnectionLost
<1> DEFINE c == call.ch
           queue == m_open_channels[c]
           out == broker.out[c]
<1>0. call.stage \in MethodStages \cup ContentStages
  BY DEF CallStep, MethodFromQueue, ContentFromQueue, FrameFromBroker, Reading
<1>1. /\ c \in DOMAIN m_open_channels \ {0} /\ c \in Ids /\ queue \in Seq(Wire) /\ out \in Seq(Wire)
  BY <1>0, CallChannel
<1>2. Stream(c) = queue \o out
  BY DEF Stream, Flow
<1>4. DOMAIN queue = 1 .. Len(queue)
  BY <1>1, LenProperties
<1> HIDE DEF queue, out, c
<1>3. /\ Len(Stream(c)) = Len(queue) + Len(out) /\ Len(queue) \in Nat /\ Len(out) \in Nat
      /\ \A i \in 1 .. Len(queue) : Stream(c)[i] = queue[i]
      /\ out # <<>> => Len(queue) + 1 \in 1 .. Len(Stream(c)) /\ Stream(c)[Len(queue) + 1] = Head(out)
  BY <1>1, <1>2, StreamParts
<1> USE DEF queue, out, c
<1>5. CASE MethodFromQueue
  <2> DEFINE found == ExpectedAt(queue, call)
             first == CHOOSE i \in found : \A j \in found : i <= j
  <2>1. /\ call.stage \in MethodStages /\ found # {}
        /\ MethodArrived(queue[first], [m_open_channels EXCEPT ![c] = RemoveAt(@, first)], broker)
    BY <1>5 DEF MethodFromQueue
  <2>2. found \subseteq 1 .. Len(queue)
    BY <1>4 DEF ExpectedAt
  <2>3. \E i \in found : \A j \in found : i <= j
    <3>1. found \in SUBSET Nat
      BY <1>3, <2>2
    <3> QED BY <2>1, <3>1, LeastNumber
  <2>4. first \in found /\ \A j \in found : first <= j
    BY <2>3
  <2> HIDE DEF first
  <2>5. first \in 1 .. Len(queue) /\ is_expected_method(queue[first], call)
    BY <2>2, <2>4 DEF ExpectedAt
  <2>6. \A i \in 1 .. Len(Stream(c)) : i < first => ~is_expected_method(Stream(c)[i], call)
    <3> SUFFICES ASSUME NEW i \in 1 .. Len(Stream(c)), i < first, is_expected_method(Stream(c)[i], call)
                 PROVE  FALSE
      OBVIOUS
    <3>1. i \in 1 .. Len(queue)
      BY <1>3, <2>5
    <3>2. i \in found
      BY <1>3, <1>4, <3>1 DEF ExpectedAt
    <3> QED BY <2>2, <2>4, <2>5, <3>1, <3>2
  <2>a. first \in 1 .. Len(Stream(c)) /\ queue[first] = Stream(c)[first]
    <3> HIDE DEF queue, out, c
    <3> QED BY <1>3, <2>5
  <2>7. Takes(queue[first], [m_open_channels EXCEPT ![c] = RemoveAt(@, first)], broker, first)
    BY <2>5, <2>a DEF Takes
  <2>8. [m_open_channels EXCEPT ![c] = RemoveAt(@, first)] = [m_open_channels EXCEPT ![c] = RemoveAt(queue, first)]
    OBVIOUS
  <2> HIDE DEF found
  <2>9. MethodTaken
    BY <2>1, <2>5, <2>6, <2>7 DEF MethodTaken
  <2> QED BY <2>9
<1>6. CASE ContentFromQueue
  <2> DEFINE f == Head(queue)
             q == [m_open_channels EXCEPT ![c] = Tail(@)]
  <2>1. /\ call.stage \in ContentStages /\ queue # <<>>
        /\ \/ /\ IsClose(f) /\ FinishCloseChannel(Erase(q), broker) /\ UNCHANGED <<impl, history>>
           \/ ReadContent(f, q, broker)
    BY <1>6 DEF ContentFromQueue
  <2>2. 1 \in 1 .. Len(queue) /\ f = queue[1] /\ Tail(queue) = RemoveAt(queue, 1)
    BY <1>1, <2>1, HeadTaken
  <2>3. q = [m_open_channels EXCEPT ![c] = RemoveAt(queue, 1)]
    BY <2>2
  <2>4. 1 \in 1 .. Len(Stream(c)) /\ f = Stream(c)[1]
    <3> HIDE DEF queue, out, c, f
    <3> QED BY <1>3, <2>2
  <2> HIDE DEF q, f
  <2>5. Takes(f, q, broker, 1)
    BY <2>2, <2>3, <2>4 DEF Takes
  <2> QED BY <1>0, <2>1, <2>5 DEF ContentTaken, CloseTaken
<1>7. ASSUME NEW d \in Ids, FrameFromBroker(d)
      PROVE  MethodTaken \/ ContentTaken \/ CloseTaken \/ FrameQueued \/ ConnectionLost
  <2> DEFINE f == Head(broker.out[d])
             b == [broker EXCEPT !.out[d] = Tail(@)]
  <2>1. /\ Reading /\ broker.out[d] # <<>>
        /\ \/ d = c /\ OwnFrame(f, b)
           \/ d = 0 /\ ConnectionFrame(b)
           \/ d \notin {0, c} /\ OtherFrame(d, f, b)
    BY <1>7 DEF FrameFromBroker
  <2>2. CASE d = c /\ OwnFrame(f, b)
    <3>1. out # <<>> /\ f = Head(out)
      BY <2>1, <2>2
    <3>2. Takes(f, m_open_channels, b, Len(queue) + 1)
      BY <1>3, <2>2, <3>1 DEF Takes
    <3>3. \A i \in 1 .. Len(Stream(c)) : i < Len(queue) + 1 /\ call.stage \in MethodStages
             => ~is_expected_method(Stream(c)[i], call)
      <4>1. call.stage \in MethodStages => ExpectedAt(queue, call) = {}
        BY <2>1 DEF Reading, MethodStages, ContentStages, Prelude
      <4>2. call.stage \in MethodStages => \A i \in 1 .. Len(queue) : ~is_expected_method(queue[i], call)
        BY <1>4, <4>1 DEF ExpectedAt
      <4> QED BY <1>3, <4>2
    <3>4. m_open_channels \in [DOMAIN m_open_channels -> Seq(Wire)]
      BY DEF Base, TypeInv
    <3> HIDE DEF f, b
    <3>5. CASE call.stage \in MethodStages /\ is_expected_method(f, call) /\ MethodArrived(f, m_open_channels, b)
      BY <3>2, <3>3, <3>5 DEF MethodTaken
    <3>6. CASE /\ call.stage \in MethodStages /\ IsClose(f)
               /\ FinishCloseChannel(MaybeReleaseBuffers(Erase(m_open_channels)), b)
               /\ UNCHANGED <<impl, history>>
      <4>1. Erase(m_open_channels) \in [DOMAIN m_open_channels \ {c} -> Seq(Wire)]
        BY <3>4 DEF Erase, Restrict
      <4>2. MaybeReleaseBuffers(Erase(m_open_channels)) = Erase(m_open_channels)
        BY <4>1, NothingRecycled
      <4> QED BY <3>2, <3>6, <4>2 DEF CloseTaken
    <3>7. CASE /\ call.stage \in MethodStages /\ ~is_expected_method(f, call)
               /\ GoOn([m_open_channels EXCEPT ![c] = Append(@, f)], b, call)
               /\ UNCHANGED <<impl, history>>
      BY <1>1, <2>2, <3>1, <3>7 DEF FrameQueued, f, b
    <3>8. CASE call.stage \in ContentStages /\ ReadContent(f, m_open_channels, b)
      <4>1. queue = <<>>
        BY <2>1, <3>8 DEF Reading, MethodStages, ContentStages, Prelude
      <4>2. Len(queue) + 1 = 1
        BY <4>1
      <4> QED BY <3>2, <3>8, <4>2 DEF ContentTaken
    <3> QED BY <2>2, <3>5, <3>6, <3>7, <3>8 DEF OwnFrame
  <2>3. CASE d = 0 /\ ConnectionFrame(b)
    BY <2>1, <2>3 DEF ConnectionLost
  <2>4. CASE d \notin {0, c} /\ OtherFrame(d, f, b)
    <3>1. d \in DOMAIN m_open_channels
      BY <2>1, <2>4 DEF Base, CloseInv, Tidy
    <3>2. GoOn([m_open_channels EXCEPT ![d] = Append(@, f)], b, call) /\ UNCHANGED <<impl, history>>
      BY <2>4, <3>1 DEF OtherFrame
    <3> QED BY <2>1, <2>4, <3>1, <3>2 DEF FrameQueued
  <2> QED BY <2>1, <2>2, <2>3, <2>4
<1> QED BY <1>5, <1>6, <1>7 DEF CallStep

\* b2 is the broker b with the first frame for channel c taken.
Popped(b, b2, c) ==
    /\ b2 \in Brokers /\ b2.out[c] = Tail(b.out[c]) /\ \A d \in Ids \ {c} : b2.out[d] = b.out[d]
    /\ b2.up = b.up /\ b2.state = b.state /\ b2.consumers = b.consumers /\ b2.unacked = b.unacked
    /\ b2.delivered = b.delivered /\ b2.returned = b.returned /\ b2.sent = b.sent

\* The first frame of a channel is taken off the connection (FrameFromBroker).
LEMMA PopFrame ==
  ASSUME NEW b \in Brokers, NEW c \in Ids, b.out[c] # <<>>
  PROVE  Popped(b, [b EXCEPT !.out[c] = Tail(@)], c)
<1> DEFINE o == [b.out EXCEPT ![c] = Tail(@)]
           z == [b EXCEPT !.out[c] = Tail(@)]
<1>1. b.out \in [Ids -> Seq(Wire)]
  BY DEF Brokers
<1>2. Tail(b.out[c]) \in Seq(Wire)
  BY <1>1, HeadTailProperties
<1>3. o \in [Ids -> Seq(Wire)] /\ o[c] = Tail(b.out[c]) /\ \A d \in Ids \ {c} : o[d] = b.out[d]
  BY <1>1, <1>2
<1>4. z = [b EXCEPT !.out = o]
  BY DEF Brokers
<1> HIDE DEF o, z
<1>5. z \in Brokers /\ z.out = o
  BY <1>3, <1>4 DEF Brokers
<1>6. /\ z.up = b.up /\ z.state = b.state /\ z.consumers = b.consumers /\ z.unacked = b.unacked
      /\ z.delivered = b.delivered /\ z.returned = b.returned /\ z.sent = b.sent
  BY <1>4 DEF Brokers
<1>7. Popped(b, z, c)
  BY <1>3, <1>5, <1>6 DEF Popped
<1> QED BY <1>7 DEF z

\* What is left when the call has taken a frame.
Left(f, q, b, p) ==
    /\ f \in Wire /\ q \in [DOMAIN m_open_channels -> Seq(Wire)] /\ b \in Brokers
    /\ p \in 1 .. Len(Stream(call.ch)) /\ f = Stream(call.ch)[p]
    /\ Stream(call.ch) \in Seq(Wire)
    /\ \A c \in DOMAIN m_open_channels \ {call.ch} : q[c] = m_open_channels[c]
    /\ \A c \in Ids \ {call.ch} : b.out[c] = broker.out[c]
    /\ b.up = broker.up /\ b.state = broker.state /\ b.consumers = broker.consumers
    /\ b.delivered = broker.delivered /\ b.returned = broker.returned /\ b.sent = broker.sent
    /\ Flow(q, b, call.ch) = RemoveAt(Stream(call.ch), p)
    /\ \/ p <= Len(m_open_channels[call.ch]) /\ Len(q[call.ch]) = Len(m_open_channels[call.ch]) - 1
       \/ p = Len(m_open_channels[call.ch]) + 1 /\ q = m_open_channels
    /\ p = Len(Stream(call.ch)) => b.out[call.ch] = <<>>

\* A call takes its frame and leaves all others as they are (MethodFromQueue, OwnFrame).
LEMMA TakesLeft ==
  ASSUME Base, call.stage \in MethodStages \cup ContentStages, NEW f, NEW q, NEW b, NEW p, Takes(f, q, b, p)
  PROVE  Left(f, q, b, p)
<1> DEFINE c == call.ch
           x == m_open_channels[c]
           y == broker.out[c]
           s == Stream(c)
<1>0. /\ c \in DOMAIN m_open_channels \ {0} /\ c \in Ids /\ x \in Seq(Wire) /\ y \in Seq(Wire)
      /\ m_open_channels \in [DOMAIN m_open_channels -> Seq(Wire)] /\ broker \in Brokers
  BY CallChannel DEF Base, TypeInv
<1>1. s = x \o y
  BY DEF Stream, Flow
<1>2. /\ s \in Seq(Wire) /\ Len(s) = Len(x) + Len(y) /\ Len(x) \in Nat /\ Len(y) \in Nat
      /\ \A i \in 1 .. Len(x) : s[i] = x[i]
  <2> HIDE DEF x, y, s
  <2> QED BY <1>0, <1>1, StreamParts
<1>3. p \in 1 .. Len(s) /\ f = s[p]
  BY DEF Takes
<1>4. f \in Wire
  <2> HIDE DEF s
  <2> QED BY <1>2, <1>3, ElementOfSeq
<1>5. /\ \A i \in 1 .. Len(x) : RemoveAt(x, i) \o y = RemoveAt(s, i)
      /\ y # <<>> => x \o Tail(y) = RemoveAt(s, Len(x) + 1)
  <2> HIDE DEF x, y, s
  <2> QED BY <1>0, <1>1, Taken
<1>6. CASE /\ p \in 1 .. Len(x) /\ b = broker
           /\ q = [m_open_channels EXCEPT ![c] = RemoveAt(x, p)]
  <2>1. RemoveAt(x, p) \in Seq(Wire) /\ Len(RemoveAt(x, p)) = Len(x) - 1
    <3> HIDE DEF x
    <3> QED BY <1>0, <1>6, Removed
  <2>2. /\ q \in [DOMAIN m_open_channels -> Seq(Wire)] /\ q[c] = RemoveAt(x, p)
        /\ \A d \in DOMAIN m_open_channels \ {c} : q[d] = m_open_channels[d]
    BY <1>0, <1>6, <2>1
  <2>3. Flow(q, b, c) = RemoveAt(s, p)
    BY <1>5, <1>6, <2>2 DEF Flow
  <2>4. p <= Len(x) /\ Len(q[c]) = Len(x) - 1
    <3> HIDE DEF x
    <3> QED BY <1>2, <1>6, <2>1, <2>2
  <2>5. p = Len(s) => y = <<>>
    <3> HIDE DEF x, y, s
    <3>1. p = Len(s) => Len(y) = 0
      BY <1>2, <1>6
    <3> QED BY <1>0, <3>1, EmptySeq
  <2> QED BY <1>0, <1>2, <1>3, <1>4, <1>6, <2>2, <2>3, <2>4, <2>5 DEF Left
<1>7. CASE /\ p = Len(x) + 1 /\ y # <<>> /\ q = m_open_channels
           /\ b = [broker EXCEPT !.out[c] = Tail(@)]
  <2>1. Popped(broker, b, c)
    BY <1>0, <1>7, PopFrame
  <2>2. b.out[c] = Tail(y)
    BY <2>1 DEF Popped
  <2>3. Flow(q, b, c) = RemoveAt(s, p)
    BY <1>5, <1>7, <2>2 DEF Flow
  <2>4. p = Len(s) => Tail(y) = <<>>
    <3> HIDE DEF x, y, s
    <3>1. Tail(y) \in Seq(Wire) /\ Len(Tail(y)) = Len(y) - 1
      BY <1>0, <1>7, HeadTailProperties
    <3>2. p = Len(s) => Len(Tail(y)) = 0
      BY <1>2, <1>7, <3>1
    <3> QED BY <3>1, <3>2, EmptySeq
  <2> QED BY <1>0, <1>2, <1>3, <1>4, <1>7, <2>1, <2>2, <2>3, <2>4 DEF Left, Popped
<1> QED BY <1>6, <1>7 DEF Takes

\* What a call leaves behind is tidy.
LEMMA TakeTidy ==
  ASSUME Base, call.stage \in MethodStages \cup ContentStages, NEW f, NEW q, NEW b, NEW p, Left(f, q, b, p)
  PROVE  Tidy(q, b)
<1> DEFINE c == call.ch
           s == Stream(c)
           t == Flow(q, b, c)
<1>0. /\ c \in DOMAIN m_open_channels \ {0} /\ c \in Ids
      /\ DOMAIN q = DOMAIN m_open_channels /\ DOMAIN m_open_channels \subseteq Ids
  BY CallChannel DEF Left, Base, TypeInv
<1>1. Tidy(m_open_channels, broker)
  BY DEF Base, CloseInv
<1>2. ASSUME NEW d \in Ids \ (DOMAIN q \cup {0}) PROVE b.out[d] = <<>> /\ b.state[d] # "open"
  BY <1>0, <1>1 DEF Tidy, Left
<1>3. /\ s \in Seq(Wire) /\ p \in 1 .. Len(s) /\ t = RemoveAt(s, p) /\ Len(s) \in Nat
      /\ \A i \in 1 .. Len(s) : IsClose(s[i]) => i = Len(s) /\ broker.state[c] = "closing"
      /\ b.state = broker.state
  <2>1. s \in Seq(Wire)
    BY DEF Left
  <2>2. Len(s) \in Nat
    <3> HIDE DEF s
    <3> QED BY <2>1, LenProperties
  <2> QED BY <1>0, <1>1, <2>1, <2>2 DEF Left, Tidy, Stream
<1>4. ASSUME NEW d \in DOMAIN q \ {0, c}, NEW i \in 1 .. Len(Flow(q, b, d)), IsClose(Flow(q, b, d)[i])
      PROVE  i = Len(Flow(q, b, d)) /\ b.state[d] = "closing"
  <2>1. Flow(q, b, d) = Flow(m_open_channels, broker, d)
    BY <1>0 DEF Left, Flow
  <2> QED BY <1>0, <1>1, <1>4, <2>1 DEF Tidy, Left
<1>5. ASSUME NEW i \in 1 .. Len(t), IsClose(t[i])
      PROVE  i = Len(t) /\ b.state[c] = "closing"
  <2> HIDE DEF s, t
  <2>1. Len(t) = Len(s) - 1 /\ \A j \in 1 .. Len(s) - 1 : t[j] = s[IF j < p THEN j ELSE j + 1]
    BY <1>3, Removed
  <2>2. PICK j \in 1 .. Len(s) : j = IF i < p THEN i ELSE i + 1
    BY <1>3, <2>1
  <2>3. t[i] = s[j]
    BY <2>1, <2>2
  <2>4. j = Len(s) /\ broker.state[c] = "closing"
    BY <1>3, <1>5, <2>3
  <2> QED BY <1>3, <2>1, <2>2, <2>4
<1>6. b.consumers[0] = {} /\ \A d \in Ids \ {0} : b.consumers[d] # {} => b.state[d] = "open"
  BY <1>1 DEF Tidy, Left
<1> QED BY <1>2, <1>4, <1>5, <1>6 DEF Tidy

\* With its close the channel is gone.
LEMMA EraseTidy ==
  ASSUME Base, call.stage \in MethodStages \cup ContentStages, NEW f, NEW q, NEW b, NEW p, Left(f, q, b, p),
         IsClose(f)
  PROVE  /\ Tidy(Erase(q), b) /\ b.state[call.ch] = "closing"
         /\ Erase(q) \in [DOMAIN m_open_channels \ {call.ch} -> Seq(Wire)]
<1> DEFINE c == call.ch
           e == Erase(q)
<1>0. /\ c \in DOMAIN m_open_channels \ {0} /\ c \in Ids
      /\ DOMAIN q = DOMAIN m_open_channels /\ DOMAIN m_open_channels \subseteq Ids
  BY CallChannel DEF Left, Base, TypeInv
<1>1. Tidy(m_open_channels, broker) /\ Tidy(q, b)
  BY TakeTidy DEF Base, CloseInv
<1>2. e \in [DOMAIN q \ {c} -> Seq(Wire)] /\ \A d \in DOMAIN q \ {c} : e[d] = q[d]
  BY <1>0 DEF Erase, Restrict, Left
<1>3. p = Len(Stream(c)) /\ broker.state[c] = "closing"
  BY <1>0, <1>1 DEF Tidy, Left, Stream
<1>4. b.out[c] = <<>> /\ b.state[c] = "closing"
  BY <1>3 DEF Left
<1>5. \A d \in DOMAIN e : Flow(e, b, d) = Flow(q, b, d)
  BY <1>2 DEF Flow
<1>6. DOMAIN e = DOMAIN q \ {c}
  BY <1>2
<1> HIDE DEF e
<1>7. Tidy(e, b)
  <2>1. \A d \in Ids \ (DOMAIN e \cup {0}) : b.out[d] = <<>> /\ b.state[d] # "open"
    BY <1>1, <1>4, <1>6 DEF Tidy
  <2>2. ASSUME NEW d \in DOMAIN e \ {0}, NEW i \in 1 .. Len(Flow(e, b, d)), IsClose(Flow(e, b, d)[i])
        PROVE  i = Len(Flow(e, b, d)) /\ b.state[d] = "closing"
    BY <1>1, <1>5, <1>6, <2>2 DEF Tidy
  <2>3. b.consumers[0] = {} /\ \A d \in Ids \ {0} : b.consumers[d] # {} => b.state[d] = "open"
    BY <1>1 DEF Tidy
  <2> QED BY <2>1, <2>2, <2>3 DEF Tidy
<1> QED BY <1>0, <1>2, <1>4, <1>7 DEF e

\* A frame that goes from the connection to a queue is on its way as before.
Queued(q, b, c) ==
    /\ q \in [DOMAIN m_open_channels -> Seq(Wire)] /\ Popped(broker, b, c)
    /\ \A d \in DOMAIN m_open_channels : Flow(q, b, d) = Stream(d)
    /\ \A d \in DOMAIN m_open_channels \ {c} : q[d] = m_open_channels[d]
    /\ Len(q[c]) = Len(m_open_channels[c]) + 1
    /\ Len(m_open_channels[c]) + 1 \in 1 .. Len(Stream(c))
    /\ Stream(c)[Len(m_open_channels[c]) + 1] = Head(broker.out[c])
    /\ Tidy(q, b)

\* A frame read for later goes behind those in the queue of its channel (OwnFrame, OtherFrame).
LEMMA QueuedFrame ==
  ASSUME Base, NEW c \in DOMAIN m_open_channels \ {0}, broker.out[c] # <<>>
  PROVE  Queued([m_open_channels EXCEPT ![c] = Append(@, Head(broker.out[c]))],
                [broker EXCEPT !.out[c] = Tail(@)], c)
<1> DEFINE x == m_open_channels[c]
           y == broker.out[c]
           f == Head(y)
           q == [m_open_channels EXCEPT ![c] = Append(@, f)]
           b == [broker EXCEPT !.out[c] = Tail(@)]
<1>0. /\ c \in Ids /\ x \in Seq(Wire) /\ y \in Seq(Wire) /\ y # <<>> /\ broker \in Brokers
      /\ m_open_channels \in [DOMAIN m_open_channels -> Seq(Wire)] /\ DOMAIN m_open_channels \subseteq Ids
      /\ Tidy(m_open_channels, broker)
  BY DEF Base, CloseInv, TypeInv, Brokers
<1>1. Popped(broker, b, c)
  BY <1>0, PopFrame
<1>2. f \in Wire /\ Tail(y) \in Seq(Wire)
  <2> HIDE DEF y
  <2> QED BY <1>0, HeadTailProperties
<1>3. Append(x, f) \in Seq(Wire) /\ Len(Append(x, f)) = Len(x) + 1
  <2> HIDE DEF x, f
  <2> QED BY <1>0, <1>2, AppendProperties
<1>4. /\ q \in [DOMAIN m_open_channels -> Seq(Wire)] /\ q[c] = Append(x, f)
      /\ \A d \in DOMAIN m_open_channels \ {c} : q[d] = m_open_channels[d]
  BY <1>0, <1>3
<1>5. Append(x, f) \o Tail(y) = x \o y
  <2> HIDE DEF x, y, f
  <2> DEFINE h == <<f>>
  <2>1. h \in Seq(Wire)
    BY <1>2
  <2>2. Append(x, f) = x \o h
    BY <1>0, <1>2, AppendIsConcat
  <2>3. (x \o h) \o Tail(y) = x \o (h \o Tail(y))
    BY <1>0, <1>2, <2>1, Associated
  <2>4. h \o Tail(y) = y
    BY <1>0 DEF f
  <2> QED BY <2>2, <2>3, <2>4
<1>6. Flow(q, b, c) = Stream(c)
  BY <1>1, <1>4, <1>5 DEF Flow, Stream, Popped
<1>7. \A d \in DOMAIN m_open_channels : Flow(q, b, d) = Stream(d)
  BY <1>0, <1>1, <1>4, <1>6 DEF Flow, Stream, Popped
<1>8. Len(x) + 1 \in 1 .. Len(x \o y) /\ (x \o y)[Len(x) + 1] = f
  <2> HIDE DEF x, y
  <2> QED BY <1>0, StreamParts DEF f
<1>9. Tidy(q, b)
  <2> HIDE DEF q, b
  <2> QED BY <1>0, <1>1, <1>4, <1>7, SMTT(20) DEF Tidy, Popped, Stream
<1>10. Len(q[c]) = Len(x) + 1 /\ Stream(c) = x \o y
  BY <1>3, <1>4 DEF Stream, Flow
<1> HIDE DEF q, b
<1>11. Queued(q, b, c)
  BY <1>1, <1>4, <1>7, <1>8, <1>9, <1>10 DEF Queued
<1> QED BY <1>11 DEF q, b, f, y

\* The first request of a call.
LEMMA FirstRequests ==
  ASSUME NEW op \in Ops \ {"BasicConsumeMessage"}, NEW tag \in Tags \cup {NoTag}
  PROVE  /\ FirstRequest(op, tag) \in Requests
         /\ FirstRequest(op, tag).id \notin {"channel.open", "channel.close-ok", "basic.consume", "confirm.select", "basic.ack"}
         /\ FirstRequest(op, tag).id = "declare" <=> op = "DoRpc"
         /\ FirstRequest(op, tag).id = "basic.publish" <=> op = "BasicPublish"
         /\ FirstRequest(op, tag).id = "basic.get" <=> op = "BasicGet"
         /\ FirstRequest(op, tag).id = "basic.qos" <=> op \in {"BasicConsume", "BasicQos"}
         /\ FirstRequest(op, tag).id = "basic.recover" <=> op = "BasicRecover"
         /\ FirstRequest(op, tag).id = "basic.cancel" <=> op = "BasicCancel"
         /\ op = "BasicCancel" => FirstRequest(op, tag).tag = tag
<1>1. op \in {"DoRpc", "BasicPublish", "BasicGet", "BasicRecover", "BasicConsume", "BasicQos", "BasicCancel"}
  BY DEF Ops, Responses
<1>2. CASE op = "DoRpc"
  BY <1>2 DEF FirstRequest, Request, Requests
<1>3. CASE op = "BasicPublish"
  BY <1>3 DEF FirstRequest, Request, Requests
<1>4. CASE op = "BasicGet"
  BY <1>4 DEF FirstRequest, Request, Requests
<1>5. CASE op \in {"BasicConsume", "BasicQos"}
  BY <1>5 DEF FirstRequest, Request, Requests
<1>6. CASE op = "BasicRecover"
  BY <1>6 DEF FirstRequest, Request, Requests
<1>7. CASE op = "BasicCancel"
  BY <1>7 DEF FirstRequest, Request, Requests
<1> QED BY <1>1, <1>2, <1>3, <1>4, <1>5, <1>6, <1>7

\* A request on a channel of the client.
LEMMA Sent ==
  ASSUME NEW D \in SUBSET Ids, NEW q \in [D -> Seq(Wire)], NEW b \in Brokers, Tidy(q, b),
         NEW c \in D \ {0}, NEW r \in Requests, r.id # "channel.close-ok",
         r.id = "channel.open" => b.state[c] # "open", r.id = "basic.consume" => r.tag \in Tags,
         NEW b2 \in Serve(b, c, r)
  PROVE  Served(b, b2, c, r) /\ b2 \in Brokers /\ Tidy(q, b2)
<1>1. Served(b, b2, c, r)
  BY ServeEffect
<1>2. Tidy(q, b2)
  BY <1>1, ServeKeeps
<1> QED BY <1>1, <1>2 DEF Served

\* No call, and what stays of a call that sends its first request.
LEMMA CallTypes ==
  /\ NoCall \in CallRecords /\ NoFrame \in Wire /\ 0 \in Ids
  /\ NoCall.op = "none" /\ NoCall.stage = "idle" /\ NoCall.tag = NoTag /\ NoCall.pub = 0
<1>1. NoFrame \in Wire
  BY FrameTypes DEF NoFrame, MethodIds
<1>2. 0 \in Ids
  BY IdSpaceAssumption DEF Ids
<1> QED BY <1>1, <1>2 DEF NoCall, CallRecords

\* Call k has sent its first request; q are the frame queues (Enter).
Entered(b, k, q) ==
    /\ call' \in CallRecords /\ call'.op = k.op /\ call'.tag = k.tag /\ call'.ch = k.ch
    /\ call'.held = k.held /\ call'.header = k.header /\ call'.body = k.body
    /\ call'.stage = IF k.op = "BasicConsume" THEN "qos" ELSE "reply"
    /\ call'.pub = IF k.op = "BasicPublish" THEN b.sent + 1 ELSE 0
    /\ Served(b, broker', k.ch, FirstRequest(k.op, k.tag)) /\ broker' \in Brokers /\ Tidy(q, broker')

\* A call with its channel sends its first request (Enter).
LEMMA EnterCall ==
  ASSUME NEW D \in SUBSET Ids, NEW q \in [D -> Seq(Wire)], NEW b \in Brokers, Tidy(q, b),
         NEW k \in CallRecords, k.op \in Ops \ {"BasicConsumeMessage"}, k.ch \in D \ {0}, Enter(b, k)
  PROVE  Entered(b, k, q)
<1> DEFINE r == FirstRequest(k.op, k.tag)
           st == IF k.op = "BasicConsume" THEN "qos" ELSE "reply"
           pu == IF k.op = "BasicPublish" THEN b.sent + 1 ELSE 0
<1>1. broker' \in Serve(b, k.ch, r) /\ call' = [k EXCEPT !.stage = st, !.pub = pu]
  BY DEF Enter, Send
<1>2. k.tag \in Tags \cup {NoTag} /\ b.sent \in Nat
  BY DEF CallRecords, Brokers
<1>3. r \in Requests /\ r.id \notin {"channel.open", "channel.close-ok", "basic.consume"}
  BY <1>2, FirstRequests
<1> HIDE DEF r
<1>4. Served(b, broker', k.ch, r) /\ broker' \in Brokers /\ Tidy(q, broker')
  BY <1>1, <1>3, Sent
<1>5. st \in {"qos", "reply"} /\ pu \in Nat
  BY <1>2
<1> HIDE DEF st, pu
<1>6. /\ call' \in CallRecords /\ call'.op = k.op /\ call'.tag = k.tag /\ call'.ch = k.ch
      /\ call'.held = k.held /\ call'.header = k.header /\ call'.body = k.body
      /\ call'.stage = st /\ call'.pub = pu
  BY <1>1, <1>5 DEF CallRecords
<1> QED BY <1>4, <1>6 DEF Entered, r, st, pu

\* The call goes on: the channels stay whose they are.
LEMMA CallGoesOn ==
  ASSUME Base, DOMAIN m_open_channels' = DOMAIN m_open_channels, UNCHANGED <<impl, calls>>,
         call'.op = call.op, call'.tag = call.tag, call'.ch = call.ch
  PROVE  ChannelInv'
BY DEF Base, ChannelInv, Busy, impl

\* The call ends, and keeps its channel, or has lost it.
LEMMA CallEnds ==
  ASSUME Base, call' = NoCall, UNCHANGED <<m_free_channels, m_consumer_channel_map, m_next_channel_id, calls>>,
         DOMAIN m_open_channels' = DOMAIN m_open_channels
           \/ (Busy /\ DOMAIN m_open_channels' = DOMAIN m_open_channels \ {call.ch})
  PROVE  ChannelInv' /\ StageInv'
<1>1. ~Busy'
  BY CallTypes DEF Busy
<1>2. ChannelInv'
  BY <1>1 DEF Base, ChannelInv, Busy
<1>3. StageInv'
  BY <1>1, CallTypes DEF StageInv, Busy, MethodStages, ContentStages
<1> QED BY <1>2, <1>3

\* The call ends and hands its channel back, which is no consumer's.
LEMMA CallReturns ==
  ASSUME Base, Busy, call' = NoCall, UNCHANGED <<m_next_channel_id, calls>>,
         m_free_channels' = Append(m_free_channels, call.ch),
         DOMAIN m_open_channels' = DOMAIN m_open_channels,
         DOMAIN m_consumer_channel_map' \subseteq DOMAIN m_consumer_channel_map,
         \A tag \in DOMAIN m_consumer_channel_map' :
            m_consumer_channel_map'[tag] = m_consumer_channel_map[tag]
              /\ m_consumer_channel_map[tag] # call.ch
  PROVE  ChannelInv' /\ StageInv' /\ m_free_channels' \in Seq(Ids)
<1>1. ~Busy'
  BY CallTypes DEF Busy
<1>2. m_free_channels \in Seq(Ids) /\ call.ch \in Ids
  BY DEF Base, TypeInv, CallRecords
<1> DEFINE n == Len(m_free_channels)
<1>3. /\ m_free_channels' \in Seq(Ids) /\ DOMAIN m_free_channels = 1 .. n /\ n \in Nat
      /\ DOMAIN m_free_channels' = 1 .. n + 1
      /\ \A i \in 1 .. n : m_free_channels'[i] = m_free_channels[i]
      /\ m_free_channels'[n + 1] = call.ch
  <2>1. /\ m_free_channels' \in Seq(Ids) /\ Len(m_free_channels') = n + 1
        /\ \A i \in 1 .. n : m_free_channels'[i] = m_free_channels[i]
        /\ m_free_channels'[n + 1] = call.ch
    BY <1>2, AppendProperties
  <2>2. n \in Nat /\ DOMAIN m_free_channels = 1 .. n
    BY <1>2, LenProperties
  <2>3. DOMAIN m_free_channels' = 1 .. n + 1
    BY <2>1, LenProperties
  <2> QED BY <2>1, <2>2, <2>3
<1> HIDE DEF n
<1>4. \A i \in 1 .. n : m_free_channels[i] # call.ch
  BY <1>3 DEF Base, ChannelInv
<1>5. \A i, j \in DOMAIN m_free_channels' : m_free_channels'[i] = m_free_channels'[j] => i = j
  <2> SUFFICES ASSUME NEW i \in 1 .. n + 1, NEW j \in 1 .. n + 1, m_free_channels'[i] = m_free_channels'[j]
               PROVE  i = j
    BY <1>3
  <2>1. CASE i \in 1 .. n /\ j \in 1 .. n
    BY <1>3, <2>1 DEF Base, ChannelInv
  <2>2. CASE i = n + 1 \/ j = n + 1
    <3>1. i = n + 1 \/ i \in 1 .. n
      BY <1>3
    <3>2. j = n + 1 \/ j \in 1 .. n
      BY <1>3
    <3> QED BY <1>3, <1>4, <2>2, <3>1, <3>2
  <2> QED BY <1>3, <2>1, <2>2
<1>6. \A i \in DOMAIN m_free_channels' :
         /\ m_free_channels'[i] \in DOMAIN m_open_channels' \ {0}
         /\ \A tag \in DOMAIN m_consumer_channel_map' : m_free_channels'[i] # m_consumer_channel_map'[tag]
  <2> SUFFICES ASSUME NEW i \in 1 .. n + 1
               PROVE  /\ m_free_channels'[i] \in DOMAIN m_open_channels' \ {0}
                      /\ \A tag \in DOMAIN m_consumer_channel_map' : m_free_channels'[i] # m_consumer_channel_map'[tag]
    BY <1>3
  <2>1. CASE i \in 1 .. n
    BY <1>3, <2>1 DEF Base, ChannelInv
  <2>2. CASE i = n + 1
    BY <1>3, <2>2 DEF Base, ChannelInv
  <2> QED BY <1>3, <2>1, <2>2
<1>7. /\ m_next_channel_id' \in 1 .. calls' + 1
      /\ DOMAIN m_open_channels' \subseteq {0} \cup 2 .. m_next_channel_id'
      /\ \A tag \in DOMAIN m_consumer_channel_map' : m_consumer_channel_map'[tag] \in 2 .. m_next_channel_id'
      /\ \A s, t \in DOMAIN m_consumer_channel_map' :
            m_consumer_channel_map'[s] = m_consumer_channel_map'[t] => s = t
  BY DEF Base, ChannelInv
<1>8. ChannelInv'
  BY <1>1, <1>5, <1>6, <1>7 DEF ChannelInv
<1>9. StageInv'
  BY <1>1, CallTypes DEF StageInv, Busy, MethodStages, ContentStages
<1> QED BY <1>3, <1>8, <1>9

-----------------------------------------------------------------------------
(* Every step keeps Base.                                                   *)

\* The next id has not been used yet, as long as the ids do not start again
\* (GetNextChannelId).
LEMMA NextId ==
  ASSUME FewCalls, Base, calls < MaxCalls
  PROVE  /\ GetNextChannelId = m_next_channel_id + 1
         /\ m_next_channel_id + 1 \in Ids \ (DOMAIN m_open_channels \cup {0})
         /\ m_next_channel_id \in Nat /\ calls \in Nat
<1>1. /\ m_next_channel_id \in 1 .. calls + 1 /\ calls \in 0 .. MaxCalls /\ MaxCalls \in Nat /\ IdSpace \in Nat
      /\ DOMAIN m_open_channels \subseteq {0} \cup 2 .. m_next_channel_id
  BY IdSpaceAssumption, BoundsAssumption DEF Base, TypeInv, ChannelInv
<1>2. m_next_channel_id + 1 < IdSpace /\ m_next_channel_id \in Nat /\ calls \in Nat
  BY <1>1 DEF FewCalls
<1>3. m_next_channel_id + 1 \in Ids \ (DOMAIN m_open_channels \cup {0})
  BY <1>1, <1>2 DEF Ids
<1> DEFINE id(k) == (m_next_channel_id + k) % IdSpace
           P(k) == /\ id(k) \notin DOMAIN m_open_channels
                   /\ \A j \in 1 .. k - 1 : id(j) \in DOMAIN m_open_channels
<1>4. id(1) = m_next_channel_id + 1
  BY <1>1, <1>2
<1>5. 1 \in 1 .. IdSpace /\ P(1)
  BY <1>1, <1>2, <1>3, <1>4
<1>6. \A k \in 1 .. IdSpace : P(k) => k = 1
  <2> SUFFICES ASSUME NEW k \in 1 .. IdSpace, P(k), k # 1 PROVE FALSE
    OBVIOUS
  <2>1. 1 \in 1 .. k - 1
    BY <1>1
  <2> QED BY <1>5, <2>1
<1> HIDE DEF P
<1>7. (CHOOSE k \in 1 .. IdSpace : P(k)) = 1
  BY <1>5, <1>6
<1>8. GetNextChannelId = id(CHOOSE k \in 1 .. IdSpace : P(k))
  BY DEF GetNextChannelId, P
<1> QED BY <1>2, <1>3, <1>4, <1>7, <1>8

\* The call k takes the first free channel (GetChannel).
LEMMA FreeChannelTaken ==
  ASSUME Base, Idle, Called, NEW op \in Pooled, NEW tag \in Tags \cup {NoTag}, op = "BasicConsume" => tag \in Tags,
         m_free_channels # <<>>, m_free_channels' = Tail(m_free_channels),
         Enter(broker, [NoCall EXCEPT !.op = op, !.tag = tag, !.ch = Head(m_free_channels)]),
         UNCHANGED <<m_open_channels, m_next_channel_id, m_consumer_channel_map, m_is_connected, envelopes>>
  PROVE  Base' /\ Entered(broker, [NoCall EXCEPT !.op = op, !.tag = tag, !.ch = Head(m_free_channels)], m_open_channels)
<1> DEFINE c == Head(m_free_channels)
           n == Len(m_free_channels)
           k == [NoCall EXCEPT !.op = op, !.tag = tag, !.ch = c]
<1>1. m_free_channels \in Seq(Ids) /\ call = NoCall /\ ~Busy /\ m_is_connected
  BY DEF Base, TypeInv, StageInv, Idle, Busy
<1>2. /\ n \in Nat /\ n >= 1 /\ DOMAIN m_free_channels = 1 .. n /\ c = m_free_channels[1] /\ 1 \in 1 .. n
      /\ m_free_channels' \in Seq(Ids) /\ DOMAIN m_free_channels' = 1 .. n - 1
      /\ \A i \in 1 .. n - 1 : m_free_channels'[i] = m_free_channels[i + 1] /\ i + 1 \in 1 .. n
  <2>1. /\ c = m_free_channels[1] /\ m_free_channels' \in Seq(Ids) /\ Len(m_free_channels') = n - 1
        /\ \A i \in 1 .. n - 1 : m_free_channels'[i] = m_free_channels[i + 1]
    BY <1>1, HeadTailProperties
  <2>2. n \in Nat /\ DOMAIN m_free_channels = 1 .. n /\ n # 0
    BY <1>1, LenProperties, EmptySeq
  <2>3. DOMAIN m_free_channels' = 1 .. n - 1
    BY <2>1, LenProperties
  <2> QED BY <2>1, <2>2, <2>3
<1> HIDE DEF n
<1>3. /\ c \in DOMAIN m_open_channels \ {0} /\ c \in Ids
      /\ \A t \in DOMAIN m_consumer_channel_map : c # m_consumer_channel_map[t]
  BY <1>2 DEF Base, ChannelInv, TypeInv
<1> HIDE DEF c
<1>4. k \in CallRecords /\ k.op = op /\ k.tag = tag /\ k.ch = c /\ op \in Ops \ {"BasicConsumeMessage"} /\ op # "none"
  BY <1>3, CallTypes DEF CallRecords, Pooled, Ops, Responses
<1>5. Entered(broker, k, m_open_channels)
  <2> HIDE DEF k
  <2>0. Enter(broker, k)
    BY DEF k, c
  <2>1. /\ DOMAIN m_open_channels \in SUBSET Ids /\ m_open_channels \in [DOMAIN m_open_channels -> Seq(Wire)]
        /\ broker \in Brokers /\ Tidy(m_open_channels, broker)
    BY DEF Base, TypeInv, CloseInv
  <2> QED BY <1>3, <1>4, <2>0, <2>1, EnterCall
<1>6. /\ call' \in CallRecords /\ call'.op = op /\ call'.tag = tag /\ call'.ch = c
      /\ call'.stage = IF op = "BasicConsume" THEN "qos" ELSE "reply"
      /\ broker' \in Brokers /\ Tidy(m_open_channels, broker')
  BY <1>4, <1>5 DEF Entered
<1> HIDE DEF k
<1>7. Busy' /\ calls' = calls + 1 /\ calls' \in 0 .. MaxCalls
  BY <1>4, <1>6, BoundsAssumption DEF Busy, Base, TypeInv, Called, Idle
<1>8. TypeInv'
  BY <1>2, <1>6, <1>7 DEF Base, TypeInv
<1>9. StageInv'
  BY <1>1, <1>6, <1>7 DEF StageInv, MethodStages, ContentStages, Pooled
<1>10. ChannelInv'
  <2>1. /\ m_next_channel_id' \in 1 .. calls' + 1
        /\ DOMAIN m_open_channels' \subseteq {0} \cup 2 .. m_next_channel_id'
        /\ \A t \in DOMAIN m_consumer_channel_map' : m_consumer_channel_map'[t] \in 2 .. m_next_channel_id'
        /\ \A s, t \in DOMAIN m_consumer_channel_map' :
              m_consumer_channel_map'[s] = m_consumer_channel_map'[t] => s = t
    BY <1>7 DEF Base, ChannelInv, TypeInv
  <2>2. \A i, j \in DOMAIN m_free_channels' : m_free_channels'[i] = m_free_channels'[j] => i = j
    <3> SUFFICES ASSUME NEW i \in 1 .. n - 1, NEW j \in 1 .. n - 1, m_free_channels'[i] = m_free_channels'[j]
                 PROVE  i = j
      BY <1>2
    <3>1. i + 1 = j + 1
      BY <1>2 DEF Base, ChannelInv
    <3> QED BY <1>2, <3>1
  <2>3. \A i \in DOMAIN m_free_channels' :
           /\ m_free_channels'[i] \in DOMAIN m_open_channels' \ {0}
           /\ \A t \in DOMAIN m_consumer_channel_map' : m_free_channels'[i] # m_consumer_channel_map'[t]
           /\ m_free_channels'[i] # c
    <3> SUFFICES ASSUME NEW i \in 1 .. n - 1
                 PROVE  /\ m_free_channels'[i] \in DOMAIN m_open_channels' \ {0}
                        /\ \A t \in DOMAIN m_consumer_channel_map' : m_free_channels'[i] # m_consumer_channel_map'[t]
                        /\ m_free_channels'[i] # c
      BY <1>2
    <3>1. m_free_channels'[i] = m_free_channels[i + 1] /\ i + 1 \in 1 .. n /\ i + 1 # 1
      BY <1>2
    <3>2. m_free_channels[i + 1] # m_free_channels[1]
      BY <1>2, <3>1 DEF Base, ChannelInv
    <3> QED BY <1>2, <3>1, <3>2 DEF Base, ChannelInv
  <2>4. op \in Pooled
    OBVIOUS
  <2> QED BY <1>3, <1>6, <2>1, <2>2, <2>3, <2>4 DEF ChannelInv
<1>11. CloseInv'
  BY <1>6 DEF CloseInv
<1> QED BY <1>5, <1>8, <1>9, <1>10, <1>11 DEF Base, k, c

\* The call opens a new channel (GetChannel, CreateNewChannel).
LEMMA ChannelCreated ==
  ASSUME FewCalls, Base, Idle, Called, NEW op \in Pooled, NEW tag \in Tags \cup {NoTag},
         op = "BasicConsume" => tag \in Tags, m_free_channels = <<>>,
         m_next_channel_id' = GetNextChannelId,
         m_open_channels' = Insert(m_open_channels, GetNextChannelId, <<>>),
         Send(broker, Request("channel.open", NoTag),
              [NoCall EXCEPT !.op = op, !.tag = tag, !.ch = GetNextChannelId, !.stage = "open"]),
         UNCHANGED <<m_free_channels, m_consumer_channel_map, m_is_connected, envelopes>>
  PROVE  /\ Base'
         /\ call' = [NoCall EXCEPT !.op = op, !.tag = tag, !.ch = m_next_channel_id + 1, !.stage = "open"]
         /\ m_open_channels' \in [DOMAIN m_open_channels \cup {m_next_channel_id + 1} -> Seq(Wire)]
         /\ m_open_channels'[m_next_channel_id + 1] = <<>>
         /\ \A d \in DOMAIN m_open_channels : m_open_channels'[d] = m_open_channels[d]
         /\ Served(broker, broker', m_next_channel_id + 1, Request("channel.open", NoTag))
<1> DEFINE c == m_next_channel_id + 1
           D == DOMAIN m_open_channels
           r == Request("channel.open", NoTag)
<1>1. /\ GetNextChannelId = c /\ c \in Ids \ (D \cup {0}) /\ m_next_channel_id \in Nat /\ calls \in Nat
      /\ calls < MaxCalls
  BY NextId DEF Idle
<1>2. /\ D \in SUBSET Ids /\ m_open_channels \in [D -> Seq(Wire)] /\ broker \in Brokers
      /\ Tidy(m_open_channels, broker) /\ 0 \in D /\ m_open_channels[0] = <<>>
  BY DEF Base, TypeInv, CloseInv
<1>3. call = NoCall /\ ~Busy /\ m_is_connected /\ calls' = calls + 1 /\ calls' \in 0 .. MaxCalls
  BY <1>1, BoundsAssumption DEF Base, TypeInv, StageInv, Idle, Busy, Called
<1>4. /\ broker' \in Serve(broker, c, r)
      /\ call' = [NoCall EXCEPT !.op = op, !.tag = tag, !.ch = c, !.stage = "open"]
  <2> DEFINE k == [NoCall EXCEPT !.op = op, !.tag = tag, !.ch = c, !.stage = "open"]
  <2>1. k.ch = c
    BY CallTypes DEF NoCall
  <2>2. Send(broker, r, k)
    BY <1>1
  <2> HIDE DEF k
  <2>3. broker' \in Serve(broker, k.ch, r) /\ call' = k
    BY <2>2 DEF Send
  <2> QED BY <2>1, <2>3 DEF k
<1> HIDE DEF c
<1>5. /\ call' \in CallRecords /\ call'.op = op /\ call'.tag = tag /\ call'.ch = c /\ call'.stage = "open"
      /\ op \in Ops /\ op # "none"
  BY <1>1, <1>4, CallTypes DEF CallRecords, Pooled, Ops, Responses
<1>6. /\ m_open_channels' \in [D \cup {c} -> Seq(Wire)] /\ DOMAIN m_open_channels' = D \cup {c}
      /\ m_open_channels'[c] = <<>> /\ \A d \in D : m_open_channels'[d] = m_open_channels[d]
  <2>1. m_open_channels' = Insert(m_open_channels, c, <<>>) /\ <<>> \in Seq(Wire)
    BY <1>1, EmptySeq
  <2>2. m_open_channels' = [d \in D \cup {c} |-> IF d \in D THEN m_open_channels[d] ELSE <<>>]
    BY <2>1 DEF Insert
  <2> QED BY <1>1, <1>2, <2>1, <2>2
<1> DEFINE q == m_open_channels'
<1>7. broker.out[c] = <<>> /\ broker.state[c] # "open"
  BY <1>1, <1>2 DEF Tidy
<1>8. Tidy(q, broker)
  <2>1. \A d \in Ids \ (DOMAIN q \cup {0}) : broker.out[d] = <<>> /\ broker.state[d] # "open"
    BY <1>2, <1>6 DEF Tidy
  <2>2. \A d \in D \ {0} : Flow(q, broker, d) = Flow(m_open_channels, broker, d)
    BY <1>6 DEF Flow
  <2>3. Flow(q, broker, c) = <<>>
    BY <1>6, <1>7 DEF Flow
  <2>4. \A d \in DOMAIN q \ {0} : \A i \in 1 .. Len(Flow(q, broker, d)) :
           IsClose(Flow(q, broker, d)[i]) => i = Len(Flow(q, broker, d)) /\ broker.state[d] = "closing"
    <3> SUFFICES ASSUME NEW d \in DOMAIN q \ {0}
                 PROVE  \A i \in 1 .. Len(Flow(q, broker, d)) :
                          IsClose(Flow(q, broker, d)[i]) => i = Len(Flow(q, broker, d)) /\ broker.state[d] = "closing"
      OBVIOUS
    <3>1. CASE d \in D
      BY <1>2, <2>2, <3>1 DEF Tidy
    <3>2. CASE d = c
      BY <2>3, <3>2
    <3> QED BY <1>6, <3>1, <3>2
  <2> QED BY <1>2, <2>1, <2>4 DEF Tidy
<1>9. r \in Requests /\ r.id = "channel.open"
  BY DEF Request, Requests
<1>10. Served(broker, broker', c, r) /\ broker' \in Brokers /\ Tidy(q, broker')
  <2>1. D \cup {c} \in SUBSET Ids /\ c \in (D \cup {c}) \ {0}
    BY <1>1, <1>2
  <2> HIDE DEF r, q, D
  <2>2. q \in [D \cup {c} -> Seq(Wire)]
    BY <1>6 DEF q
  <2> QED BY <1>2, <1>4, <1>7, <1>8, <1>9, <2>1, <2>2, Sent
<1> HIDE DEF r
<1>11. TypeInv'
  <2>1. /\ DOMAIN q \subseteq Ids /\ q \in [DOMAIN q -> Seq(Wire)] /\ 0 \in DOMAIN q /\ q[0] = <<>>
    BY <1>1, <1>2, <1>6
  <2>2. m_next_channel_id' \in Ids
    BY <1>1
  <2> QED BY <1>3, <1>5, <1>10, <2>1, <2>2 DEF Base, TypeInv
<1>12. Busy'
  BY <1>5 DEF Busy
<1>13. StageInv'
  BY <1>3, <1>5, <1>12 DEF StageInv, ContentStages
<1>14. ChannelInv'
  <2>1. m_next_channel_id' = m_next_channel_id + 1 /\ c = m_next_channel_id + 1
    BY <1>1 DEF c
  <2>2. /\ m_next_channel_id \in 1 .. calls + 1 /\ D \subseteq {0} \cup 2 .. m_next_channel_id
        /\ \A t \in DOMAIN m_consumer_channel_map : m_consumer_channel_map[t] \in 2 .. m_next_channel_id
    BY DEF Base, ChannelInv
  <2>3. m_next_channel_id' \in 1 .. calls' + 1
    BY <1>1, <1>3, <2>1, <2>2
  <2>4. DOMAIN m_open_channels' \subseteq {0} \cup 2 .. m_next_channel_id'
    BY <1>1, <1>6, <2>1, <2>2
  <2>5. \A t \in DOMAIN m_consumer_channel_map :
          m_consumer_channel_map[t] \in 2 .. m_next_channel_id' /\ m_consumer_channel_map[t] # c
    BY <1>1, <2>1, <2>2
  <2>6. DOMAIN m_free_channels' = {}
    OBVIOUS
  <2>7. call'.ch \in DOMAIN m_open_channels' \ {0} /\ call'.op \in Pooled
    BY <1>1, <1>5, <1>6
  <2> QED BY <1>5, <2>3, <2>4, <2>5, <2>6, <2>7 DEF Base, ChannelInv
<1>15. CloseInv'
  BY <1>10 DEF CloseInv
<1> QED BY <1>4, <1>6, <1>10, <1>11, <1>13, <1>14, <1>15 DEF Base, c, r

ConsumersChannel(tag) == m_consumer_channel_map[tag]

\* The call works on the channel of a consumer, or finds it closed (ConsumerCall).
LEMMA ConsumerCallBase ==
  ASSUME Base, NEW op \in {"BasicRecover", "BasicQos", "BasicCancel"}, NEW tag \in Tags, ConsumerCall(op, tag)
  PROVE  /\ Base' /\ UNCHANGED <<m_open_channels, impl, envelopes, outcomes>>
         /\ calls' = calls + 1 /\ ~Busy
         /\ tag \in DOMAIN m_consumer_channel_map /\ ConsumersChannel(tag) \in Ids \ {0}
         /\ \/ /\ ConsumersChannel(tag) \in DOMAIN m_open_channels
               /\ Entered(broker, [NoCall EXCEPT !.op = op, !.tag = tag, !.ch = ConsumersChannel(tag)], m_open_channels)
            \/ /\ ConsumersChannel(tag) \notin DOMAIN m_open_channels /\ call' = call
               /\ Served(broker, broker', ConsumersChannel(tag), FirstRequest(op, tag))
<1> DEFINE c == m_consumer_channel_map[tag]
           k == [NoCall EXCEPT !.op = op, !.tag = tag, !.ch = c]
<1>1. call = NoCall /\ ~Busy /\ m_is_connected /\ UNCHANGED <<m_open_channels, impl, envelopes, outcomes>>
      /\ tag \in DOMAIN m_consumer_channel_map
  BY DEF Base, StageInv, ConsumerCall, Idle, Busy
<1>2. calls' = calls + 1 /\ calls' \in 0 .. MaxCalls /\ calls \in Nat
  BY BoundsAssumption DEF Base, TypeInv, ConsumerCall, Idle, Called
<1>3. c \in 2 .. m_next_channel_id /\ c \in Ids /\ c # 0
  BY <1>1 DEF Base, TypeInv, ChannelInv
<1>4. /\ DOMAIN m_open_channels \in SUBSET Ids /\ m_open_channels \in [DOMAIN m_open_channels -> Seq(Wire)]
      /\ broker \in Brokers /\ Tidy(m_open_channels, broker)
  BY DEF Base, TypeInv, CloseInv
<1>5. /\ k \in CallRecords /\ k.op = op /\ k.tag = tag /\ k.ch = c
      /\ op \in Ops \ {"BasicConsumeMessage"} /\ op # "none" /\ op \notin Pooled
  BY <1>3, CallTypes DEF CallRecords, Pooled, Ops, Responses
<1>6. \/ c \in DOMAIN m_open_channels /\ Enter(broker, k)
      \/ c \notin DOMAIN m_open_channels /\ broker' \in Serve(broker, c, FirstRequest(op, tag)) /\ call' = call
  <2>1. IF k.ch \in DOMAIN m_open_channels
           THEN Enter(broker, k)
           ELSE broker' \in Serve(broker, k.ch, FirstRequest(op, tag)) /\ call' = call
    BY DEF ConsumerCall
  <2> HIDE DEF k, c
  <2> QED BY <1>5, <2>1
<1> HIDE DEF c
<1>7. ASSUME broker' \in Brokers, call' \in CallRecords
      PROVE  TypeInv'
  BY <1>1, <1>2, <1>7 DEF Base, TypeInv, impl
<1>8. CASE c \in DOMAIN m_open_channels /\ Enter(broker, k)
  <2> HIDE DEF k
  <2>1. Entered(broker, k, m_open_channels)
    BY <1>3, <1>4, <1>5, <1>8, EnterCall
  <2>2. /\ call' \in CallRecords /\ call'.op = op /\ call'.tag = tag /\ call'.ch = c /\ call'.stage = "reply"
        /\ broker' \in Brokers /\ Tidy(m_open_channels, broker')
    BY <1>5, <2>1 DEF Entered
  <2>3. Busy'
    BY <1>5, <2>2 DEF Busy
  <2>4. StageInv'
    BY <1>1, <1>5, <2>2, <2>3 DEF StageInv, ContentStages, impl
  <2>5. ChannelInv'
    <3>1. /\ m_next_channel_id' \in 1 .. calls' + 1
          /\ DOMAIN m_open_channels' \subseteq {0} \cup 2 .. m_next_channel_id'
      BY <1>1, <1>2 DEF Base, ChannelInv, impl
    <3>2. \A i \in DOMAIN m_free_channels : m_free_channels[i] # c
      BY <1>1 DEF Base, ChannelInv, c
    <3>3. c = m_consumer_channel_map[tag]
      BY DEF c
    <3> QED BY <1>1, <1>3, <1>5, <1>8, <2>2, <2>3, <3>1, <3>2, <3>3 DEF Base, ChannelInv, impl
  <2>6. CloseInv'
    BY <1>1, <2>2 DEF CloseInv
  <2> QED BY <1>1, <1>2, <1>3, <1>7, <1>8, <2>1, <2>2, <2>4, <2>5, <2>6 DEF Base, ConsumersChannel, c, k
<1>9. CASE c \notin DOMAIN m_open_channels /\ broker' \in Serve(broker, c, FirstRequest(op, tag)) /\ call' = call
  <2> DEFINE r == FirstRequest(op, tag)
  <2>1. r \in Requests /\ r.id \notin {"channel.open", "channel.close-ok", "basic.consume"}
    BY <1>5, FirstRequests
  <2> HIDE DEF r
  <2>2. broker.state[c] # "open"
    BY <1>3, <1>4, <1>9 DEF Tidy
  <2>3. broker' \in Serve(broker, c, r)
    BY <1>9 DEF r
  <2>4. Served(broker, broker', c, r)
    BY <1>3, <1>4, <2>1, <2>3, ServeEffect
  <2>5. Tidy(m_open_channels, broker')
    BY <1>3, <1>4, <2>1, <2>2, <2>4, ServeKeeps
  <2>6. broker' \in Brokers /\ call' \in CallRecords
    BY <1>9, <2>4 DEF Served, Base, TypeInv
  <2>7. StageInv'
    BY <1>1, <1>9 DEF Base, StageInv, Busy, impl
  <2>8. ChannelInv'
    BY <1>1, <1>2, <1>9 DEF Base, ChannelInv, Busy, impl
  <2>9. CloseInv'
    BY <1>1, <2>5 DEF CloseInv
  <2> QED BY <1>1, <1>2, <1>3, <1>7, <1>9, <2>4, <2>6, <2>7, <2>8, <2>9 DEF Base, r, ConsumersChannel, c
<1> QED BY <1>6, <1>8, <1>9

\* BasicConsumeMessage starts to listen.
LEMMA ConsumeMessageBase ==
  ASSUME Base, NEW tag \in Tags, BasicConsumeMessage(tag)
  PROVE  Base'
<1> DEFINE c == m_consumer_channel_map[tag]
<1>1. /\ call = NoCall /\ ~Busy /\ m_is_connected /\ tag \in DOMAIN m_consumer_channel_map
      /\ UNCHANGED <<m_open_channels, impl, broker, envelopes, outcomes>>
      /\ c \in DOMAIN m_open_channels
  BY DEF Base, StageInv, BasicConsumeMessage, Idle, Busy
<1>2. calls' = calls + 1 /\ calls' \in 0 .. MaxCalls /\ calls \in Nat
  BY BoundsAssumption DEF Base, TypeInv, BasicConsumeMessage, Idle, Called
<1>3. c \in 2 .. m_next_channel_id /\ c \in Ids /\ c # 0
  BY <1>1 DEF Base, TypeInv, ChannelInv
<1>4. /\ call' \in CallRecords /\ call'.op = "BasicConsumeMessage" /\ call'.tag = tag /\ call'.ch = c
      /\ call'.stage = "reply"
  BY <1>3, CallTypes DEF CallRecords, BasicConsumeMessage, Ops, Responses
<1> HIDE DEF c
<1>5. Busy' /\ "BasicConsumeMessage" \notin Pooled
  BY <1>4 DEF Busy, Pooled
<1>6. TypeInv'
  BY <1>1, <1>2, <1>4 DEF Base, TypeInv, impl
<1>7. StageInv'
  BY <1>1, <1>4, <1>5 DEF StageInv, ContentStages, impl
<1>8. ChannelInv'
  <2>1. /\ m_next_channel_id' \in 1 .. calls' + 1
        /\ DOMAIN m_open_channels' \subseteq {0} \cup 2 .. m_next_channel_id'
    BY <1>1, <1>2 DEF Base, ChannelInv, impl
  <2>2. \A i \in DOMAIN m_free_channels : m_free_channels[i] # c
    BY <1>1 DEF Base, ChannelInv, c
  <2>3. c = m_consumer_channel_map[tag]
    BY DEF c
  <2> QED BY <1>1, <1>3, <1>4, <1>5, <2>1, <2>2, <2>3 DEF Base, ChannelInv, impl
<1>9. CloseInv'
  BY <1>1 DEF Base, CloseInv
<1> QED BY <1>6, <1>7, <1>8, <1>9 DEF Base

\* An id for n calls is one for more calls.
LEMMA MoreCalls ==
  ASSUME NEW n \in Nat, NEW l \in Nat, n <= l, NEW m \in 1 .. n + 1
  PROVE  m \in 1 .. l + 1
OBVIOUS

\* Nothing but the broker and the count of calls changes (BasicAck, the steps of the
\* broker itself).
LEMMA BrokerAlone ==
  ASSUME Base, UNCHANGED <<m_open_channels, impl, call, envelopes>>, broker' \in Brokers,
         Tidy(m_open_channels, broker'), calls' \in {calls, calls + 1} \cap 0 .. MaxCalls
  PROVE  Base'
<1>1. calls \in Nat /\ calls' \in Nat /\ calls <= calls'
  BY BoundsAssumption DEF Base, TypeInv
<1>2. TypeInv'
  BY DEF Base, TypeInv, impl
<1>3. StageInv'
  BY DEF Base, StageInv, Busy, impl
<1>4. m_next_channel_id' \in 1 .. calls' + 1
  <2>1. m_next_channel_id' = m_next_channel_id BY DEF impl
  <2>2. m_next_channel_id \in 1 .. calls + 1 BY DEF Base, ChannelInv
  <2> QED BY <1>1, <2>1, <2>2, MoreCalls, Zenon
<1>5. ChannelInv'
  <2>1. /\ m_open_channels' = m_open_channels /\ m_free_channels' = m_free_channels
        /\ m_consumer_channel_map' = m_consumer_channel_map
        /\ m_next_channel_id' = m_next_channel_id /\ call' = call
    BY DEF impl
  <2>2. ChannelInv BY DEF Base
  <2> QED BY <1>4, <2>1, <2>2, ZenonT(30) DEF ChannelInv, Busy
<1>6. CloseInv'
  BY DEF CloseInv
<1> QED BY <1>2, <1>3, <1>5, <1>6 DEF Base

AckOf(e) == [id |-> "basic.ack", tag |-> NoTag, msg |-> e.msg]

\* A message is acknowledged (BasicAck).
LEMMA AckBase ==
  ASSUME Base, NEW e \in envelopes, BasicAck(e)
  PROVE  Base' /\ Served(broker, broker', e.ch, AckOf(e)) /\ e.ch \in DOMAIN m_open_channels \ {0}
<1> DEFINE r == AckOf(e)
<1>1. e.ch \in DOMAIN m_open_channels \ {0} /\ e.msg \in Nat
  BY DEF Base, TypeInv, Envelopes, BasicAck
<1>2. r \in Requests /\ r.id = "basic.ack" /\ broker' \in Serve(broker, e.ch, r)
  BY <1>1 DEF Requests, AckOf, BasicAck
<1> HIDE DEF r
<1>3. /\ DOMAIN m_open_channels \in SUBSET Ids /\ m_open_channels \in [DOMAIN m_open_channels -> Seq(Wire)]
      /\ broker \in Brokers /\ Tidy(m_open_channels, broker)
  BY DEF Base, TypeInv, CloseInv
<1>4. Served(broker, broker', e.ch, r) /\ broker' \in Brokers /\ Tidy(m_open_channels, broker')
  BY <1>1, <1>2, <1>3, Sent
<1>5. calls' \in {calls, calls + 1} \cap 0 .. MaxCalls
  BY BoundsAssumption DEF Base, TypeInv, BasicAck, Idle, Called
<1>6. UNCHANGED <<m_open_channels, impl, call, envelopes>>
  BY DEF BasicAck
<1>7. Base'
  BY <1>4, <1>5, <1>6, BrokerAlone
<1> QED BY <1>1, <1>4, <1>7 DEF r

DeliveryOf(c, tag, n) == Message(broker, c, "basic.deliver", tag, n, broker')

\* The broker delivers a message to a consumer (Deliver).
LEMMA DeliverBase ==
  ASSUME Base, NEW c \in Ids, NEW tag \in Tags, Deliver(c, tag)
  PROVE  /\ Base' /\ c \in DOMAIN m_open_channels \ {0} /\ tag \in broker.consumers[c]
         /\ \E n \in Nat : DeliveryOf(c, tag, n)
<1>1. PICK n \in BodyFrames : broker' = Delivered(broker, c, "basic.deliver", tag, n)
  BY DEF Deliver
<1>2. /\ m_open_channels \in [DOMAIN m_open_channels -> Seq(Wire)]
      /\ broker \in Brokers /\ Tidy(m_open_channels, broker)
  BY DEF Base, TypeInv, CloseInv
<1>3. tag \in broker.consumers[c]
  BY DEF Deliver
<1>4. c # 0 /\ broker.state[c] = "open" /\ c \in DOMAIN m_open_channels
  BY <1>2, <1>3 DEF Tidy
<1>5. n \in Nat
  BY BodyFramesAssumption
<1>6. Message(broker, c, "basic.deliver", tag, n, broker')
  BY <1>1, <1>2, <1>4, <1>5, MessageDelivered
<1> DEFINE m == broker.sent + 1
           u == <<Method("basic.deliver", tag, m)>> \o Content(m, n)
           v == u \o <<Method("basic.ack", NoTag, m)>>
<1>7. m \in Nat /\ "basic.deliver" \in MethodIds
  BY <1>2 DEF Brokers, MethodIds
<1>8. /\ u \in Seq(Wire) /\ Len(u) = n + 2 /\ u[1] = Method("basic.deliver", tag, m) /\ u[2] = Header(m, n)
      /\ \A k \in 1 .. n : u[k + 2] = Body(m, k)
  <2>1. Framed(u, v, "basic.deliver", tag, m, n)
    <3> HIDE DEF m
    <3> QED BY <1>5, <1>7, MessageParts
  <2> QED BY <2>1 DEF Framed
<1> HIDE DEF v
<1>9. \A i \in 1 .. Len(u) : ~IsClose(u[i])
  <2> HIDE DEF u, m
  <2> SUFFICES ASSUME NEW i \in 1 .. Len(u) PROVE ~IsClose(u[i])
    OBVIOUS
  <2>1. i = 1 \/ i = 2 \/ i - 2 \in 1 .. n
    BY <1>5, <1>8
  <2>2. CASE i = 1
    BY <1>8, <2>2, CloseFrames
  <2>3. CASE i = 2
    BY <1>8, <2>3, CloseFrames
  <2>4. CASE i - 2 \in 1 .. n
    <3>1. u[i] = Body(m, i - 2)
      <4>1. u[(i - 2) + 2] = Body(m, i - 2)
        BY <1>8, <2>4
      <4>2. (i - 2) + 2 = i
        BY <1>5, <1>8
      <4> QED BY <4>1, <4>2
    <3> QED BY <3>1, CloseFrames
  <2> QED BY <2>1, <2>2, <2>3, <2>4
<1>10. /\ broker' \in Brokers /\ broker'.out[c] = broker.out[c] \o u
       /\ \A d \in Ids \ {c} : broker'.out[d] = broker.out[d]
       /\ broker'.state = broker.state /\ broker'.consumers = broker.consumers
  BY <1>6 DEF Message
<1> HIDE DEF u, m
<1>11. Tidy(m_open_channels, broker')
  <2>1. \A d \in DOMAIN m_open_channels \ {0, c} : Flow(m_open_channels, broker', d) = Flow(m_open_channels, broker, d)
    BY <1>10 DEF Flow, Base, TypeInv
  <2>2. Flow(m_open_channels, broker', c) = Flow(m_open_channels, broker, c) \o u
        /\ Flow(m_open_channels, broker, c) \in Seq(Wire)
    <3>1. m_open_channels[c] \in Seq(Wire) /\ broker.out[c] \in Seq(Wire)
      BY <1>2, <1>4 DEF Brokers
    <3> DEFINE x == m_open_channels[c]
               y == broker.out[c]
    <3>2. Flow(m_open_channels, broker', c) = x \o (y \o u) /\ Flow(m_open_channels, broker, c) = x \o y
      BY <1>10 DEF Flow
    <3>3. x \in Seq(Wire) /\ y \in Seq(Wire)
      BY <3>1
    <3> HIDE DEF x, y
    <3>4. x \o y \in Seq(Wire) /\ (x \o y) \o u = x \o (y \o u)
      BY <1>8, <3>3, Associated, ConcatProperties
    <3> QED BY <3>2, <3>4
  <2>3. \A i \in 1 .. Len(Flow(m_open_channels, broker, c)) : ~IsClose(Flow(m_open_channels, broker, c)[i])
    BY <1>2, <1>4 DEF Tidy
  <2>4. \A i \in 1 .. Len(Flow(m_open_channels, broker', c)) : ~IsClose(Flow(m_open_channels, broker', c)[i])
    <3> DEFINE x == Flow(m_open_channels, broker, c)
    <3> HIDE DEF x
    <3>1. /\ x \in Seq(Wire) /\ Flow(m_open_channels, broker', c) = x \o u
          /\ \A i \in 1 .. Len(x) : ~IsClose(x[i])
      BY <2>2, <2>3 DEF x
    <3>2. /\ Len(x) \in Nat /\ Len(u) \in Nat /\ Len(x \o u) = Len(x) + Len(u)
          /\ \A i \in 1 .. Len(x) + Len(u) : (x \o u)[i] = IF i <= Len(x) THEN x[i] ELSE u[i - Len(x)]
      BY <1>8, <3>1, ConcatProperties, LenProperties
    <3> QED
      <4> SUFFICES ASSUME NEW i \in 1 .. Len(x) + Len(u) PROVE ~IsClose((x \o u)[i])
        BY <3>1, <3>2
      <4>1. CASE i <= Len(x)
        BY <3>1, <3>2, <4>1
      <4>2. CASE ~(i <= Len(x))
        <5>1. i - Len(x) \in 1 .. Len(u)
          BY <3>2, <4>2
        <5> QED BY <1>9, <3>2, <4>2, <5>1
      <4> QED BY <4>1, <4>2
  <2>5. \A d \in Ids \ (DOMAIN m_open_channels \cup {0}) : broker'.out[d] = <<>> /\ broker'.state[d] # "open"
    BY <1>2, <1>4, <1>10 DEF Tidy
  <2>6. \A d \in DOMAIN m_open_channels \ {0} : \A i \in 1 .. Len(Flow(m_open_channels, broker', d)) :
           IsClose(Flow(m_open_channels, broker', d)[i])
             => i = Len(Flow(m_open_channels, broker', d)) /\ broker'.state[d] = "closing"
    <3> SUFFICES ASSUME NEW d \in DOMAIN m_open_channels \ {0}
                 PROVE  \A i \in 1 .. Len(Flow(m_open_channels, broker', d)) :
                           IsClose(Flow(m_open_channels, broker', d)[i])
                             => i = Len(Flow(m_open_channels, broker', d)) /\ broker'.state[d] = "closing"
      OBVIOUS
    <3>1. CASE d = c
      BY <2>4, <3>1
    <3>2. CASE d # c
      BY <1>2, <1>10, <2>1, <3>2 DEF Tidy
    <3> QED BY <3>1, <3>2
  <2>7. broker'.consumers[0] = {} /\ \A d \in Ids \ {0} : broker'.consumers[d] # {} => broker'.state[d] = "open"
    BY <1>2, <1>10 DEF Tidy
  <2> QED BY <2>5, <2>6, <2>7 DEF Tidy
<1>12. UNCHANGED <<m_open_channels, impl, call, envelopes, calls>>
  BY DEF Deliver, history
<1>13. Base'
  BY <1>10, <1>11, <1>12, BrokerAlone DEF Base, TypeInv
<1> QED BY <1>3, <1>4, <1>5, <1>6, <1>13 DEF DeliveryOf

\* The broker closes the connection (ForceClose).
LEMMA ForceCloseBase ==
  ASSUME Base, ForceClose
  PROVE  /\ Base' /\ broker' = CloseConnection(broker)
         /\ \A c \in Ids \ {0}, r \in Requests : Silent(broker, broker', c, r) /\ OtherChannels(broker, broker', c)
<1>1. /\ DOMAIN m_open_channels \in SUBSET Ids /\ m_open_channels \in [DOMAIN m_open_channels -> Seq(Wire)]
      /\ broker \in Brokers /\ Tidy(m_open_channels, broker)
  BY DEF Base, TypeInv, CloseInv
<1>2. broker' = CloseConnection(broker)
  BY DEF ForceClose
<1>3. /\ broker' \in Brokers
      /\ \A c \in Ids \ {0} : OtherChannels(broker, broker', c)
      /\ \A c \in Ids \ {0}, r \in Requests : Silent(broker, broker', c, r)
  BY <1>1, <1>2, ConnectionClosed
<1> DEFINE r == Request("basic.recover", NoTag)
<1>4. r \in Requests /\ r.id = "basic.recover" /\ 1 \in Ids \ {0}
  BY IdSpaceAssumption DEF Request, Requests, Ids
<1> HIDE DEF r
<1>5. Served(broker, broker', 1, r)
  BY <1>3, <1>4 DEF Served
<1>6. 1 \notin DOMAIN m_open_channels => broker.state[1] # "open"
  BY <1>1, <1>4 DEF Tidy
<1>7. Tidy(m_open_channels, broker')
  BY <1>1, <1>4, <1>5, <1>6, ServeKeeps
<1>8. UNCHANGED <<m_open_channels, impl, call, envelopes, calls>>
  BY DEF ForceClose, history
<1>9. Base'
  BY <1>3, <1>7, <1>8, BrokerAlone DEF Base, TypeInv
<1> QED BY <1>2, <1>3, <1>9

\* The wait for a delivery is over (Timeout).
LEMMA TimeoutBase ==
  ASSUME Base, Timeout
  PROVE  Base' /\ Busy
<1>1. Busy /\ call' = NoCall /\ UNCHANGED <<m_open_channels, impl, broker, calls, envelopes>>
  BY DEF Busy, Timeout, EndCall, history
<1>2. ChannelInv' /\ StageInv'
  BY <1>1, CallEnds DEF impl
<1>3. TypeInv'
  BY <1>1, CallTypes DEF Base, TypeInv, impl
<1> QED BY <1>1, <1>2, <1>3 DEF Base, CloseInv

\* The call goes on.
LEMMA GoesOnBase ==
  ASSUME Base, Busy, call' \in CallRecords, call'.op = call.op, call'.tag = call.tag, call'.ch = call.ch,
         call'.stage # "idle", call'.stage \in {"open", "select"} => call.op \in Pooled,
         call'.stage = "qos" => call.op = "BasicConsume", call'.stage = "confirm" => call.op = "BasicPublish",
         call'.stage \in ContentStages => call.op \in {"BasicPublish", "BasicGet", "BasicConsumeMessage"},
         m_open_channels' \in [DOMAIN m_open_channels -> Seq(Wire)], m_open_channels'[0] = <<>>,
         UNCHANGED <<impl, calls, envelopes>>, broker' \in Brokers, Tidy(m_open_channels', broker')
  PROVE  Base'
<1>1. DOMAIN m_open_channels' = DOMAIN m_open_channels
  OBVIOUS
<1>2. ChannelInv'
  BY <1>1, CallGoesOn
<1>3. StageInv'
  BY DEF Base, StageInv, Busy, impl
<1>4. TypeInv'
  BY <1>1 DEF Base, TypeInv, impl
<1> QED BY <1>2, <1>3, <1>4 DEF Base, CloseInv

\* The call ends, with or without an envelope.
LEMMA EndsBase ==
  ASSUME Base, Busy, call' = NoCall, UNCHANGED <<impl, calls>>,
         NEW D, D = DOMAIN m_open_channels \/ D = DOMAIN m_open_channels \ {call.ch},
         m_open_channels' \in [D -> Seq(Wire)], m_open_channels'[0] = <<>>,
         broker' \in Brokers, Tidy(m_open_channels', broker'),
         envelopes' \subseteq Envelopes
  PROVE  Base'
<1>1. DOMAIN m_open_channels' = D
  OBVIOUS
<1>2. ChannelInv' /\ StageInv'
  BY <1>1, CallEnds DEF impl
<1>3. 0 \in D /\ D \subseteq Ids
  BY DEF Base, TypeInv, ChannelInv
<1>4. TypeInv'
  BY <1>1, <1>3, CallTypes DEF Base, TypeInv, impl
<1> QED BY <1>2, <1>4 DEF Base, CloseInv

\* The call ends and hands its channel back.
LEMMA ReturnsBase ==
  ASSUME Base, Busy, call' = NoCall, UNCHANGED <<m_next_channel_id, m_is_connected, calls>>,
         m_free_channels' = Append(m_free_channels, call.ch),
         \/ UNCHANGED m_consumer_channel_map /\ call.op \in Pooled
         \/ /\ call.op \notin Pooled
            /\ m_consumer_channel_map' =
                  Restrict(m_consumer_channel_map, DOMAIN m_consumer_channel_map \ {call.tag}),
         m_open_channels' \in [DOMAIN m_open_channels -> Seq(Wire)], m_open_channels'[0] = <<>>,
         broker' \in Brokers, Tidy(m_open_channels', broker'),
         envelopes' \subseteq Envelopes
  PROVE  Base'
<1>1. DOMAIN m_open_channels' = DOMAIN m_open_channels
  OBVIOUS
<1> DEFINE M == m_consumer_channel_map
<1>2. /\ DOMAIN M' \subseteq DOMAIN M
      /\ \A tag \in DOMAIN M' : M'[tag] = M[tag] /\ M[tag] # call.ch
  <2>1. CASE UNCHANGED M /\ call.op \in Pooled
    BY <2>1 DEF Base, ChannelInv
  <2>2. CASE call.op \notin Pooled /\ M' = Restrict(M, DOMAIN M \ {call.tag})
    <3>1. DOMAIN M' = DOMAIN M \ {call.tag} /\ \A tag \in DOMAIN M \ {call.tag} : M'[tag] = M[tag]
      BY <2>2 DEF Restrict
    <3>2. call.tag \in DOMAIN M /\ call.ch = M[call.tag]
          /\ \A s, t \in DOMAIN M : M[s] = M[t] => s = t
      BY <2>2 DEF Base, ChannelInv
    <3> QED BY <3>1, <3>2
  <2> QED BY <2>1, <2>2
<1>3. ChannelInv' /\ StageInv' /\ m_free_channels' \in Seq(Ids)
  BY <1>1, <1>2, CallReturns
<1>4. /\ DOMAIN M' \subseteq Tags /\ M' \in [DOMAIN M' -> Ids]
  <2>1. DOMAIN M \subseteq Tags /\ M \in [DOMAIN M -> Ids]
    BY DEF Base, TypeInv
  <2>2. CASE UNCHANGED M
    BY <2>1, <2>2
  <2>3. CASE M' = Restrict(M, DOMAIN M \ {call.tag})
    BY <2>1, <2>3 DEF Restrict
  <2> QED BY <2>2, <2>3
<1> HIDE DEF M
<1>5. TypeInv'
  <2>1. /\ DOMAIN m_consumer_channel_map' \subseteq Tags
        /\ m_consumer_channel_map' \in [DOMAIN m_consumer_channel_map' -> Ids]
    BY <1>4 DEF M
  <2> QED BY <1>1, <1>3, <2>1, CallTypes DEF Base, TypeInv
<1> QED BY <1>3, <1>5 DEF Base, CloseInv

\* What the call leaves when it takes a frame.
Remains(q, b) ==
    /\ q \in [DOMAIN m_open_channels -> Seq(Wire)] /\ q[0] = <<>> /\ MaybeReleaseBuffers(q) = q
    /\ b \in Brokers /\ Tidy(q, b)

\* A frame is taken (MethodFromQueue, ContentFromQueue, OwnFrame).
LEMMA TakeRemains ==
  ASSUME Base, call.stage \in MethodStages \cup ContentStages, NEW f, NEW q, NEW b, NEW p, Takes(f, q, b, p)
  PROVE  Left(f, q, b, p) /\ Remains(q, b)
<1>1. Left(f, q, b, p)
  BY TakesLeft
<1>2. Tidy(q, b)
  BY <1>1, TakeTidy
<1>3. q \in [DOMAIN m_open_channels -> Seq(Wire)] /\ b \in Brokers
  BY <1>1 DEF Left
<1>4. call.ch # 0 /\ 0 \in DOMAIN m_open_channels /\ m_open_channels[0] = <<>>
  BY CallChannel DEF Base, TypeInv
<1>5. q[0] = <<>>
  BY <1>1, <1>4 DEF Left
<1>6. MaybeReleaseBuffers(q) = q
  BY <1>3, NothingRecycled
<1> QED BY <1>1, <1>2, <1>3, <1>5, <1>6 DEF Remains

\* The next request of a call that goes on (ChannelOpened, QosSet).
Asks(q, b, id, tag, stage) ==
    /\ m_open_channels' = q
    /\ call' \in CallRecords /\ call' = [call EXCEPT !.stage = stage]
    /\ Served(b, broker', call.ch, Request(id, tag))

\* A call that sends its next request keeps Base (ChannelOpened, QosSet).
LEMMA AsksBase ==
  ASSUME Base, Busy, NEW q, NEW b, Remains(q, b), m_open_channels' = q,
         NEW id \in {"confirm.select", "basic.consume"}, NEW tag \in Tags \cup {NoTag},
         id = "basic.consume" => tag \in Tags,
         NEW stage \in {"select", "reply"}, stage = "select" => call.op \in Pooled,
         Send(b, Request(id, tag), [call EXCEPT !.stage = stage]), UNCHANGED <<impl, history>>
  PROVE  Base' /\ Asks(q, b, id, tag, stage)
<1> DEFINE k == [call EXCEPT !.stage = stage]
           r == Request(id, tag)
<1>1. call \in CallRecords /\ call.ch \in DOMAIN m_open_channels \ {0} /\ DOMAIN m_open_channels \in SUBSET Ids
  BY DEF Base, TypeInv, ChannelInv
<1>2. /\ k \in CallRecords /\ k.op = call.op /\ k.tag = call.tag /\ k.ch = call.ch /\ k.stage = stage
  BY <1>1 DEF CallRecords
<1>3. r \in Requests /\ r.id = id /\ r.tag = tag
  BY DEF Request, Requests
<1> HIDE DEF k, r
<1>4. broker' \in Serve(b, call.ch, r) /\ call' = k
  <2>1. Send(b, r, k)
    BY DEF k, r
  <2> QED BY <1>2, <2>1 DEF Send
<1>5. Served(b, broker', call.ch, r) /\ broker' \in Brokers /\ Tidy(q, broker')
  BY <1>1, <1>3, <1>4, Sent DEF Remains
<1>6. Base'
  BY <1>2, <1>4, <1>5, GoesOnBase DEF Remains, history, ContentStages
<1> QED BY <1>2, <1>4, <1>5, <1>6 DEF Asks, k, r

\* The call proper starts on the new channel (ConfirmSelected).
LEMMA EnterBase ==
  ASSUME Base, Busy, NEW q, NEW b, Remains(q, b), m_open_channels' = q, call.op \in Pooled,
         Enter(b, call), UNCHANGED <<impl, history>>
  PROVE  Base' /\ Entered(b, call, q)
<1>1. call \in CallRecords /\ call.ch \in DOMAIN m_open_channels \ {0} /\ DOMAIN m_open_channels \in SUBSET Ids
  BY DEF Base, TypeInv, ChannelInv
<1>2. call.op \in Ops \ {"BasicConsumeMessage"}
  BY DEF Pooled, Ops, Responses
<1>3. Entered(b, call, q)
  BY <1>1, <1>2, EnterCall DEF Remains
<1>4. Base'
  BY <1>3, GoesOnBase DEF Entered, Remains, history, ContentStages
<1> QED BY <1>3, <1>4

\* The methods that some call expects in reply.
LEMMA Replying ==
  ASSUME Base, call.stage \in MethodStages, NEW f, is_expected_method(f, call)
  PROVE  /\ f.id = "declare-ok" => call.op = "DoRpc"
         /\ f.id \in {"basic.get-empty", "basic.get-ok"} => call.op = "BasicGet"
         /\ f.id \in {"basic.ack", "basic.return"} => call.op = "BasicPublish"
         /\ f.id = "basic.deliver" => call.op = "BasicConsumeMessage"
         /\ f.id = "basic.recover-ok" => call.op = "BasicRecover"
         /\ call.stage = "reply" /\ f.id = "basic.qos-ok" => call.op = "BasicQos"
         /\ f.id = "basic.consume-ok" => call.op = "BasicConsume"
         /\ f.id = "basic.cancel-ok" => call.op = "BasicCancel"
         /\ f.id \notin {"channel.open-ok", "confirm.select-ok", "basic.qos-ok", "basic.ack"} => call.stage = "reply"
<1>1. Busy /\ call.op \in Ops
  BY CallChannel DEF Base, TypeInv, CallRecords, Busy
<1>2. f.id \in Expected(call)
  BY DEF is_expected_method
<1>3. CASE call.stage = "reply"
  BY <1>1, <1>2, <1>3 DEF Expected, Ops, Responses
<1>4. CASE call.stage \in DOMAIN Prelude
  BY <1>2, <1>4 DEF Expected, Prelude, Base, StageInv
<1> QED BY <1>3, <1>4 DEF MethodStages

\* The call has the method it waits for (MethodArrived).
LEMMA MethodBase ==
  ASSUME Base, Busy, call.stage \in MethodStages, NEW f \in Wire, NEW q, NEW b, Remains(q, b),
         is_expected_method(f, call), MethodArrived(f, q, b)
  PROVE  Base' /\ m_open_channels' = q
<1>0. /\ call \in CallRecords /\ q \in [DOMAIN m_open_channels -> Seq(Wire)] /\ q[0] = <<>> /\ b \in Brokers
      /\ Tidy(q, b) /\ MaybeReleaseBuffers(q) = q
      /\ envelopes \subseteq Envelopes
  BY DEF Remains, Base, TypeInv
<1>1. CASE ChannelOpened(q, b)
  <2>1. /\ m_open_channels' = q /\ call.op \in Pooled /\ UNCHANGED <<impl, history>>
        /\ Send(b, Request("confirm.select", NoTag), [call EXCEPT !.stage = "select"])
    BY <1>1 DEF ChannelOpened, Base, StageInv
  <2> QED BY <2>1, AsksBase
<1>2. CASE ConfirmSelected(q, b)
  <2>1. /\ m_open_channels' = q /\ call.op \in Pooled /\ UNCHANGED <<impl, history>> /\ Enter(b, call)
    BY <1>2 DEF ConfirmSelected, Base, StageInv
  <2> QED BY <2>1, EnterBase
<1>3. CASE QosSet(q, b)
  <2>1. /\ m_open_channels' = q /\ call.tag \in Tags /\ UNCHANGED <<impl, history>>
        /\ Send(b, Request("basic.consume", call.tag), [call EXCEPT !.stage = "reply"])
    BY <1>0, <1>3 DEF QosSet, Base, StageInv
  <2> QED BY <2>1, AsksBase
<1>4. CASE Answered(f, q, b)
  <2>1. call.op \in Pooled
    BY <1>4, Replying DEF Answered, Pooled
  <2>2. /\ m_open_channels' = q /\ broker' = b /\ call' = NoCall
        /\ m_free_channels' = Append(m_free_channels, call.ch)
        /\ UNCHANGED <<m_consumer_channel_map, m_next_channel_id, m_is_connected, calls, envelopes>>
    BY <1>0, <1>4 DEF Answered, ReturnChannel, EndCall, history
  <2> QED BY <1>0, <2>1, <2>2, ReturnsBase
<1>5. CASE Published(f, q, b)
  <2>1. call.op \in Pooled
    BY <1>5, Replying DEF Published, Pooled
  <2>2. /\ m_open_channels' = q /\ broker' = b /\ call' = NoCall
        /\ m_free_channels' = Append(m_free_channels, call.ch)
        /\ UNCHANGED <<m_consumer_channel_map, m_next_channel_id, m_is_connected, calls, envelopes>>
    BY <1>0, <1>5 DEF Published, ReturnChannel, EndCall
  <2> QED BY <1>0, <2>1, <2>2, ReturnsBase
<1>6. CASE ContentFollows(f, q, b) \/ DeliveryFollows(f, q, b)
  <2>1. /\ m_open_channels' = q /\ broker' = b /\ call' = [call EXCEPT !.stage = "header", !.held = f]
        /\ UNCHANGED <<impl, history>> /\ f.id \in {"basic.return", "basic.get-ok", "basic.deliver"}
    BY <1>0, <1>6 DEF ContentFollows, DeliveryFollows, GoOn
  <2>2. /\ call' \in CallRecords /\ call'.op = call.op /\ call'.tag = call.tag /\ call'.ch = call.ch
        /\ call'.stage = "header"
    BY <1>0, <2>1 DEF CallRecords
  <2>3. call.op \in {"BasicPublish", "BasicGet", "BasicConsumeMessage"}
    BY <2>1, Replying
  <2> QED BY <1>0, <2>1, <2>2, <2>3, GoesOnBase DEF history
<1>7. CASE Adjusted(f, q, b)
  <2>1. /\ m_open_channels' = q /\ broker' = b /\ call' = NoCall /\ UNCHANGED <<impl, calls, envelopes>>
    BY <1>0, <1>7 DEF Adjusted, EndCall, history
  <2> QED BY <1>0, <2>1, EndsBase
<1>8. CASE Consuming(f, q, b)
  <2>1. /\ m_open_channels' = q /\ broker' = b /\ call' = NoCall
        /\ m_consumer_channel_map' = Insert(m_consumer_channel_map, call.tag, call.ch)
        /\ UNCHANGED <<m_free_channels, m_next_channel_id, m_is_connected, calls, envelopes>>
    BY <1>0, <1>8 DEF Consuming, EndCall, history
  <2>2. call.op = "BasicConsume" /\ call.op \in Pooled /\ call.tag \in Tags
    BY <1>8, Replying DEF Consuming, Pooled, Base, StageInv
  <2>3. /\ ~Busy' /\ DOMAIN m_open_channels' = DOMAIN m_open_channels
    BY <1>0, <2>1, CallTypes DEF Busy
  <2> DEFINE M == m_consumer_channel_map
  <2>4. /\ DOMAIN M' = DOMAIN M \cup {call.tag}
        /\ \A t \in DOMAIN M : M'[t] = M[t]
        /\ call.tag \notin DOMAIN M => M'[call.tag] = call.ch
    BY <2>1 DEF Insert
  <2>5. /\ M' \in [DOMAIN M' -> Ids] /\ DOMAIN M' \subseteq Tags
    BY <1>0, <2>1, <2>2, <2>4 DEF Base, TypeInv, CallRecords, Insert
  <2>6. /\ call.ch \in 2 .. m_next_channel_id /\ call.ch \in DOMAIN m_open_channels \ {0}
        /\ \A t \in DOMAIN M : call.ch # M[t]
        /\ \A i \in DOMAIN m_free_channels : m_free_channels[i] # call.ch
    BY <2>2 DEF Base, ChannelInv
  <2>7. /\ \A t \in DOMAIN M' : M'[t] \in 2 .. m_next_channel_id
        /\ \A s, t \in DOMAIN M' : M'[s] = M'[t] => s = t
        /\ \A i \in DOMAIN m_free_channels : \A t \in DOMAIN M' : m_free_channels[i] # M'[t]
    BY <2>4, <2>6 DEF Base, ChannelInv
  <2> HIDE DEF M
  <2>8. ChannelInv'
    <3>1. /\ m_next_channel_id' \in 1 .. calls' + 1
          /\ DOMAIN m_open_channels' \subseteq {0} \cup 2 .. m_next_channel_id'
          /\ \A i, j \in DOMAIN m_free_channels' : m_free_channels'[i] = m_free_channels'[j] => i = j
          /\ \A i \in DOMAIN m_free_channels' : m_free_channels'[i] \in DOMAIN m_open_channels' \ {0}
      BY <2>1, <2>3 DEF Base, ChannelInv
    <3> QED BY <2>1, <2>3, <2>7, <3>1 DEF ChannelInv, M
  <2>9. StageInv'
    BY <2>1, <2>3, CallTypes DEF StageInv, MethodStages, ContentStages
  <2>10. TypeInv'
    BY <1>0, <2>1, <2>3, <2>5, CallTypes DEF Base, TypeInv, M
  <2> QED BY <1>0, <2>1, <2>8, <2>9, <2>10 DEF Base, CloseInv
<1>9. CASE Cancelled(f, q, b)
  <2>1. /\ m_open_channels' = q /\ broker' = b /\ call' = NoCall
        /\ m_free_channels' = Append(m_free_channels, call.ch)
        /\ m_consumer_channel_map' =
              Restrict(m_consumer_channel_map, DOMAIN m_consumer_channel_map \ {call.tag})
        /\ UNCHANGED <<m_next_channel_id, m_is_connected, calls, envelopes>>
    BY <1>0, <1>9 DEF Cancelled, ReturnChannel, EndCall, history
  <2>2. call.op \notin Pooled
    BY <1>9, Replying DEF Cancelled, Pooled
  <2> QED BY <1>0, <2>1, <2>2, ReturnsBase
<1> QED BY <1>1, <1>2, <1>3, <1>4, <1>5, <1>6, <1>7, <1>8, <1>9 DEF MethodArrived

\* The call with a frame of the content (ReadContent).
WithFrame(f) == IF call.stage = "header" THEN [call EXCEPT !.header = f]
                                         ELSE [call EXCEPT !.body = Append(@, f)]

\* The call reads a frame of a content: the content goes on, is complete, or the frame is
\* another one (ReadContent).
LEMMA ContentBase ==
  ASSUME Base, Busy, call.stage \in ContentStages, NEW f \in Wire, NEW q, NEW b, Remains(q, b),
         ReadContent(f, q, b)
  PROVE  /\ Base' /\ m_open_channels' = q /\ broker' = b
         /\ WithFrame(f) \in CallRecords /\ WithFrame(f).op = call.op
         /\ WithFrame(f).ch = call.ch /\ WithFrame(f).held = call.held
<1>0. /\ call \in CallRecords /\ q \in [DOMAIN m_open_channels -> Seq(Wire)] /\ q[0] = <<>> /\ b \in Brokers
      /\ Tidy(q, b) /\ MaybeReleaseBuffers(q) = q /\ call.ch \in Ids \ {0}
      /\ envelopes \subseteq Envelopes
  BY DEF Remains, Base, TypeInv, ChannelInv
<1> DEFINE k == WithFrame(f)
<1>1. /\ k \in CallRecords /\ k.op = call.op /\ k.tag = call.tag /\ k.ch = call.ch /\ k.held = call.held
      /\ k.stage = call.stage
  <2>1. call.body \in Seq(Wire) /\ Append(call.body, f) \in Seq(Wire)
    BY <1>0, AppendProperties DEF CallRecords
  <2> DEFINE x == Append(call.body, f)
  <2>2. x \in Seq(Wire) /\ k = IF call.stage = "header" THEN [call EXCEPT !.header = f] ELSE [call EXCEPT !.body = x]
    BY <2>1 DEF WithFrame
  <2> HIDE DEF x, k
  <2> QED BY <1>0, <2>2 DEF CallRecords
<1>2. \/ ContentRead(k, q, b)
      \/ EndCall(q, b) /\ UNCHANGED <<impl, history>>
  BY DEF ReadContent, WithFrame
<1>3. ASSUME NEW stage \in {"body", "confirm"}, stage = "confirm" => call.op = "BasicPublish",
             m_open_channels' = q, broker' = b, call' = [k EXCEPT !.stage = stage], UNCHANGED <<impl, history>>
      PROVE  Base'
  <2> HIDE DEF k
  <2>1. m_open_channels' = q /\ broker' = b /\ call' = [k EXCEPT !.stage = stage]
    BY <1>3
  <2>2. /\ call' \in CallRecords /\ call'.op = call.op /\ call'.tag = call.tag /\ call'.ch = call.ch
        /\ call'.stage = stage
    BY <1>1, <2>1 DEF CallRecords
  <2>3. call.op \in {"BasicPublish", "BasicGet", "BasicConsumeMessage"}
    BY DEF Base, StageInv
  <2> QED BY <1>0, <1>3, <2>1, <2>2, <2>3, GoesOnBase DEF history
<1>4. /\ {Envelope(k)} \subseteq Envelopes
  <2> HIDE DEF k
  <2>1. k.held.tag \in Tags \cup {NoTag} /\ k.held.msg \in Nat /\ k.header \in Wire /\ k.body \in Seq(Wire)
        /\ k.ch \in Ids \ {0}
    BY <1>0, <1>1 DEF CallRecords, Wire
  <2> QED BY <2>1 DEF Envelope, Envelopes
<1>5. CASE ContentRead(k, q, b)
  <2> SUFFICES Base' /\ m_open_channels' = q /\ broker' = b
    BY <1>1
  <2> HIDE DEF k
  <2>1. CASE GoOn(q, b, [k EXCEPT !.stage = "body"]) /\ UNCHANGED <<impl, history>>
    BY <1>3, <2>1 DEF GoOn
  <2>2. CASE ContentComplete(k, q, b)
    <3>1. CASE k.op = "BasicPublish" /\ GoOn(q, b, [k EXCEPT !.stage = "confirm"]) /\ UNCHANGED <<impl, history>>
      BY <1>1, <1>3, <3>1 DEF GoOn
    <3>2. CASE /\ k.op = "BasicGet"
               /\ envelopes' = envelopes \cup {Envelope(k)}
               /\ ReturnChannel(q, b)
               /\ UNCHANGED <<m_consumer_channel_map, m_next_channel_id, m_is_connected, calls, outcomes>>
      <4>1. /\ m_open_channels' = q /\ broker' = b /\ call' = NoCall /\ call.op \in Pooled
            /\ m_free_channels' = Append(m_free_channels, call.ch)
            /\ UNCHANGED <<m_consumer_channel_map, m_next_channel_id, m_is_connected, calls>>
        BY <1>0, <1>1, <3>2 DEF ReturnChannel, EndCall, Pooled
      <4>2. envelopes' \subseteq Envelopes
        BY <1>0, <1>4, <3>2
      <4> QED BY <1>0, <4>1, <4>2, ReturnsBase
    <3>3. CASE /\ k.op = "BasicConsumeMessage"
               /\ envelopes' = envelopes \cup {Envelope(k)}
               /\ EndCall(MaybeReleaseBuffers(q), b)
               /\ UNCHANGED <<impl, calls, outcomes>>
      <4>1. m_open_channels' = q /\ broker' = b /\ call' = NoCall /\ UNCHANGED <<impl, calls>>
        BY <1>0, <3>3 DEF EndCall
      <4>2. envelopes' \subseteq Envelopes
        BY <1>0, <1>4, <3>3
      <4> QED BY <1>0, <4>1, <4>2, EndsBase
    <3> QED BY <2>2, <3>1, <3>2, <3>3 DEF ContentComplete
  <2> QED BY <1>5, <2>1, <2>2 DEF ContentRead
<1>6. CASE EndCall(q, b) /\ UNCHANGED <<impl, history>>
  <2>1. m_open_channels' = q /\ broker' = b /\ call' = NoCall /\ UNCHANGED <<impl, calls, envelopes>>
    BY <1>6 DEF EndCall, history
  <2> QED BY <1>0, <1>1, <2>1, EndsBase
<1> QED BY <1>2, <1>5, <1>6

\* The broker has closed the channel of the call (FinishCloseChannel).
LEMMA CloseBase ==
  ASSUME Base, CloseTaken
  PROVE  /\ Base' /\ Busy /\ call' = NoCall /\ UNCHANGED <<impl, history>>
         /\ call.ch \notin DOMAIN m_open_channels'
         /\ \E f, q, b, p :
               /\ Left(f, q, b, p) /\ IsClose(f) /\ Served(b, broker', call.ch, Request("channel.close-ok", NoTag))
               /\ DOMAIN m_open_channels' = DOMAIN m_open_channels \ {call.ch}
               /\ \A c \in DOMAIN m_open_channels' : m_open_channels'[c] = m_open_channels[c]
<1>1. PICK f, q, b, p :
         /\ Takes(f, q, b, p)
         /\ IsClose(f) /\ call.stage \in MethodStages \cup ContentStages
         /\ FinishCloseChannel(Erase(q), b)
         /\ UNCHANGED <<impl, history>>
  BY DEF CloseTaken
<1> DEFINE c == call.ch
           D == DOMAIN m_open_channels \ {c}
           e == Erase(q)
           r == Request("channel.close-ok", NoTag)
<1>2. Left(f, q, b, p) /\ Remains(q, b)
  BY <1>1, TakeRemains
<1>3. Busy /\ c \in Ids \ {0} /\ 0 \in D /\ D \in SUBSET Ids /\ envelopes \subseteq Envelopes
  BY <1>1, CallChannel DEF Base, TypeInv
<1>4. Tidy(e, b) /\ b.state[c] = "closing" /\ e \in [D -> Seq(Wire)] /\ b \in Brokers
  BY <1>1, <1>2, EraseTidy DEF Remains
<1>5. \A d \in D : e[d] = q[d] /\ q[d] = m_open_channels[d]
  BY <1>2 DEF Left, Erase, Restrict
<1>6. e[0] = <<>>
  BY <1>2, <1>3, <1>5 DEF Remains
<1> HIDE DEF e
<1>7. PICK b2 \in Serve(b, c, r) : EndCall(e, b2)
  BY <1>1 DEF FinishCloseChannel, e
<1>8. r \in Requests /\ r.id = "channel.close-ok"
  BY DEF Request, Requests
<1> HIDE DEF r, c, D
<1>9. m_open_channels' = e /\ broker' = b2 /\ call' = NoCall
  BY <1>7 DEF EndCall
<1>10. Served(b, b2, c, r)
  BY <1>3, <1>4, <1>7, <1>8, ServeEffect
<1>11. c \notin D
  BY DEF D
<1>12. Tidy(e, b2)
  BY <1>3, <1>4, <1>8, <1>10, <1>11, ServeKeeps
<1>13. b2 \in Brokers
  BY <1>10 DEF Served
<1>14. D = DOMAIN m_open_channels \/ D = DOMAIN m_open_channels \ {call.ch}
  BY DEF D, c
<1>15. Base'
  BY <1>1, <1>3, <1>4, <1>6, <1>9, <1>12, <1>13, <1>14, EndsBase DEF history
<1>16. DOMAIN m_open_channels' = D /\ \A d \in D : m_open_channels'[d] = m_open_channels[d]
  BY <1>4, <1>5, <1>9
<1> QED BY <1>1, <1>2, <1>3, <1>9, <1>10, <1>15, <1>16 DEF D, c, r

\* A frame goes to a queue (OwnFrame, OtherFrame).
LEMMA QueuedBase ==
  ASSUME Base, FrameQueued
  PROVE  /\ Base' /\ UNCHANGED <<impl, history, call>>
         /\ \E c \in DOMAIN m_open_channels \ {0} :
               /\ Queued(m_open_channels', broker', c)
               /\ c = call.ch => /\ call.stage \in MethodStages
                                 /\ ~is_expected_method(Head(broker.out[c]), call)
<1>1. PICK c \in DOMAIN m_open_channels \ {0} :
         /\ broker.out[c] # <<>>
         /\ c = call.ch => /\ call.stage \in MethodStages
                           /\ ~is_expected_method(Head(broker.out[c]), call)
         /\ GoOn([m_open_channels EXCEPT ![c] = Append(@, Head(broker.out[c]))],
                 [broker EXCEPT !.out[c] = Tail(@)], call)
         /\ UNCHANGED <<impl, history>>
  BY DEF FrameQueued
<1>2. Queued([m_open_channels EXCEPT ![c] = Append(@, Head(broker.out[c]))],
             [broker EXCEPT !.out[c] = Tail(@)], c)
  BY <1>1, QueuedFrame
<1>3. Queued(m_open_channels', broker', c) /\ call' = call
  BY <1>1, <1>2 DEF GoOn
<1>4. /\ m_open_channels' \in [DOMAIN m_open_channels -> Seq(Wire)] /\ broker' \in Brokers
      /\ Tidy(m_open_channels', broker') /\ m_open_channels'[0] = <<>>
  BY <1>3 DEF Queued, Popped, Base, TypeInv
<1>5. UNCHANGED <<m_free_channels, m_consumer_channel_map, m_next_channel_id, m_is_connected, call, calls, envelopes>>
      /\ DOMAIN m_open_channels' = DOMAIN m_open_channels
  BY <1>1, <1>3, <1>4 DEF impl, history
<1>6. TypeInv'
  BY <1>4, <1>5 DEF Base, TypeInv
<1>7. StageInv'
  BY <1>5 DEF Base, StageInv, Busy
<1>8. ChannelInv'
  BY <1>5 DEF Base, ChannelInv, Busy
<1>9. Base'
  BY <1>4, <1>6, <1>7, <1>8 DEF Base, CloseInv
<1> QED BY <1>1, <1>3, <1>9

\* The connection is closed (FinishCloseConnection).
LEMMA LostBase ==
  ASSUME Base, ConnectionLost, CallStep
  PROVE  /\ Base' /\ Busy /\ ~m_is_connected' /\ call' = NoCall /\ Popped(broker, broker', 0)
         /\ UNCHANGED <<m_open_channels, m_free_channels, m_consumer_channel_map, m_next_channel_id, history>>
<1>1. 0 \in Ids /\ broker.out[0] # <<>> /\ broker \in Brokers
  BY CallTypes DEF ConnectionLost, Base, TypeInv
<1>2. Popped(broker, [broker EXCEPT !.out[0] = Tail(@)], 0)
  BY <1>1, PopFrame
<1>3. /\ Popped(broker, broker', 0) /\ call' = NoCall /\ m_is_connected' = FALSE
      /\ UNCHANGED <<m_open_channels, m_free_channels, m_consumer_channel_map, m_next_channel_id, history>>
  BY <1>2 DEF ConnectionLost, ConnectionFrame, EndCall
<1>4. Busy
  BY CallChannel DEF CallStep, MethodFromQueue, ContentFromQueue, FrameFromBroker, Reading
<1>5. ChannelInv' /\ StageInv'
  BY <1>3, <1>4, CallEnds DEF history
<1>6. TypeInv'
  BY <1>3, CallTypes DEF Base, TypeInv, Popped, history
<1>7. CloseInv'
  <2>1. broker'.state = broker.state /\ broker'.consumers = broker.consumers /\ m_open_channels' = m_open_channels
        /\ \A d \in Ids \ {0} : broker'.out[d] = broker.out[d]
    BY <1>3 DEF Popped
  <2>2. \A d \in DOMAIN m_open_channels \ {0} : Flow(m_open_channels', broker', d) = Flow(m_open_channels, broker, d)
    BY <2>1 DEF Flow, Base, TypeInv
  <2> QED BY <2>1, <2>2 DEF Base, CloseInv, Tidy
<1> QED BY <1>3, <1>4, <1>5, <1>6, <1>7 DEF Base

\* A call that takes a frame it waits for (MethodTaken).
LEMMA MethodTakenBase ==
  ASSUME Base, MethodTaken
  PROVE  /\ Base'
         /\ \E f, q, b, p :
               /\ Left(f, q, b, p) /\ Remains(q, b) /\ m_open_channels' = q
               /\ call.stage \in MethodStages /\ Busy /\ f \in Wire
               /\ is_expected_method(f, call)
               /\ \A i \in 1 .. Len(Stream(call.ch)) : i < p => ~is_expected_method(Stream(call.ch)[i], call)
               /\ MethodArrived(f, q, b)
<1>1. PICK f, q, b, p :
        /\ Takes(f, q, b, p)
        /\ call.stage \in MethodStages
        /\ is_expected_method(f, call)
        /\ \A i \in 1 .. Len(Stream(call.ch)) : i < p => ~is_expected_method(Stream(call.ch)[i], call)
        /\ MethodArrived(f, q, b)
  BY DEF MethodTaken
<1>2. Left(f, q, b, p) /\ Remains(q, b)
  BY <1>1, TakeRemains
<1>3. Busy /\ f \in Wire
  BY <1>1, <1>2, CallChannel DEF Left
<1>4. Base' /\ m_open_channels' = q
  BY <1>1, <1>2, <1>3, MethodBase
<1> QED BY <1>1, <1>2, <1>3, <1>4

\* A call that reads a frame of a content (ContentTaken).
LEMMA ContentTakenBase ==
  ASSUME Base, ContentTaken
  PROVE  /\ Base'
         /\ \E f, q, b :
               /\ Left(f, q, b, 1) /\ Remains(q, b) /\ m_open_channels' = q /\ broker' = b
               /\ call.stage \in ContentStages /\ Busy /\ f \in Wire
               /\ ReadContent(f, q, b)
<1>1. PICK f, q, b :
        /\ Takes(f, q, b, 1)
        /\ call.stage \in ContentStages
        /\ ReadContent(f, q, b)
  BY DEF ContentTaken
<1>2. Left(f, q, b, 1) /\ Remains(q, b)
  BY <1>1, TakeRemains
<1>3. Busy /\ f \in Wire
  BY <1>1, <1>2, CallChannel DEF Left
<1>4. Base' /\ m_open_channels' = q /\ broker' = b
  BY <1>1, <1>2, <1>3, ContentBase
<1> QED BY <1>1, <1>2, <1>3, <1>4

\* DeclareQueue and the like, BasicPublish, BasicGet and BasicConsume start (PooledCall).
LEMMA PooledCallBase ==
  ASSUME FewCalls, Base, NEW op \in Pooled, NEW tag \in Tags \cup {NoTag}, op = "BasicConsume" => tag \in Tags,
         PooledCall(op, tag)
  PROVE  Base'
<1> DEFINE k == [NoCall EXCEPT !.op = op, !.tag = tag]
<1>0. /\ Idle /\ Called /\ GetChannel(k)
      /\ UNCHANGED <<m_consumer_channel_map, m_is_connected, envelopes, outcomes>>
  BY DEF PooledCall
<1>1. \A x, stage : /\ [k EXCEPT !.ch = x] = [NoCall EXCEPT !.op = op, !.tag = tag, !.ch = x]
                    /\ [k EXCEPT !.ch = x, !.stage = stage]
                          = [NoCall EXCEPT !.op = op, !.tag = tag, !.ch = x, !.stage = stage]
  BY DEF NoCall
<1> HIDE DEF k
<1>2. CASE m_free_channels # <<>>
  <2>1. /\ m_free_channels' = Tail(m_free_channels)
        /\ Enter(broker, [NoCall EXCEPT !.op = op, !.tag = tag, !.ch = Head(m_free_channels)])
        /\ UNCHANGED <<m_open_channels, m_next_channel_id>>
    BY <1>0, <1>1, <1>2 DEF GetChannel
  <2> QED BY <1>0, <1>2, <2>1, FreeChannelTaken
<1>3. CASE m_free_channels = <<>>
  <2>1. /\ m_next_channel_id' = GetNextChannelId
        /\ m_open_channels' = Insert(m_open_channels, GetNextChannelId, <<>>)
        /\ Send(broker, Request("channel.open", NoTag),
                [NoCall EXCEPT !.op = op, !.tag = tag, !.ch = GetNextChannelId, !.stage = "open"])
        /\ UNCHANGED m_free_channels
    BY <1>0, <1>1, <1>3 DEF GetChannel
  <2> QED BY <1>0, <1>3, <2>1, ChannelCreated
<1> QED BY <1>2, <1>3

\* A new connection has one channel, 0, and uses none of the others (ChannelImpl::ChannelImpl).
LEMMA InitBase ==
  ASSUME Init
  PROVE  Base
<1>1. /\ m_open_channels \in [{0} -> Seq(Wire)] /\ DOMAIN m_open_channels = {0} /\ m_open_channels[0] = <<>>
  BY EmptySeq DEF Init
<1>2. 0 \in Ids /\ 1 \in Ids
  BY IdSpaceAssumption DEF Ids
<1>3. broker \in Brokers
  <2>1. <<>> \in Seq(Wire)
    BY EmptySeq
  <2> QED BY <2>1 DEF Init, NewBroker, Brokers
<1>4. ~Busy /\ call = NoCall
  BY CallTypes DEF Init, Busy
<1>5. /\ m_free_channels \in Seq(Ids) /\ DOMAIN m_free_channels = {}
      /\ DOMAIN m_consumer_channel_map = {} /\ m_consumer_channel_map \in [DOMAIN m_consumer_channel_map -> Ids]
  BY EmptySeq DEF Init
<1>6. TypeInv
  BY <1>1, <1>2, <1>3, <1>4, <1>5, CallTypes, BoundsAssumption DEF TypeInv, Init
<1>7. StageInv
  BY <1>4, CallTypes DEF StageInv, MethodStages, ContentStages
<1>8. ChannelInv
  BY <1>1, <1>4, <1>5 DEF ChannelInv, Init
<1>9. CloseInv
  BY <1>1, <1>2 DEF CloseInv, Tidy, Init, NewBroker
<1> QED BY <1>6, <1>7, <1>8, <1>9 DEF Base

\* Every step keeps Base.
LEMMA NextBase ==
  ASSUME FewCalls, Base, [Next]_vars
  PROVE  Base'
<1>1. CASE DoRpc \/ BasicPublish \/ BasicGet \/ \E tag \in Tags : BasicConsume(tag)
  <2>1. {"DoRpc", "BasicPublish", "BasicGet", "BasicConsume"} \subseteq Pooled
    BY DEF Pooled
  <2> QED BY <1>1, <2>1, PooledCallBase DEF DoRpc, BasicPublish, BasicGet, BasicConsume
<1>2. ASSUME NEW tag \in Tags, BasicRecover(tag) \/ BasicQos(tag) \/ BasicCancel(tag) PROVE Base'
  BY <1>2, ConsumerCallBase DEF BasicRecover, BasicQos, BasicCancel
<1>3. ASSUME NEW tag \in Tags, BasicConsumeMessage(tag) PROVE Base'
  BY <1>3, ConsumeMessageBase
<1>4. ASSUME NEW e \in envelopes, BasicAck(e) PROVE Base'
  BY <1>4, AckBase
<1>5. CASE CallStep
  BY <1>5, CallSteps, MethodTakenBase, ContentTakenBase, CloseBase, QueuedBase, LostBase
<1>6. CASE Timeout
  BY <1>6, TimeoutBase
<1>7. ASSUME NEW c \in Ids, NEW tag \in Tags, Deliver(c, tag) PROVE Base'
  BY <1>7, DeliverBase
<1>8. CASE ForceClose
  BY <1>8, ForceCloseBase
<1>9. CASE UNCHANGED vars
  <2>1. UNCHANGED <<m_open_channels, m_free_channels, m_consumer_channel_map, m_next_channel_id, m_is_connected,
                    call, calls, broker, envelopes>>
    BY <1>9 DEF vars, impl, history
  <2>2. TypeInv'
    BY <2>1 DEF Base, TypeInv
  <2>3. StageInv'
    BY <2>1 DEF Base, StageInv, Busy
  <2>4. ChannelInv'
    BY <2>1 DEF Base, ChannelInv, Busy
  <2>5. CloseInv'
    BY <2>1 DEF Base, CloseInv
  <2> QED BY <2>2, <2>3, <2>4, <2>5 DEF Base
<1> QED BY <1>1, <1>2, <1>3, <1>4, <1>5, <1>6, <1>7, <1>8, <1>9 DEF Next

\* Base is an invariant.
LEMMA BaseInvariant ==
  ASSUME FewCalls
  PROVE  Spec => []Base
<1>1. Init => Base
  BY InitBase
<1>2. Base /\ [Next]_vars => Base'
  BY NextBase
<1> QED BY <1>1, <1>2, PTL DEF Spec

\* The variables of the client have their types and channel 0 stays open, with no frame in
\* its queue (all of ChannelImpl).
THEOREM TypeCorrect == FewCalls => (Spec => []TypeOK)
<1> SUFFICES ASSUME FewCalls PROVE Spec => []TypeOK
  OBVIOUS
<1>0. Spec => []Base
  BY BaseInvariant
<1>1. Wire \subseteq Frames
  BY DEF Wire, Frames
<1>2. Base => TypeOK
  <2> SUFFICES ASSUME Base PROVE TypeOK
    OBVIOUS
  <2>1. \A c \in DOMAIN m_open_channels : m_open_channels[c] \in Seq(Frames)
    <3>1. \A s \in Seq(Wire) : s \in Seq(Frames)
      BY <1>1, SeqDef
    <3> QED BY <3>1 DEF Base, TypeInv
  <2>2. Range(m_consumer_channel_map) \subseteq Ids
    BY DEF Range, Base, TypeInv
  <2> QED BY <2>1, <2>2 DEF TypeOK, Base, TypeInv, CallRecords
<1> QED BY <1>0, <1>2, PTL

\* No frame of a queue lies in memory that has been recycled: MaybeReleaseBuffers recycles
\* only when no queue of any channel holds a frame.
THEOREM FramesLive == FewCalls => (Spec => []QueuedFramesLive)
<1> SUFFICES ASSUME FewCalls PROVE Spec => []QueuedFramesLive
  OBVIOUS
<1>0. Spec => []Base
  BY BaseInvariant
<1>1. Base => QueuedFramesLive
  <2> SUFFICES ASSUME Base, NEW c \in DOMAIN m_open_channels, NEW f \in Range(m_open_channels[c])
               PROVE  f.live
    BY DEF QueuedFramesLive
  <2>1. m_open_channels[c] \in Seq(Wire)
    BY DEF Base, TypeInv
  <2>2. f \in Wire
    BY <2>1, ElementOfSeq DEF Range
  <2> QED BY <2>2 DEF Wire
<1> QED BY <1>0, <1>1, PTL

-----------------------------------------------------------------------------
(* Answers.                                                                 *)

\* The answers in s followed by u.
JoinedAnswers(s, u) ==
    /\ s \o u \in Seq(Wire)
    /\ \A i \in Answers(s \o u) :
          \/ i \in Answers(s) /\ (s \o u)[i] = s[i]
          \/ \E j \in Answers(u) : i = Len(s) + j /\ (s \o u)[i] = u[j]
    /\ \A i \in Answers(s) : i \in Answers(s \o u) /\ (s \o u)[i] = s[i]
    /\ \A j \in Answers(u) : Len(s) + j \in Answers(s \o u) /\ (s \o u)[Len(s) + j] = u[j]

\* Frames are added behind those on their way.
LEMMA AnswersJoined ==
  \A s, u \in Seq(Wire) : JoinedAnswers(s, u)
<1> SUFFICES ASSUME NEW s \in Seq(Wire), NEW u \in Seq(Wire)
             PROVE  JoinedAnswers(s, u)
  OBVIOUS
<1>1. /\ s \o u \in Seq(Wire) /\ Len(s \o u) = Len(s) + Len(u)
      /\ \A i \in 1 .. Len(s) + Len(u) : (s \o u)[i] = IF i <= Len(s) THEN s[i] ELSE u[i - Len(s)]
  BY ConcatProperties
<1>2. /\ DOMAIN s = 1 .. Len(s) /\ DOMAIN u = 1 .. Len(u) /\ DOMAIN (s \o u) = 1 .. Len(s) + Len(u)
      /\ Len(s) \in Nat /\ Len(u) \in Nat
  BY <1>1, LenProperties
<1> DEFINE z == s \o u
<1>3. /\ z \in Seq(Wire) /\ DOMAIN z = 1 .. Len(s) + Len(u)
      /\ \A i \in 1 .. Len(s) + Len(u) : z[i] = IF i <= Len(s) THEN s[i] ELSE u[i - Len(s)]
  BY <1>1, <1>2
<1> HIDE DEF z
<1>4. \A i \in 1 .. Len(s) : i \in DOMAIN z /\ z[i] = s[i]
  BY <1>2, <1>3
<1>5. \A j \in 1 .. Len(u) : Len(s) + j \in DOMAIN z /\ z[Len(s) + j] = u[j]
  <2> SUFFICES ASSUME NEW j \in 1 .. Len(u) PROVE Len(s) + j \in DOMAIN z /\ z[Len(s) + j] = u[j]
    OBVIOUS
  <2>1. Len(s) + j \in 1 .. Len(s) + Len(u) /\ ~(Len(s) + j <= Len(s)) /\ (Len(s) + j) - Len(s) = j
    BY <1>2
  <2> QED BY <1>3, <2>1
<1>6. \A i \in DOMAIN z : i \in 1 .. Len(s) \/ \E j \in 1 .. Len(u) : i = Len(s) + j
  <2> SUFFICES ASSUME NEW i \in DOMAIN z, i \notin 1 .. Len(s) PROVE \E j \in 1 .. Len(u) : i = Len(s) + j
    OBVIOUS
  <2>1. i - Len(s) \in 1 .. Len(u) /\ i = Len(s) + (i - Len(s))
    BY <1>2, <1>3
  <2> QED BY <2>1
<1> QED BY <1>2, <1>3, <1>4, <1>5, <1>6 DEF JoinedAnswers, Answers, z

\* A frame is taken out of those on their way.
LEMMA AnswersLeft ==
  \A s \in Seq(Wire) : \A p \in 1 .. Len(s) : \A i \in Answers(RemoveAt(s, p)) :
     \E j \in Answers(s) \ {p} : RemoveAt(s, p)[i] = s[j] /\ j = IF i < p THEN i ELSE i + 1
<1> SUFFICES ASSUME NEW s \in Seq(Wire), NEW p \in 1 .. Len(s), NEW i \in Answers(RemoveAt(s, p))
             PROVE  \E j \in Answers(s) \ {p} : RemoveAt(s, p)[i] = s[j] /\ j = IF i < p THEN i ELSE i + 1
  OBVIOUS
<1> DEFINE t == RemoveAt(s, p)
           j == IF i < p THEN i ELSE i + 1
<1>1. /\ t \in Seq(Wire) /\ Len(t) = Len(s) - 1
      /\ \A k \in 1 .. Len(s) - 1 : t[k] = s[IF k < p THEN k ELSE k + 1]
  BY Removed
<1>2. DOMAIN t = 1 .. Len(s) - 1 /\ DOMAIN s = 1 .. Len(s) /\ Len(s) \in Nat
  BY <1>1, LenProperties
<1>3. i \in DOMAIN t /\ Answer(t[i])
  BY DEF Answers
<1> HIDE DEF t
<1>4. t[i] = s[j] /\ j \in 1 .. Len(s) /\ j # p
  BY <1>1, <1>2, <1>3
<1>5. j \in Answers(s) \ {p}
  BY <1>2, <1>3, <1>4 DEF Answers
<1> QED BY <1>4, <1>5 DEF t

\* The answers that a request adds to those on their way.
Answering(s, b, b2, c, r) ==
    /\ r.id \in DOMAIN AnswerTo => OneAnswer(s, {AnswerTo[r.id]})
    /\ r.id = "basic.get" => OneAnswer(s, {"basic.get-ok", "basic.get-empty"})
    /\ r.id = "basic.publish" => PublishAnswers(s, b.sent + 1, b2)
    /\ r.id \in {"basic.ack", "channel.close-ok"} => Answers(s) = {}
    /\ r.id = "basic.cancel" /\ Answers(s) # {} => b2.consumers[c] \subseteq b.consumers[c] \ {r.tag}
    /\ b2.consumers[c] \subseteq b.consumers[c] \cup {r.tag}
    /\ r.id # "basic.consume" => b2.consumers[c] \subseteq b.consumers[c]

\* Headers, bodies, deliveries and the close of the channel are no answers.
LEMMA AnswerFrames ==
  /\ \A m, n : ~Answer(Header(m, n))
  /\ \A m, n : ~Answer(Body(m, n))
  /\ \A id, tag, m : Answer(Method(id, tag, m)) <=> id \notin {"basic.deliver", "channel.close"}
  /\ \A f : IsClose(f) => ~Answer(f)
<1>1. \A m, n : ~Answer(Header(m, n))
  BY DEF Answer, Header
<1>2. \A m, n : ~Answer(Body(m, n))
  BY DEF Answer, Body
<1>3. \A id, tag, m : Answer(Method(id, tag, m)) <=> id \notin {"basic.deliver", "channel.close"}
  BY DEF Answer, Method
<1>4. \A f : IsClose(f) => ~Answer(f)
  BY DEF Answer, IsClose
<1> QED BY <1>1, <1>2, <1>3, <1>4

\* Frames of a content are no answers.
LEMMA ContentAnswers ==
  ASSUME NEW id \in MethodIds, NEW tag \in Tags \cup {NoTag}, NEW m \in Nat, NEW n \in Nat,
         NEW u, NEW v, Framed(u, v, id, tag, m, n)
  PROVE  /\ Answers(u) \subseteq {1} /\ Answers(v) \subseteq {1, n + 3}
         /\ id = "basic.deliver" => Answers(u) = {}
         /\ id \notin {"basic.deliver", "channel.close"} => 1 \in Answers(v)
         /\ n + 3 \in Answers(v)
<1>1. /\ DOMAIN u = 1 .. n + 2 /\ DOMAIN v = 1 .. n + 3
  BY LenProperties DEF Framed
<1>2. \A i \in 1 .. n + 2 : i # 1 => ~Answer(u[i])
  <2> SUFFICES ASSUME NEW i \in 1 .. n + 2, i # 1 PROVE ~Answer(u[i])
    OBVIOUS
  <2>1. CASE i = 2
    BY <2>1, AnswerFrames DEF Framed
  <2>2. CASE i # 2
    <3>1. i - 2 \in 1 .. n /\ (i - 2) + 2 = i
      BY <2>2
    <3>2. u[i] = Body(m, i - 2)
      BY <3>1 DEF Framed
    <3> QED BY <3>2, AnswerFrames
  <2> QED BY <2>1, <2>2
<1>3. \A i \in 1 .. n + 3 : i \in 1 .. n + 2 \/ i = n + 3
  OBVIOUS
<1>4. /\ u[1] = Method(id, tag, m) /\ v[1] = Method(id, tag, m) /\ v[n + 3] = Method("basic.ack", NoTag, m)
      /\ \A i \in 1 .. n + 2 : v[i] = u[i]
  BY DEF Framed
<1>5. /\ id = "basic.deliver" => ~Answer(u[1])
      /\ id \notin {"basic.deliver", "channel.close"} => Answer(v[1])
      /\ Answer(v[n + 3])
  BY <1>4, AnswerFrames
<1>6. 1 \in 1 .. n + 3 /\ n + 3 \in 1 .. n + 3
  OBVIOUS
<1> QED BY <1>1, <1>2, <1>3, <1>4, <1>5, <1>6 DEF Answers

\* One frame that is an answer, behind frames that are none.
LEMMA SingleAnswer ==
  ASSUME NEW s \in Seq(Wire), Answers(s) = {}, NEW f \in Wire
  PROVE  /\ s \o <<f>> \in Seq(Wire)
         /\ \A i, j \in Answers(s \o <<f>>) : i = j
         /\ \A i \in Answers(s \o <<f>>) : (s \o <<f>>)[i] = f
         /\ ~Answer(f) => Answers(s \o <<f>>) = {}
<1>1. <<f>> \in Seq(Wire) /\ DOMAIN <<f>> = {1} /\ <<f>>[1] = f
  OBVIOUS
<1> DEFINE u == <<f>>
<1>2. u \in Seq(Wire) /\ \A j \in Answers(u) : j = 1 /\ u[j] = f /\ Answer(f)
  BY <1>1 DEF Answers
<1> HIDE DEF u
<1>3. JoinedAnswers(s, u)
  BY <1>2, AnswersJoined
<1>4. \A i \in Answers(s \o u) : i = Len(s) + 1 /\ (s \o u)[i] = f /\ Answer(f)
  BY <1>2, <1>3 DEF JoinedAnswers
<1> QED BY <1>3, <1>4 DEF u, JoinedAnswers

\* A request on a channel with no answer on its way (Serve).
LEMMA ServedAnswers ==
  ASSUME NEW b \in Brokers, b.returned \subseteq 1 .. b.sent, NEW c \in Ids \ {0}, NEW r \in Requests, NEW b2,
         Served(b, b2, c, r), NEW x \in Seq(Wire), Answers(x \o b.out[c]) = {}
  PROVE  Answering(x \o b2.out[c], b, b2, c, r)
<1> DEFINE s == x \o b.out[c]
           s2 == x \o b2.out[c]
           m == b.sent + 1
<1>0. /\ b.out[c] \in Seq(Wire) /\ s \in Seq(Wire) /\ Answers(s) = {} /\ m \in Nat /\ b.sent \in Nat
  <2>1. b.out[c] \in Seq(Wire) /\ b.sent \in Nat
    BY DEF Brokers
  <2> QED BY <2>1, ConcatProperties
<1>1. ASSUME Answers(s2) = {}, b2.consumers[c] \subseteq b.consumers[c]
      PROVE  Answering(s2, b, b2, c, r)
  <2> HIDE DEF s2
  <2> QED BY <1>1 DEF Answering, OneAnswer, PublishAnswers
<1>2. CASE Silent(b, b2, c, r)
  BY <1>0, <1>1, <1>2 DEF Silent
<1>3. CASE Closes(b, b2, c)
  <2> DEFINE f == Plain("channel.close")
  <2>1. f \in Wire /\ ~Answer(f)
    BY FrameTypes, AnswerFrames DEF Plain, MethodIds
  <2> HIDE DEF f
  <2>2. s2 = s \o <<f>>
    <3>1. <<f>> \in Seq(Wire) /\ s2 = x \o (b.out[c] \o <<f>>)
      BY <1>3, <2>1 DEF Closes, f
    <3> QED BY <1>0, <3>1, Associated
  <2>3. Answers(s2) = {}
    <3> HIDE DEF s, s2
    <3> QED BY <1>0, <2>1, <2>2, SingleAnswer
  <2> QED BY <1>1, <1>3, <2>3 DEF Closes
<1>4. ASSUME NEW u \in Seq(Wire), Replied(b, b2, c, r, u)
      PROVE  Answering(s2, b, b2, c, r)
  <2>1. s2 = s \o u /\ s2 \in Seq(Wire)
    <3>1. s2 = x \o (b.out[c] \o u)
      BY <1>4 DEF Replied
    <3>2. s2 = s \o u
      BY <1>0, <3>1, Associated
    <3> QED BY <1>0, <3>2, ConcatProperties
  <2> HIDE DEF s, s2
  <2>2. JoinedAnswers(s, u)
    BY <1>0, AnswersJoined
  <2>3. /\ b2.consumers[c] \subseteq b.consumers[c] \cup {r.tag}
        /\ r.id # "basic.consume" => b2.consumers[c] \subseteq b.consumers[c]
        /\ r.id = "basic.cancel" => b2.consumers[c] \subseteq b.consumers[c] \ {r.tag}
    BY <1>4 DEF Replied
  <2>4. CASE r.id \in DOMAIN AnswerTo /\ u = <<Plain(AnswerTo[r.id])>>
    <3> DEFINE f == Plain(AnswerTo[r.id])
    <3>1. AnswerTo[r.id] \in MethodIds
      BY <2>4 DEF AnswerTo, MethodIds
    <3>2. f \in Wire /\ f.id = AnswerTo[r.id]
      BY <3>1, FrameTypes DEF Plain, Method
    <3>3. u = <<f>>
      BY <2>4
    <3> HIDE DEF f
    <3>4. /\ \A i, j \in Answers(s2) : i = j
          /\ \A i \in Answers(s2) : s2[i] = f
      BY <1>0, <2>1, <3>2, <3>3, SingleAnswer
    <3>5. OneAnswer(s2, {AnswerTo[r.id]})
      BY <3>2, <3>4 DEF OneAnswer
    <3>6. r.id \notin {"basic.get", "basic.publish", "basic.ack", "channel.close-ok"}
      BY <2>4 DEF AnswerTo
    <3> QED BY <2>3, <3>5, <3>6 DEF Answering
  <2>5. CASE r.id = "basic.get"
    <3>1. /\ \A i, j \in Answers(s2) : i = j
          /\ \A i \in Answers(s2) : s2[i].id \in {"basic.get-ok", "basic.get-empty"}
      <4>1. CASE u = <<Plain("basic.get-empty")>>
        <5> DEFINE f == Plain("basic.get-empty")
        <5>1. f \in Wire /\ f.id = "basic.get-empty"
          BY FrameTypes DEF Plain, Method, MethodIds
        <5>2. s2 = s \o <<f>>
          BY <2>1, <4>1
        <5> HIDE DEF f
        <5> QED BY <1>0, <5>1, <5>2, SingleAnswer
      <4>2. ASSUME NEW mm \in Nat, NEW n \in Nat, u = <<Method("basic.get-ok", NoTag, mm)>> \o Content(mm, n)
            PROVE  /\ \A i, j \in Answers(s2) : i = j
                   /\ \A i \in Answers(s2) : s2[i].id \in {"basic.get-ok", "basic.get-empty"}
        <5> DEFINE v == u \o <<Method("basic.ack", NoTag, mm)>>
        <5>1. "basic.get-ok" \in MethodIds /\ NoTag \in Tags \cup {NoTag}
          BY DEF MethodIds
        <5>2. Framed(u, v, "basic.get-ok", NoTag, mm, n)
          BY <4>2, <5>1, MessageParts
        <5> HIDE DEF v
        <5>3. Answers(u) \subseteq {1} /\ u[1].id = "basic.get-ok"
          <6>1. Answers(u) \subseteq {1}
            BY <5>1, <5>2, ContentAnswers
          <6> QED BY <5>2, <6>1 DEF Framed, Method
        <5>4. \A i \in Answers(s2) : \E j \in Answers(u) : i = Len(s) + j /\ s2[i] = u[j]
          BY <1>0, <2>1, <2>2 DEF JoinedAnswers
        <5>5. \A i \in Answers(s2) : i = Len(s) + 1 /\ s2[i] = u[1]
          BY <5>3, <5>4
        <5> QED BY <5>3, <5>5
      <4> QED BY <1>4, <2>5, <4>1, <4>2 DEF Replied, AnswerTo
    <3>2. OneAnswer(s2, {"basic.get-ok", "basic.get-empty"})
      BY <3>1 DEF OneAnswer
    <3>3. r.id \notin DOMAIN AnswerTo
      BY <2>5 DEF AnswerTo
    <3> QED BY <2>3, <2>5, <3>2, <3>3 DEF Answering
  <2>6. CASE r.id = "basic.publish"
    <3>0. r.id \notin DOMAIN AnswerTo
      BY <2>6 DEF AnswerTo
    <3>1. /\ b2.sent = m
          /\ \/ /\ \E id \in {"basic.ack", "basic.nack"} : u = <<Method(id, NoTag, m)>>
                /\ b2.returned = b.returned
             \/ /\ \E n \in Nat : u = <<Method("basic.return", NoTag, m)>> \o Content(m, n)
                                        \o <<Method("basic.ack", NoTag, m)>>
                /\ b2.returned = b.returned \cup {m}
      BY <1>4, <2>6, <3>0 DEF Replied
    <3>2. m \notin b.returned
      BY <1>0
    <3> HIDE DEF m
    <3>3. CASE (\E id \in {"basic.ack", "basic.nack"} : u = <<Method(id, NoTag, m)>>) /\ b2.returned = b.returned
      <4>1. PICK id \in {"basic.ack", "basic.nack"} : u = <<Method(id, NoTag, m)>>
        BY <3>3
      <4> DEFINE f == Method(id, NoTag, m)
      <4>2. f \in Wire /\ f.id = id /\ f.msg = m
        BY <1>0, FrameTypes DEF Method, MethodIds
      <4>3. s2 = s \o <<f>>
        BY <2>1, <4>1
      <4> HIDE DEF f
      <4>4. /\ \A i, j \in Answers(s2) : i = j
            /\ \A i \in Answers(s2) : s2[i] = f
        BY <1>0, <4>2, <4>3, SingleAnswer
      <4>5. PublishAnswers(s2, m, b2)
        BY <1>0, <3>1, <3>2, <3>3, <4>2, <4>4 DEF PublishAnswers
      <4> QED BY <2>3, <2>6, <3>0, <4>5 DEF Answering, m
    <3>4. CASE /\ \E n \in Nat : u = <<Method("basic.return", NoTag, m)>> \o Content(m, n)
                                        \o <<Method("basic.ack", NoTag, m)>>
               /\ b2.returned = b.returned \cup {m}
      <4>1. PICK n \in Nat : u = <<Method("basic.return", NoTag, m)>> \o Content(m, n)
                                        \o <<Method("basic.ack", NoTag, m)>>
        BY <3>4
      <4> DEFINE w == <<Method("basic.return", NoTag, m)>> \o Content(m, n)
      <4>2. "basic.return" \in MethodIds /\ NoTag \in Tags \cup {NoTag}
        BY DEF MethodIds
      <4>3. Framed(w, u, "basic.return", NoTag, m, n)
        BY <1>0, <4>1, <4>2, MessageParts
      <4> HIDE DEF w
      <4>4. /\ Answers(u) \subseteq {1, n + 3} /\ 1 \in Answers(u) /\ n + 3 \in Answers(u)
        BY <1>0, <4>2, <4>3, ContentAnswers
      <4>5. u[1] = Method("basic.return", NoTag, m) /\ u[n + 3] = Method("basic.ack", NoTag, m)
        BY <1>0, <4>3 DEF Framed
      <4>6. /\ u[1].id = "basic.return" /\ u[1].msg = m /\ u[n + 3].id = "basic.ack" /\ u[n + 3].msg = m
        BY <4>5 DEF Method
      <4> DEFINE y == Len(s) + 1
                 z == Len(s) + (n + 3)
      <4>7. /\ Answers(s2) \subseteq {y, z} /\ y \in Answers(s2) /\ y < z
            /\ s2[y].id = "basic.return" /\ s2[y].msg = m /\ s2[z].id = "basic.ack" /\ s2[z].msg = m
        <5>1. Len(s) \in Nat
          BY <1>0, LenProperties
        <5>2. \A i \in Answers(s2) : \E j \in Answers(u) : i = Len(s) + j /\ s2[i] = u[j]
          BY <1>0, <2>1, <2>2 DEF JoinedAnswers
        <5>3. \A j \in Answers(u) : Len(s) + j \in Answers(s2) /\ s2[Len(s) + j] = u[j]
          BY <2>1, <2>2 DEF JoinedAnswers
        <5>4. y \in Answers(s2) /\ s2[y] = u[1] /\ s2[z] = u[n + 3]
          BY <4>4, <5>3
        <5>5. Answers(s2) \subseteq {y, z}
          BY <4>4, <5>2
        <5>6. y < z
          BY <5>1
        <5> QED BY <4>6, <5>4, <5>5, <5>6
      <4> HIDE DEF y, z
      <4>8. PublishAnswers(s2, m, b2)
        <5>1. \A i, j \in Answers(s2) : s2[i].id = "basic.return" /\ s2[j].id # "basic.return" => i = y /\ j = z
          BY <4>7
        <5>2. \A i, j \in Answers(s2) : s2[i].id = s2[j].id \/ s2[i].id = "basic.nack" => i = j
          BY <4>7
        <5>3. \A i \in Answers(s2) : s2[i].id \in {"basic.ack", "basic.nack", "basic.return"} /\ s2[i].msg = m
          BY <4>7
        <5>4. m <= b2.sent /\ m \in b2.returned /\ \E i \in Answers(s2) : s2[i].id = "basic.return"
          BY <1>0, <3>1, <3>4, <4>7
        <5> QED BY <4>7, <5>1, <5>2, <5>3, <5>4 DEF PublishAnswers
      <4> QED BY <2>3, <2>6, <3>0, <4>8 DEF Answering, m
    <3> QED BY <3>1, <3>3, <3>4
  <2> QED BY <1>4, <2>4, <2>5, <2>6 DEF Replied
<1> QED BY <1>2, <1>3, <1>4 DEF Served

\* Nothing changes on the channels other than c.
OnlyOn(c) ==
    \A d \in Ids \ {0, c} :
        /\ broker'.consumers[d] = broker.consumers[d]
        /\ d \in DOMAIN m_open_channels' =>
              d \in DOMAIN m_open_channels /\ Flow(m_open_channels', broker', d) = Stream(d)

\* A step on channel c keeps AnswerInv if it leaves c to whom it says.
LEMMA AnswersStep ==
  ASSUME Base, Base', AnswerInv, NEW c \in Ids \ {0}, OnlyOn(c), m_is_connected' => m_is_connected,
         Busy => call.ch = c \/ call' = call,
         \A i \in DOMAIN m_free_channels' :
            m_free_channels'[i] = c \/ \E j \in DOMAIN m_free_channels : m_free_channels'[i] = m_free_channels[j],
         \A t \in DOMAIN m_consumer_channel_map' :
            \/ m_consumer_channel_map'[t] = c
            \/ t \in DOMAIN m_consumer_channel_map /\ m_consumer_channel_map'[t] = m_consumer_channel_map[t],
         \A i \in DOMAIN m_free_channels' : m_free_channels'[i] = c =>
            Answers(Flow(m_open_channels', broker', c)) = {} /\ broker'.consumers[c] = {},
         \A t \in DOMAIN m_consumer_channel_map' : m_consumer_channel_map'[t] = c =>
            /\ broker'.consumers[c] \subseteq {t}
            /\ m_is_connected' /\ c \in DOMAIN m_open_channels' /\ ~(Busy' /\ c = call'.ch) =>
                  Answers(Flow(m_open_channels', broker', c)) = {},
         Busy' => Awaits(Flow(m_open_channels', broker', call'.ch), call', broker')
  PROVE  AnswerInv'
<1>1. \A i \in DOMAIN m_free_channels' :
          /\ Answers(Flow(m_open_channels', broker', m_free_channels'[i])) = {}
          /\ broker'.consumers[m_free_channels'[i]] = {}
  <2> SUFFICES ASSUME NEW i \in DOMAIN m_free_channels', m_free_channels'[i] # c
               PROVE  /\ Answers(Flow(m_open_channels', broker', m_free_channels'[i])) = {}
                      /\ broker'.consumers[m_free_channels'[i]] = {}
    OBVIOUS
  <2> DEFINE d == m_free_channels'[i]
  <2>1. d \in DOMAIN m_open_channels' /\ d \in Ids \ {0, c}
    BY DEF Base, ChannelInv, TypeInv
  <2>2. PICK j \in DOMAIN m_free_channels : d = m_free_channels[j]
    OBVIOUS
  <2>3. Answers(Stream(d)) = {} /\ broker.consumers[d] = {}
    BY <2>2 DEF AnswerInv
  <2> HIDE DEF d
  <2>4. Flow(m_open_channels', broker', d) = Stream(d) /\ broker'.consumers[d] = broker.consumers[d]
    BY <2>1 DEF OnlyOn
  <2> QED BY <2>3, <2>4 DEF d
<1>2. \A t \in DOMAIN m_consumer_channel_map' :
          /\ broker'.consumers[m_consumer_channel_map'[t]] \subseteq {t}
          /\ /\ m_is_connected' /\ m_consumer_channel_map'[t] \in DOMAIN m_open_channels'
             /\ ~(Busy' /\ m_consumer_channel_map'[t] = call'.ch)
             => Answers(Flow(m_open_channels', broker', m_consumer_channel_map'[t])) = {}
  <2> SUFFICES ASSUME NEW t \in DOMAIN m_consumer_channel_map', m_consumer_channel_map'[t] # c
               PROVE  /\ broker'.consumers[m_consumer_channel_map'[t]] \subseteq {t}
                      /\ /\ m_is_connected' /\ m_consumer_channel_map'[t] \in DOMAIN m_open_channels'
                         /\ ~(Busy' /\ m_consumer_channel_map'[t] = call'.ch)
                         => Answers(Flow(m_open_channels', broker', m_consumer_channel_map'[t])) = {}
    OBVIOUS
  <2> DEFINE d == m_consumer_channel_map'[t]
  <2>1. t \in DOMAIN m_consumer_channel_map /\ d = m_consumer_channel_map[t]
    OBVIOUS
  <2>2. d \in Ids /\ d \in 2 .. m_next_channel_id /\ m_next_channel_id \in Ids
    BY <2>1 DEF Base, ChannelInv, TypeInv
  <2>3. d \in Ids \ {0, c}
    BY <2>2
  <2>4. /\ broker.consumers[d] \subseteq {t}
        /\ m_is_connected /\ d \in DOMAIN m_open_channels /\ ~(Busy /\ d = call.ch) => Answers(Stream(d)) = {}
    BY <2>1 DEF AnswerInv
  <2> HIDE DEF d
  <2>5. broker'.consumers[d] = broker.consumers[d]
        /\ (d \in DOMAIN m_open_channels' =>
              d \in DOMAIN m_open_channels /\ Flow(m_open_channels', broker', d) = Stream(d))
    BY <2>3 DEF OnlyOn
  <2>6. Busy /\ d = call.ch => Busy' /\ d = call'.ch
    BY <2>3 DEF Busy
  <2>7. m_is_connected' /\ d \in DOMAIN m_open_channels' /\ ~(Busy' /\ d = call'.ch) =>
           Answers(Flow(m_open_channels', broker', d)) = {}
    BY <2>4, <2>5, <2>6
  <2> QED BY <2>4, <2>5, <2>7 DEF d
<1> QED BY <1>1, <1>2 DEF AnswerInv, Stream

\* What a call awaits does not change with frames that are no answers.
LEMMA AwaitsKept ==
  ASSUME NEW s, NEW s2, NEW k, NEW b \in Brokers, NEW b2 \in Brokers, Awaits(s, k, b), k.ch \in Ids, k.pub \in Nat,
         Answers(s2) = Answers(s), \A i \in Answers(s) : s2[i] = s[i],
         b2.consumers[k.ch] = b.consumers[k.ch], b2.returned = b.returned, b.sent <= b2.sent
  PROVE  Awaits(s2, k, b2)
<1>1. \A ids : OneAnswer(s, ids) => OneAnswer(s2, ids)
  BY DEF OneAnswer
<1>2. Confirmed(s, k.pub, b) => Confirmed(s2, k.pub, b2)
  BY <1>1 DEF Confirmed
<1>3. PublishAnswers(s, k.pub, b) => PublishAnswers(s2, k.pub, b2)
  <2>1. b.sent \in Nat /\ b2.sent \in Nat
    BY DEF Brokers
  <2>2. k.pub <= b.sent => k.pub <= b2.sent
    BY <2>1
  <2> QED BY <2>2 DEF PublishAnswers
<1> QED BY <1>1, <1>2, <1>3 DEF Awaits

\* A step that changes no channel (FrameQueued, ForceClose).
LEMMA SameStreams ==
  ASSUME Base, Base', AnswerInv, UNCHANGED <<m_free_channels, m_consumer_channel_map, m_is_connected, call>>,
         DOMAIN m_open_channels' = DOMAIN m_open_channels,
         \A d \in DOMAIN m_open_channels \ {0} : Flow(m_open_channels', broker', d) = Stream(d),
         \A d \in Ids \ {0} : broker'.consumers[d] = broker.consumers[d],
         broker'.returned = broker.returned, broker.sent <= broker'.sent
  PROVE  AnswerInv'
<1>1. \A d \in Ids \ {0} : OnlyOn(d)
  BY DEF OnlyOn
<1>2. Busy' <=> Busy
  BY DEF Busy
<1>3. CASE Busy
  <2> DEFINE c == call.ch
  <2>1. c \in DOMAIN m_open_channels \ {0} /\ c \in Ids /\ call \in CallRecords
    BY <1>3 DEF Base, ChannelInv, TypeInv
  <2>2. Flow(m_open_channels', broker', c) = Stream(c) /\ broker'.consumers[c] = broker.consumers[c]
    BY <2>1
  <2>3. Awaits(Stream(c), call, broker)
    BY <1>3 DEF AnswerInv
  <2>4. broker \in Brokers /\ broker' \in Brokers /\ call.pub \in Nat
    BY <2>1 DEF Base, TypeInv, CallRecords
  <2>5. Awaits(Flow(m_open_channels', broker', c), call, broker')
    BY <2>1, <2>2, <2>3, <2>4, AwaitsKept
  <2>6. \A i \in DOMAIN m_free_channels' : m_free_channels'[i] # c
    BY <1>3 DEF Base, ChannelInv
  <2>7. \A t \in DOMAIN m_consumer_channel_map' : m_consumer_channel_map'[t] = c => broker'.consumers[c] \subseteq {t}
    BY <2>2 DEF AnswerInv
  <2>8. OnlyOn(c) /\ call'.ch = c /\ Busy'
    BY <1>1, <1>2, <1>3, <2>1
  <2> QED BY <2>1, <2>5, <2>6, <2>7, <2>8, AnswersStep
<1>4. CASE ~Busy
  <2>1. \A i \in DOMAIN m_free_channels :
           /\ m_free_channels[i] \in DOMAIN m_open_channels \ {0} /\ m_free_channels[i] \in Ids
           /\ Answers(Stream(m_free_channels[i])) = {} /\ broker.consumers[m_free_channels[i]] = {}
    BY DEF AnswerInv, Base, ChannelInv, TypeInv
  <2>2. \A t \in DOMAIN m_consumer_channel_map :
           /\ m_consumer_channel_map[t] \in Ids \ {0}
           /\ broker.consumers[m_consumer_channel_map[t]] \subseteq {t}
           /\ m_is_connected /\ m_consumer_channel_map[t] \in DOMAIN m_open_channels =>
                 Answers(Stream(m_consumer_channel_map[t])) = {}
    BY <1>4 DEF AnswerInv, Base, ChannelInv, TypeInv
  <2> QED BY <1>2, <1>4, <2>1, <2>2 DEF AnswerInv, Stream
<1> QED BY <1>3, <1>4

\* A call has sent its first request on a channel with no answer on its way.
LEMMA EnterAwaits ==
  ASSUME NEW b \in Brokers, b.returned \subseteq 1 .. b.sent, NEW k, NEW q, k.op \in Ops \ {"BasicConsumeMessage"},
         k.ch \in Ids \ {0}, k.tag \in Tags \cup {NoTag}, Entered(b, k, q), NEW x \in Seq(Wire),
         Answers(x \o b.out[k.ch]) = {},
         k.op \in {"DoRpc", "BasicPublish", "BasicGet"} => b.consumers[k.ch] = {},
         b.consumers[k.ch] \subseteq {k.tag}
  PROVE  Awaits(x \o broker'.out[k.ch], call', broker')
<1> DEFINE r == FirstRequest(k.op, k.tag)
           s == x \o broker'.out[k.ch]
           c == k.ch
<1>1. /\ r \in Requests
      /\ r.id \notin {"channel.open", "channel.close-ok", "basic.consume", "confirm.select", "basic.ack"}
      /\ r.id = "declare" <=> k.op = "DoRpc"
      /\ r.id = "basic.publish" <=> k.op = "BasicPublish"
      /\ r.id = "basic.get" <=> k.op = "BasicGet"
      /\ r.id = "basic.qos" <=> k.op \in {"BasicConsume", "BasicQos"}
      /\ r.id = "basic.recover" <=> k.op = "BasicRecover"
      /\ r.id = "basic.cancel" <=> k.op = "BasicCancel"
      /\ k.op = "BasicCancel" => r.tag = k.tag
  BY FirstRequests
<1> HIDE DEF r
<1>2. Served(b, broker', c, r)
  BY DEF Entered, r
<1>3. Answering(s, b, broker', c, r)
  BY <1>1, <1>2, ServedAnswers
<1>4. /\ call'.op = k.op /\ call'.tag = k.tag /\ call'.ch = c
      /\ call'.stage = IF k.op = "BasicConsume" THEN "qos" ELSE "reply"
      /\ call'.pub = IF k.op = "BasicPublish" THEN b.sent + 1 ELSE 0
  BY DEF Entered
<1> HIDE DEF s
<1>5. broker'.consumers[c] \subseteq b.consumers[c]
  BY <1>1, <1>3 DEF Answering
<1>6. ~Confirming(call') /\ (Publishing(call') <=> k.op = "BasicPublish") /\ call'.stage \notin ContentStages
  BY <1>4 DEF Confirming, Publishing, ContentStages
<1> SUFFICES Awaits(s, call', broker')
  BY DEF s
<1>7. CASE k.op = "BasicPublish"
  BY <1>1, <1>3, <1>4, <1>5, <1>6, <1>7 DEF Awaits, Answering
<1>8. CASE k.op # "BasicPublish"
  <2>1. OneAnswer(s, Expected(call'))
    <3>1. CASE k.op \in {"DoRpc", "BasicRecover", "BasicConsume", "BasicQos", "BasicCancel"}
      <4>1. r.id \in DOMAIN AnswerTo /\ Expected(call') = {AnswerTo[r.id]}
        BY <1>1, <1>4, <3>1 DEF AnswerTo, Expected, Responses, Prelude
      <4> QED BY <1>3, <4>1 DEF Answering
    <3>2. CASE k.op = "BasicGet"
      <4>1. Expected(call') = {"basic.get-ok", "basic.get-empty"}
        BY <1>4, <3>2 DEF Expected, Responses
      <4> QED BY <1>1, <1>3, <3>2, <4>1 DEF Answering
    <3> QED BY <1>8, <3>1, <3>2 DEF Ops, Responses
  <2>2. k.op = "BasicCancel" /\ Answers(s) # {} => broker'.consumers[c] = {}
    BY <1>1, <1>3 DEF Answering
  <2> QED BY <1>4, <1>5, <1>6, <1>8, <2>1, <2>2 DEF Awaits
<1> QED BY <1>7, <1>8

\* Messages are counted, and published ones do not come back later.
Counts(b, b2) ==
    \/ b2.returned = b.returned /\ b.sent <= b2.sent
    \/ b2.returned = b.returned \cup {b.sent + 1} /\ b2.sent = b.sent + 1

\* Serving a request counts at most one message as returned, a new one (Serve).
LEMMA ServedCounts ==
  ASSUME NEW b, NEW b2, NEW c, NEW r, Served(b, b2, c, r)
  PROVE  Counts(b, b2)
<1>1. b.sent <= b2.sent
  BY DEF Served, OtherChannels
<1> QED BY <1>1 DEF Served, Silent, Closes, Replied, Counts

\* The outcomes of earlier calls stay true.
LEMMA PublishKept ==
  ASSUME PublishInv, broker \in Brokers, broker' \in Brokers, Counts(broker, broker'), outcomes' = outcomes
  PROVE  PublishInv'
<1>1. broker.sent \in Nat /\ broker'.sent \in Nat /\ broker.sent <= broker'.sent
  BY DEF Brokers, Counts
<1>2. broker'.returned \subseteq 1 .. broker'.sent
  BY <1>1 DEF PublishInv, Counts
<1>3. \A o \in outcomes : /\ o.pub \in Nat /\ o.pub <= broker'.sent /\ o.ack = o.pub
                          /\ o.returned <=> o.pub \in broker'.returned
  BY <1>1 DEF PublishInv, Counts
<1> QED BY <1>2, <1>3 DEF PublishInv

\* A request on channel c touches no other channel, if the queues stay (Serve).
LEMMA ServedOnly ==
  ASSUME Base, NEW b, b.consumers = broker.consumers, NEW c \in Ids \ {0}, NEW r, Served(b, broker', c, r),
         \A d \in Ids \ {0, c} : b.out[d] = broker.out[d],
         \A d \in DOMAIN m_open_channels' \ {0, c} :
            d \in DOMAIN m_open_channels /\ m_open_channels'[d] = m_open_channels[d]
  PROVE  OnlyOn(c)
<1>1. \A d \in Ids \ {0, c} : broker'.out[d] = b.out[d] /\ broker'.consumers[d] = b.consumers[d]
  BY DEF Served, OtherChannels
<1> QED BY <1>1 DEF OnlyOn, Flow, Stream

\* BasicConsumeMessage starts to listen.
LEMMA ConsumeMessageAnswers ==
  ASSUME Base, Base', AnswerInv, NEW tag \in Tags, BasicConsumeMessage(tag)
  PROVE  AnswerInv'
<1> DEFINE c == m_consumer_channel_map[tag]
<1>1. /\ ~Busy /\ m_is_connected /\ tag \in DOMAIN m_consumer_channel_map /\ c \in DOMAIN m_open_channels
      /\ UNCHANGED <<m_open_channels, m_free_channels, m_consumer_channel_map, m_is_connected, broker>>
  BY DEF BasicConsumeMessage, Idle, Busy, impl
<1>2. call'.op = "BasicConsumeMessage" /\ call'.tag = tag /\ call'.ch = c /\ call'.stage = "reply"
  BY DEF BasicConsumeMessage, NoCall
<1>3. c \in Ids \ {0}
  BY <1>1 DEF Base, TypeInv, ChannelInv
<1>4. Answers(Stream(c)) = {} /\ broker.consumers[c] \subseteq {tag}
  BY <1>1 DEF AnswerInv
<1> HIDE DEF c
<1>5. Awaits(Stream(c), call', broker)
  BY <1>2, <1>4 DEF Awaits, Publishing, Confirming, ContentStages, OneAnswer
<1>6. OnlyOn(c)
  BY <1>1, <1>3 DEF OnlyOn, Stream
<1>7. Flow(m_open_channels', broker', c) = Stream(c)
  BY <1>1 DEF Stream
<1>8. Busy'
  BY <1>2 DEF Busy
<1>9. \A i \in DOMAIN m_free_channels' : m_free_channels'[i] # c
  BY <1>2, <1>8 DEF Base, ChannelInv
<1>10. \A t \in DOMAIN m_consumer_channel_map' : m_consumer_channel_map'[t] = c => broker'.consumers[c] \subseteq {t}
  BY <1>1 DEF AnswerInv
<1> QED BY <1>1, <1>2, <1>3, <1>5, <1>6, <1>7, <1>8, <1>9, <1>10, AnswersStep

\* A consumer's call starts (ConsumerCall).
LEMMA ConsumerCallAnswers ==
  ASSUME Base, AnswerInv, PublishInv, NEW op \in {"BasicRecover", "BasicQos", "BasicCancel"}, NEW tag \in Tags,
         ConsumerCall(op, tag)
  PROVE  AnswerInv' /\ PublishInv'
<1> DEFINE c == ConsumersChannel(tag)
           k == [NoCall EXCEPT !.op = op, !.tag = tag, !.ch = c]
<1>1. /\ Base' /\ UNCHANGED <<m_open_channels, impl, envelopes, outcomes>>
      /\ ~Busy /\ tag \in DOMAIN m_consumer_channel_map /\ c \in Ids \ {0}
      /\ \/ /\ c \in DOMAIN m_open_channels
            /\ Entered(broker, k, m_open_channels)
         \/ /\ c \notin DOMAIN m_open_channels /\ call' = call
            /\ Served(broker, broker', c, FirstRequest(op, tag))
  BY ConsumerCallBase
<1>2. m_is_connected /\ c = m_consumer_channel_map[tag] /\ broker \in Brokers /\ broker' \in Brokers
  BY <1>1 DEF ConsumerCall, Idle, ConsumersChannel, Base, TypeInv
<1>3. /\ broker.consumers[c] \subseteq {tag}
      /\ c \in DOMAIN m_open_channels => Answers(Stream(c)) = {}
  BY <1>1, <1>2 DEF AnswerInv
<1>4. k.op = op /\ k.tag = tag /\ k.ch = c /\ op \in Ops \ {"BasicConsumeMessage"} /\ op \notin {"DoRpc", "BasicPublish", "BasicGet"}
  BY DEF NoCall, Ops, Responses
<1> HIDE DEF k, c
<1>5. Served(broker, broker', c, FirstRequest(op, tag))
  BY <1>1, <1>4 DEF Entered
<1>6. PublishInv'
  BY <1>1, <1>2, <1>5, ServedCounts, PublishKept
<1>7. OnlyOn(c)
  BY <1>1, <1>5, ServedOnly
<1>8. broker'.consumers[c] \subseteq broker.consumers[c]
  <2>1. FirstRequest(op, tag).id # "basic.consume"
    BY <1>4, FirstRequests
  <2> QED BY <1>5, <2>1 DEF Served, Silent, Closes, Replied
<1>9. \A t \in DOMAIN m_consumer_channel_map' : m_consumer_channel_map'[t] = c => t = tag
  BY <1>1, <1>2 DEF Base, ChannelInv, impl
<1>10. \A i \in DOMAIN m_free_channels' : m_free_channels'[i] # c
  BY <1>1, <1>2 DEF Base, ChannelInv, impl
<1>11. CASE c \in DOMAIN m_open_channels /\ Entered(broker, k, m_open_channels)
  <2> DEFINE x == m_open_channels[c]
  <2>1. x \in Seq(Wire) /\ broker.returned \subseteq 1 .. broker.sent
    BY <1>11 DEF Base, TypeInv, PublishInv
  <2>2. Answers(x \o broker.out[c]) = {}
    BY <1>3, <1>11 DEF Stream, Flow
  <2> HIDE DEF x
  <2>3. Awaits(x \o broker'.out[c], call', broker')
    BY <1>1, <1>2, <1>3, <1>4, <1>11, <2>1, <2>2, EnterAwaits
  <2>4. call'.ch = c /\ call'.op = op
    BY <1>4, <1>11 DEF Entered
  <2>5. Busy'
    BY <1>4, <2>4 DEF Busy, Ops, Responses
  <2>6. Awaits(Flow(m_open_channels', broker', c), call', broker')
    BY <1>1, <2>3 DEF Flow, x
  <2>7. AnswerInv'
    BY <1>1, <1>2, <1>3, <1>7, <1>8, <1>9, <1>10, <2>4, <2>5, <2>6, AnswersStep DEF impl
  <2> QED BY <1>6, <2>7
<1>12. CASE c \notin DOMAIN m_open_channels /\ call' = call
  <2>1. ~Busy'
    BY <1>1, <1>12 DEF Busy
  <2>2. AnswerInv'
    BY <1>1, <1>2, <1>3, <1>7, <1>8, <1>9, <1>10, <1>12, <2>1, AnswersStep DEF impl
  <2> QED BY <1>6, <2>2
<1> QED BY <1>1, <1>11, <1>12

\* A call takes the first free channel (GetChannel).
LEMMA FreeChannelAnswers ==
  ASSUME Base, Base', AnswerInv, PublishInv, Idle, NEW op \in Pooled, NEW tag \in Tags \cup {NoTag},
         m_free_channels # <<>>, m_free_channels' = Tail(m_free_channels),
         Entered(broker, [NoCall EXCEPT !.op = op, !.tag = tag, !.ch = Head(m_free_channels)], m_open_channels),
         UNCHANGED <<m_open_channels, m_next_channel_id, m_consumer_channel_map, m_is_connected, outcomes>>
  PROVE  AnswerInv' /\ PublishInv'
<1> DEFINE c == Head(m_free_channels)
           k == [NoCall EXCEPT !.op = op, !.tag = tag, !.ch = c]
<1>1. /\ c = m_free_channels[1] /\ 1 \in DOMAIN m_free_channels
      /\ \A i \in DOMAIN m_free_channels' : i + 1 \in DOMAIN m_free_channels /\ m_free_channels'[i] = m_free_channels[i + 1]
  <2>1. m_free_channels \in Seq(Ids)
    BY DEF Base, TypeInv
  <2>2. /\ c = m_free_channels[1] /\ m_free_channels' \in Seq(Ids) /\ Len(m_free_channels') = Len(m_free_channels) - 1
        /\ \A i \in 1 .. Len(m_free_channels) - 1 : m_free_channels'[i] = m_free_channels[i + 1]
    BY <2>1, HeadTailProperties
  <2>3. Len(m_free_channels) \in Nat /\ DOMAIN m_free_channels = 1 .. Len(m_free_channels) /\ Len(m_free_channels) # 0
        /\ DOMAIN m_free_channels' = 1 .. Len(m_free_channels) - 1
    BY <2>1, <2>2, LenProperties, EmptySeq
  <2> QED BY <2>2, <2>3
<1>2. /\ c \in DOMAIN m_open_channels \ {0} /\ c \in Ids
      /\ Answers(Stream(c)) = {} /\ broker.consumers[c] = {}
      /\ \A t \in DOMAIN m_consumer_channel_map : m_consumer_channel_map[t] # c
  BY <1>1, SMTT(20) DEF Base, ChannelInv, TypeInv, AnswerInv
<1>3. k.op = op /\ k.tag = tag /\ k.ch = c /\ op \in Ops \ {"BasicConsumeMessage"}
  BY DEF NoCall, Ops, Responses, Pooled
<1>4. Entered(broker, k, m_open_channels)
  OBVIOUS
<1> HIDE DEF k, c
<1>5. ~Busy /\ broker \in Brokers /\ broker' \in Brokers
  BY DEF Idle, Busy, Base, TypeInv
<1>6. Served(broker, broker', c, FirstRequest(op, tag)) /\ call'.ch = c /\ call'.op = op
  BY <1>3, <1>4 DEF Entered
<1>7. PublishInv'
  BY <1>5, <1>6, ServedCounts, PublishKept
<1>8. OnlyOn(c)
  BY <1>2, <1>6, ServedOnly
<1>9. Busy'
  BY <1>3, <1>6 DEF Busy, Ops, Responses
<1>10. \A i \in DOMAIN m_free_channels' : m_free_channels'[i] # c
  BY <1>6, <1>9 DEF Base, ChannelInv
<1> DEFINE x == m_open_channels[c]
<1>11. x \in Seq(Wire) /\ broker.returned \subseteq 1 .. broker.sent /\ Answers(x \o broker.out[c]) = {}
  BY <1>2 DEF Base, TypeInv, PublishInv, Stream, Flow
<1> HIDE DEF x
<1>12. Awaits(x \o broker'.out[c], call', broker')
  BY <1>2, <1>3, <1>4, <1>5, <1>11, EnterAwaits
<1>13. Awaits(Flow(m_open_channels', broker', c), call', broker')
  BY <1>12 DEF Flow, x
<1>14. AnswerInv'
  <2>1. \A i \in DOMAIN m_free_channels' : \E j \in DOMAIN m_free_channels : m_free_channels'[i] = m_free_channels[j]
    BY <1>1
  <2> QED BY <1>2, <1>5, <1>6, <1>8, <1>10, <1>13, <2>1, AnswersStep
<1> QED BY <1>7, <1>14

\* A call opens a new channel (GetChannel, CreateNewChannel).
LEMMA NewChannelAnswers ==
  ASSUME FewCalls, Base, Base', AnswerInv, PublishInv, Idle, NEW op \in Pooled, NEW tag \in Tags \cup {NoTag},
         m_next_channel_id' = GetNextChannelId,
         call' = [NoCall EXCEPT !.op = op, !.tag = tag, !.ch = m_next_channel_id + 1, !.stage = "open"],
         m_open_channels' \in [DOMAIN m_open_channels \cup {m_next_channel_id + 1} -> Seq(Wire)],
         m_open_channels'[m_next_channel_id + 1] = <<>>,
         \A d \in DOMAIN m_open_channels : m_open_channels'[d] = m_open_channels[d],
         Served(broker, broker', m_next_channel_id + 1, Request("channel.open", NoTag)),
         UNCHANGED <<m_free_channels, m_consumer_channel_map, m_is_connected, outcomes>>
  PROVE  AnswerInv' /\ PublishInv'
<1> DEFINE c == m_next_channel_id + 1
           r == Request("channel.open", NoTag)
<1>1. c \in Ids \ {0} /\ c \notin DOMAIN m_open_channels /\ m_next_channel_id \in Nat
  BY NextId DEF Idle
<1>2. ~Busy /\ broker \in Brokers /\ broker' \in Brokers
  BY DEF Idle, Busy, Base, TypeInv
<1>3. call'.op = op /\ call'.ch = c /\ call'.tag = tag /\ call'.stage = "open"
  BY DEF NoCall
<1>4. \A t \in DOMAIN m_consumer_channel_map' : m_consumer_channel_map'[t] # c
  BY <1>1 DEF Base, ChannelInv
<1>5. \A i \in DOMAIN m_free_channels' : m_free_channels'[i] # c
  BY <1>1 DEF Base, ChannelInv
<1>6. broker.out[c] = <<>> /\ broker.consumers[c] = {}
  BY <1>1 DEF Base, CloseInv, Tidy
<1>7. DOMAIN m_open_channels' = DOMAIN m_open_channels \cup {c}
  OBVIOUS
<1> HIDE DEF c
<1>8. r \in Requests /\ r.id = "channel.open" /\ Served(broker, broker', c, r)
  BY DEF Request, Requests, c
<1> HIDE DEF r
<1>9. PublishInv'
  BY <1>2, <1>8, ServedCounts, PublishKept
<1>10. OnlyOn(c)
  BY <1>1, <1>7, <1>8, ServedOnly
<1>11. <<>> \in Seq(Wire) /\ <<>> \o broker.out[c] = <<>>  /\ broker.returned \subseteq 1 .. broker.sent
  BY <1>6 DEF PublishInv
<1>12. Answers(<<>>) = {}
  BY DEF Answers
<1>13. Answering(<<>> \o broker'.out[c], broker, broker', c, r)
  BY <1>1, <1>2, <1>8, <1>11, <1>12, ServedAnswers
<1> DEFINE s == <<>> \o broker'.out[c]
<1>14. s = Flow(m_open_channels', broker', c)
  BY DEF Flow, c
<1> HIDE DEF s
<1>15. OneAnswer(s, {"channel.open-ok"}) /\ broker'.consumers[c] = {}
  BY <1>6, <1>8, <1>13 DEF Answering, AnswerTo, s
<1>16. Awaits(s, call', broker')
  <2>1. Expected(call') = {"channel.open-ok"}
    BY <1>3 DEF Expected, Prelude
  <2>2. ~Publishing(call') /\ ~Confirming(call') /\ call'.stage \notin ContentStages /\ call'.op # "BasicCancel"
    BY <1>3 DEF Publishing, Confirming, ContentStages, Pooled
  <2> QED BY <1>3, <1>15, <2>1, <2>2 DEF Awaits
<1>17. AnswerInv'
  BY <1>1, <1>2, <1>3, <1>4, <1>5, <1>10, <1>14, <1>16, AnswersStep
<1> QED BY <1>9, <1>17

\* An acknowledgement is not answered (BasicAck).
LEMMA AckAnswers ==
  ASSUME Base, AnswerInv, PublishInv, NEW e \in envelopes, BasicAck(e)
  PROVE  AnswerInv' /\ PublishInv'
<1> DEFINE c == e.ch
           r == AckOf(e)
<1>1. Base' /\ Served(broker, broker', c, r) /\ c \in DOMAIN m_open_channels \ {0}
  BY AckBase
<1>2. /\ ~Busy /\ m_is_connected /\ broker \in Brokers /\ broker' \in Brokers /\ c \in Ids \ {0}
      /\ UNCHANGED <<m_open_channels, m_free_channels, m_consumer_channel_map, m_is_connected, call, outcomes>>
      /\ m_open_channels[c] \in Seq(Wire) /\ broker.returned \subseteq 1 .. broker.sent
  BY <1>1 DEF BasicAck, Idle, Busy, impl, Base, TypeInv, PublishInv
<1>3. r \in Requests /\ r.id = "basic.ack"
  BY DEF AckOf, Requests, Base, TypeInv, Envelopes
<1> HIDE DEF c, r
<1>4. PublishInv'
  BY <1>1, <1>2, ServedCounts, PublishKept
<1>5. OnlyOn(c)
  BY <1>1, <1>2, ServedOnly
<1>6. broker'.consumers[c] \subseteq broker.consumers[c]
  BY <1>1, <1>3 DEF Served, Silent, Closes, Replied
<1>7. ASSUME Answers(Stream(c)) = {} PROVE Answers(Flow(m_open_channels', broker', c)) = {}
  <2> DEFINE x == m_open_channels[c]
  <2>1. Answers(x \o broker.out[c]) = {} /\ x \in Seq(Wire)
    BY <1>2, <1>7 DEF Stream, Flow
  <2> HIDE DEF x
  <2>2. Answering(x \o broker'.out[c], broker, broker', c, r)
    BY <1>1, <1>2, <1>3, <2>1, ServedAnswers
  <2>3. Answers(x \o broker'.out[c]) = {}
    BY <1>3, <2>2 DEF Answering
  <2> QED BY <1>2, <2>3 DEF Flow, x
<1>8. \A i \in DOMAIN m_free_channels' : m_free_channels'[i] = c =>
            Answers(Flow(m_open_channels', broker', c)) = {} /\ broker'.consumers[c] = {}
  BY <1>2, <1>6, <1>7 DEF AnswerInv
<1>9. \A t \in DOMAIN m_consumer_channel_map' : m_consumer_channel_map'[t] = c =>
            /\ broker'.consumers[c] \subseteq {t}
            /\ Answers(Flow(m_open_channels', broker', c)) = {}
  BY <1>1, <1>2, <1>6, <1>7 DEF AnswerInv
<1>10. ~Busy'
  BY <1>2 DEF Busy
<1>11. AnswerInv'
  BY <1>1, <1>2, <1>5, <1>8, <1>9, <1>10, AnswersStep
<1> QED BY <1>4, <1>11

\* A delivery is no answer (Deliver).
LEMMA DeliverAnswers ==
  ASSUME Base, AnswerInv, PublishInv, NEW c \in Ids, NEW tag \in Tags, Deliver(c, tag)
  PROVE  AnswerInv' /\ PublishInv'
<1>1. /\ Base' /\ c \in DOMAIN m_open_channels \ {0}
      /\ \E n \in Nat : DeliveryOf(c, tag, n)
  BY DeliverBase
<1>2. PICK n \in Nat : Message(broker, c, "basic.deliver", tag, n, broker')
  BY <1>1 DEF DeliveryOf
<1> DEFINE m == broker.sent + 1
           u == <<Method("basic.deliver", tag, m)>> \o Content(m, n)
           v == u \o <<Method("basic.ack", NoTag, m)>>
<1>3. m \in Nat /\ "basic.deliver" \in MethodIds /\ broker \in Brokers /\ broker' \in Brokers
  <2>1. broker \in Brokers /\ broker' \in Brokers
    BY <1>1 DEF Base, TypeInv
  <2>2. broker.sent \in Nat
    BY <2>1 DEF Brokers
  <2> QED BY <2>1, <2>2 DEF MethodIds
<1>4. u \in Seq(Wire) /\ Answers(u) = {}
  <2>1. Framed(u, v, "basic.deliver", tag, m, n)
    <3> HIDE DEF m
    <3> QED BY <1>3, MessageParts
  <2> HIDE DEF u, v, m
  <2>2. Answers(u) = {}
    BY <1>3, <2>1, ContentAnswers
  <2> QED BY <2>1, <2>2 DEF Framed
<1> HIDE DEF v
<1>5. /\ broker'.out[c] = broker.out[c] \o u /\ \A d \in Ids \ {c} : broker'.out[d] = broker.out[d]
      /\ broker'.consumers = broker.consumers /\ broker'.returned = broker.returned /\ broker'.sent = m
  BY <1>2 DEF Message
<1> HIDE DEF u
<1>6. UNCHANGED <<m_open_channels, m_free_channels, m_consumer_channel_map, m_is_connected, call, outcomes>>
  BY DEF Deliver, impl, history
<1>7. broker.sent <= broker'.sent
  BY <1>3, <1>5 DEF Brokers
<1> HIDE DEF m
<1>8. PublishInv'
  BY <1>3, <1>5, <1>6, <1>7, PublishKept DEF Counts
<1>9. OnlyOn(c)
  BY <1>5, <1>6 DEF OnlyOn, Stream, Flow
<1> DEFINE s == Stream(c)
           s2 == Flow(m_open_channels', broker', c)
<1>10. Answers(s2) = Answers(s) /\ \A i \in Answers(s) : s2[i] = s[i]
  <2>1. m_open_channels[c] \in Seq(Wire) /\ broker.out[c] \in Seq(Wire)
    BY <1>1 DEF Base, TypeInv, Brokers
  <2>2. s \in Seq(Wire) /\ s2 = s \o u
    <3> DEFINE x == m_open_channels[c]
               y == broker.out[c]
    <3>1. s = x \o y /\ s2 = x \o (y \o u) /\ x \in Seq(Wire) /\ y \in Seq(Wire)
      BY <1>5, <1>6, <2>1 DEF Flow, Stream
    <3> HIDE DEF x, y, s, s2
    <3> QED BY <1>4, <3>1, Associated, ConcatProperties
  <2> HIDE DEF s, s2
  <2>3. JoinedAnswers(s, u)
    BY <1>4, <2>2, AnswersJoined
  <2> QED BY <1>4, <2>2, <2>3 DEF JoinedAnswers
<1> HIDE DEF s2
<1>11. ASSUME Busy PROVE Awaits(Flow(m_open_channels', broker', call'.ch), call', broker')
  <2>1. Awaits(Stream(call.ch), call, broker) /\ call.ch \in Ids \ {0} /\ call.pub \in Nat /\ call.ch \in DOMAIN m_open_channels
    BY <1>11 DEF AnswerInv, Base, ChannelInv, TypeInv, CallRecords
  <2>2. CASE call.ch = c
    <3>1. Awaits(s2, call, broker')
      BY <1>3, <1>5, <1>7, <1>10, <2>1, <2>2, AwaitsKept
    <3> QED BY <1>6, <2>2, <3>1 DEF s2
  <2>3. CASE call.ch # c
    <3>1. Flow(m_open_channels', broker', call.ch) = Stream(call.ch)
      BY <1>1, <1>6, <1>9, <2>1, <2>3 DEF OnlyOn
    <3>2. Awaits(Stream(call.ch), call, broker')
      BY <1>3, <1>5, <1>7, <2>1, AwaitsKept
    <3> QED BY <1>6, <3>1, <3>2
  <2> QED BY <2>2, <2>3
<1>12. Busy' <=> Busy
  BY <1>6 DEF Busy
<1>13. \A i \in DOMAIN m_free_channels' : m_free_channels'[i] = c =>
            Answers(Flow(m_open_channels', broker', c)) = {} /\ broker'.consumers[c] = {}
  BY <1>5, <1>6, <1>10 DEF AnswerInv, s2
<1>14. \A t \in DOMAIN m_consumer_channel_map' : m_consumer_channel_map'[t] = c =>
            /\ broker'.consumers[c] \subseteq {t}
            /\ m_is_connected' /\ c \in DOMAIN m_open_channels' /\ ~(Busy' /\ c = call'.ch) =>
                  Answers(Flow(m_open_channels', broker', c)) = {}
  BY <1>5, <1>6, <1>10, <1>12 DEF AnswerInv, s2
<1>15. AnswerInv'
  BY <1>1, <1>6, <1>9, <1>11, <1>12, <1>13, <1>14, AnswersStep
<1> QED BY <1>8, <1>15

\* The broker closes the connection (ForceClose).
LEMMA ForceCloseAnswers ==
  ASSUME Base, AnswerInv, PublishInv, ForceClose
  PROVE  AnswerInv' /\ PublishInv'
<1>1. /\ Base'
      /\ \A c \in Ids \ {0}, r \in Requests : Silent(broker, broker', c, r) /\ OtherChannels(broker, broker', c)
  BY ForceCloseBase
<1> DEFINE r == Request("basic.recover", NoTag)
<1>2. r \in Requests /\ r.id = "basic.recover" /\ 1 \in Ids \ {0}
  BY IdSpaceAssumption DEF Request, Requests, Ids
<1> HIDE DEF r
<1>3. /\ \A c \in Ids \ {0} : broker'.out[c] = broker.out[c] /\ broker'.consumers[c] = broker.consumers[c]
      /\ broker'.returned = broker.returned /\ broker.sent <= broker'.sent
  BY <1>1, <1>2 DEF Silent, OtherChannels
<1>4. UNCHANGED <<m_open_channels, m_free_channels, m_consumer_channel_map, m_is_connected, call, outcomes>>
  BY DEF ForceClose, impl, history
<1>5. \A d \in DOMAIN m_open_channels \ {0} : Flow(m_open_channels', broker', d) = Stream(d)
  BY <1>3, <1>4 DEF Flow, Stream, Base, TypeInv
<1>6. AnswerInv'
  BY <1>1, <1>3, <1>4, <1>5, SameStreams
<1>7. PublishInv'
  BY <1>1, <1>3, <1>4, PublishKept DEF Counts, Base, TypeInv
<1> QED BY <1>6, <1>7

\* A frame goes to a queue (OwnFrame, OtherFrame).
LEMMA QueuedAnswers ==
  ASSUME Base, AnswerInv, PublishInv, FrameQueued
  PROVE  AnswerInv' /\ PublishInv'
<1>1. /\ Base' /\ UNCHANGED <<impl, history, call>>
      /\ \E c \in DOMAIN m_open_channels \ {0} : Queued(m_open_channels', broker', c)
  BY QueuedBase
<1>2. PICK c \in DOMAIN m_open_channels \ {0} : Queued(m_open_channels', broker', c)
  BY <1>1
<1>3. /\ \A d \in DOMAIN m_open_channels : Flow(m_open_channels', broker', d) = Stream(d)
      /\ DOMAIN m_open_channels' = DOMAIN m_open_channels
      /\ broker'.consumers = broker.consumers /\ broker'.returned = broker.returned /\ broker'.sent = broker.sent
  BY <1>2 DEF Queued, Popped
<1>4. broker.sent <= broker'.sent /\ broker \in Brokers /\ broker' \in Brokers
  <2>1. broker \in Brokers /\ broker' \in Brokers
    BY <1>1 DEF Base, TypeInv
  <2>2. broker.sent \in Nat
    BY <2>1 DEF Brokers
  <2> QED BY <1>3, <2>1, <2>2
<1>5. UNCHANGED <<m_free_channels, m_consumer_channel_map, m_is_connected, call, outcomes>>
  BY <1>1 DEF impl, history
<1>6. AnswerInv'
  BY <1>1, <1>3, <1>4, <1>5, SameStreams
<1>7. PublishInv'
  BY <1>3, <1>4, <1>5, PublishKept DEF Counts
<1> QED BY <1>6, <1>7

\* A call that ends without handing its channel back.
LEMMA EndsAnswers ==
  ASSUME Base, Base', AnswerInv, Busy, call' = NoCall, OnlyOn(call.ch), m_is_connected' => m_is_connected,
         UNCHANGED <<m_free_channels, m_consumer_channel_map>>, broker'.consumers[call.ch] \subseteq broker.consumers[call.ch],
         m_is_connected' /\ call.ch \in DOMAIN m_open_channels' /\ call.op \notin Pooled =>
            Answers(Flow(m_open_channels', broker', call.ch)) = {}
  PROVE  AnswerInv'
<1> DEFINE c == call.ch
<1>1. c \in Ids \ {0} /\ \A i \in DOMAIN m_free_channels' : m_free_channels'[i] # c
  BY DEF Base, ChannelInv, TypeInv
<1>2. ~Busy'
  BY CallTypes DEF Busy
<1>3. \A t \in DOMAIN m_consumer_channel_map' : m_consumer_channel_map'[t] = c =>
         call.op \notin Pooled /\ broker.consumers[c] \subseteq {t}
  BY DEF AnswerInv, Base, ChannelInv
<1> QED BY <1>1, <1>2, <1>3, AnswersStep

\* The wait for a delivery is over (Timeout).
LEMMA TimeoutAnswers ==
  ASSUME Base, AnswerInv, PublishInv, Timeout
  PROVE  AnswerInv' /\ PublishInv'
<1>1. Base' /\ Busy
  BY TimeoutBase
<1>2. /\ UNCHANGED <<m_open_channels, m_free_channels, m_consumer_channel_map, m_is_connected, broker, outcomes>>
      /\ call' = NoCall /\ call.op = "BasicConsumeMessage" /\ call.stage = "reply"
  BY DEF Timeout, EndCall, impl, history
<1>3. Answers(Stream(call.ch)) = {}
  <2>1. Awaits(Stream(call.ch), call, broker)
    BY <1>1 DEF AnswerInv
  <2>2. OneAnswer(Stream(call.ch), {"basic.deliver"})
    BY <1>2, <2>1 DEF Awaits, Publishing, Confirming, MethodStages, Expected, Responses
  <2> QED BY <2>2 DEF OneAnswer, Answers, Answer
<1>4. OnlyOn(call.ch) /\ Flow(m_open_channels', broker', call.ch) = Stream(call.ch)
  BY <1>2 DEF OnlyOn, Stream
<1>5. AnswerInv'
  BY <1>1, <1>2, <1>3, <1>4, EndsAnswers
<1>6. PublishInv'
  BY <1>2 DEF PublishInv
<1> QED BY <1>5, <1>6

\* The connection is closed (FinishCloseConnection).
LEMMA LostAnswers ==
  ASSUME Base, AnswerInv, PublishInv, ConnectionLost, CallStep
  PROVE  AnswerInv' /\ PublishInv'
<1>1. /\ Base' /\ Busy /\ ~m_is_connected' /\ call' = NoCall /\ Popped(broker, broker', 0)
      /\ UNCHANGED <<m_open_channels, m_free_channels, m_consumer_channel_map, m_next_channel_id, history>>
  BY LostBase
<1>2. /\ \A d \in Ids \ {0} : broker'.out[d] = broker.out[d]
      /\ broker'.consumers = broker.consumers /\ broker'.returned = broker.returned /\ broker'.sent = broker.sent
  BY <1>1 DEF Popped
<1>3. OnlyOn(call.ch)
  BY <1>1, <1>2 DEF OnlyOn, Stream, Flow
<1>4. AnswerInv'
  BY <1>1, <1>2, <1>3, EndsAnswers
<1>5. PublishInv'
  BY <1>1, <1>2 DEF PublishInv, history
<1> QED BY <1>4, <1>5

\* The broker has closed the channel of the call (FinishCloseChannel).
LEMMA CloseAnswers ==
  ASSUME Base, AnswerInv, PublishInv, CloseTaken
  PROVE  AnswerInv' /\ PublishInv'
<1>1. /\ Base' /\ Busy /\ call' = NoCall /\ UNCHANGED <<impl, history>>
      /\ call.ch \notin DOMAIN m_open_channels'
      /\ \E f, q, b, p :
            /\ Left(f, q, b, p) /\ IsClose(f) /\ Served(b, broker', call.ch, Request("channel.close-ok", NoTag))
            /\ DOMAIN m_open_channels' = DOMAIN m_open_channels \ {call.ch}
            /\ \A c \in DOMAIN m_open_channels' : m_open_channels'[c] = m_open_channels[c]
  BY CloseBase
<1> DEFINE r == Request("channel.close-ok", NoTag)
           c == call.ch
<1>2. PICK f, q, b, p :
            /\ Left(f, q, b, p) /\ IsClose(f) /\ Served(b, broker', call.ch, Request("channel.close-ok", NoTag))
            /\ DOMAIN m_open_channels' = DOMAIN m_open_channels \ {call.ch}
            /\ \A d \in DOMAIN m_open_channels' : m_open_channels'[d] = m_open_channels[d]
  BY <1>1
<1>3. r.id = "channel.close-ok"
  BY DEF Request
<1> HIDE DEF r
<1>4. c \in Ids \ {0} /\ b.consumers = broker.consumers /\ b.returned = broker.returned /\ b.sent = broker.sent
      /\ \A d \in Ids \ {c} : b.out[d] = broker.out[d]
  BY <1>1, <1>2 DEF Left, Base, ChannelInv, TypeInv
<1>5. Served(b, broker', c, r)
  BY <1>2 DEF r
<1> HIDE DEF c
<1>6. Counts(b, broker')
  BY <1>5, ServedCounts
<1>7. Counts(broker, broker')
  BY <1>4, <1>6 DEF Counts
<1>8. PublishInv'
  BY <1>1, <1>7, PublishKept DEF Base, TypeInv, history
<1>9. OnlyOn(c)
  <2>1. \A d \in DOMAIN m_open_channels' \ {0, c} : d \in DOMAIN m_open_channels /\ m_open_channels'[d] = m_open_channels[d]
    BY <1>2
  <2> QED BY <1>4, <1>5, <2>1, ServedOnly
<1>10. broker'.consumers[c] \subseteq broker.consumers[c]
  BY <1>3, <1>4, <1>5 DEF Served, Silent, Closes, Replied
<1>11. AnswerInv'
  BY <1>1, <1>9, <1>10, EndsAnswers DEF c, impl
<1> QED BY <1>8, <1>11

\* The answers of s2 are answers of s other than the frame at p, in the same order.
Dropped(s, p, s2) ==
    \A i \in Answers(s2) : \E j \in Answers(s) \ {p} : s2[i] = s[j] /\ j = IF i < p THEN i ELSE i + 1

\* A frame is taken from those on their way.
LEMMA FrameLeft ==
  ASSUME NEW f, NEW q, NEW b, NEW p, Left(f, q, b, p)
  PROVE  Dropped(Stream(call.ch), p, Flow(q, b, call.ch))
<1> DEFINE s == Stream(call.ch)
<1>1. s \in Seq(Wire) /\ p \in 1 .. Len(s) /\ Flow(q, b, call.ch) = RemoveAt(s, p)
  BY DEF Left
<1> HIDE DEF s
<1>2. Dropped(s, p, RemoveAt(s, p))
  BY <1>1, AnswersLeft DEF Dropped
<1> QED BY <1>1, <1>2 DEF s

\* With one answer on its way there is one at most once a frame is taken, and none once the
\* answer is.
LEMMA OneAnswerLeft ==
  ASSUME NEW s \in Seq(Wire), NEW p \in Nat, NEW s2 \in Seq(Wire), Dropped(s, p, s2), NEW ids, OneAnswer(s, ids)
  PROVE  OneAnswer(s2, ids) /\ (p \in Answers(s) => Answers(s2) = {})
<1>1. Answers(s2) \subseteq Nat
  BY LenProperties DEF Answers
<1>2. \A i \in Answers(s2) : s2[i].id \in ids
  BY DEF Dropped, OneAnswer
<1>3. ASSUME NEW i \in Answers(s2), NEW k \in Answers(s2) PROVE i = k
  <2>1. PICK i0 \in Answers(s) : i0 = IF i < p THEN i ELSE i + 1
    BY DEF Dropped
  <2>2. PICK k0 \in Answers(s) : k0 = IF k < p THEN k ELSE k + 1
    BY DEF Dropped
  <2>3. i0 = k0 /\ i \in Nat /\ k \in Nat
    BY <1>1 DEF OneAnswer
  <2> QED BY <2>1, <2>2, <2>3
<1>4. p \in Answers(s) => Answers(s2) = {}
  BY DEF Dropped, OneAnswer
<1> QED BY <1>2, <1>3, <1>4 DEF OneAnswer

\* A message that came back is still confirmed once a frame before the confirm is taken.
LEMMA ConfirmedLeft ==
  ASSUME NEW s \in Seq(Wire), NEW p \in Nat, NEW s2 \in Seq(Wire), Dropped(s, p, s2), NEW m, NEW b, NEW b2,
         b2.returned = b.returned, Confirmed(s, m, b)
  PROVE  Confirmed(s2, m, b2)
<1>1. OneAnswer(s2, {"basic.ack"})
  BY OneAnswerLeft DEF Confirmed
<1>2. \A i \in Answers(s2) : s2[i].msg = m
  BY DEF Dropped, Confirmed
<1> QED BY <1>1, <1>2 DEF Confirmed

\* What is known when the call has the method f it waits for: s2 is still on its way.
Found(f, s2) ==
    /\ ~Publishing(call) => Answers(s2) = {}
    /\ f.id = "basic.ack" =>
          /\ call.op = "BasicPublish" /\ Answers(s2) = {} /\ f.msg = call.pub
          /\ call.pub \in broker.returned <=> call.stage = "confirm"
          /\ call.pub \in broker.returned \/ call.pub <= broker.sent
    /\ f.id = "basic.return" => Publishing(call) /\ Confirmed(s2, call.pub, broker)
    /\ call.op = "BasicCancel" => broker.consumers[call.ch] = {}

\* The method is the answer to the request of the call, and of no earlier one.
LEMMA MethodFound ==
  ASSUME Base, AnswerInv, Busy, call.stage \in MethodStages, NEW f, NEW q, NEW b, NEW p, Left(f, q, b, p),
         is_expected_method(f, call), Flow(q, b, call.ch) \in Seq(Wire),
         \A i \in 1 .. Len(Stream(call.ch)) : i < p => ~is_expected_method(Stream(call.ch)[i], call)
  PROVE  Found(f, Flow(q, b, call.ch))
<1> DEFINE s == Stream(call.ch)
           s2 == Flow(q, b, call.ch)
<1>1. Awaits(s, call, broker) /\ Dropped(s, p, s2)
  BY FrameLeft DEF AnswerInv
<1>2. s \in Seq(Wire) /\ p \in DOMAIN s /\ DOMAIN s = 1 .. Len(s) /\ p \in Nat /\ f = s[p]
  <2>1. s \in Seq(Wire) /\ p \in 1 .. Len(s) /\ f = s[p]
    BY DEF Left
  <2> HIDE DEF s
  <2> QED BY <2>1, LenProperties
<1>3. s2 \in Seq(Wire) /\ \A i \in DOMAIN s : i < p => ~is_expected_method(s[i], call)
  BY <1>2
<1> HIDE DEF s, s2
<1> SUFFICES Found(f, s2)
  BY DEF s2
<1>4. f.type = "METHOD" /\ f.id \in Expected(call)
  BY DEF is_expected_method
<1>5. f.id # "basic.deliver" => p \in Answers(s)
  <2>1. call.op \in Ops
    BY DEF Base, TypeInv, CallRecords, Busy
  <2>2. f.id # "channel.close"
    BY <1>4, <2>1 DEF MethodStages, Expected, Prelude, Responses, Ops
  <2> QED BY <1>2, <1>4, <2>2 DEF Answers, Answer
<1>6. f.id = "basic.ack" => call.op = "BasicPublish" /\ (Publishing(call) \/ call.stage = "confirm")
  BY <1>4, Replying DEF Expected, Prelude, MethodStages, Publishing
<1>7. f.id = "basic.return" => Publishing(call)
  BY <1>4, Replying DEF Expected, Prelude, MethodStages, Publishing
<1>8. CASE call.stage = "confirm"
  <2>1. ~Publishing(call) /\ Confirming(call) /\ f.id = "basic.ack" /\ call.op # "BasicCancel"
    BY <1>4, <1>8 DEF Publishing, Confirming, Expected, Prelude, Base, StageInv
  <2>2. Confirmed(s, call.pub, broker)
    BY <1>1, <2>1 DEF Awaits
  <2>3. OneAnswer(s, {"basic.ack"}) /\ s[p].msg = call.pub /\ call.pub \in broker.returned
    BY <1>5, <2>1, <2>2 DEF Confirmed
  <2>4. Answers(s2) = {}
    BY <1>1, <1>2, <1>3, <1>5, <2>1, <2>3, OneAnswerLeft
  <2> QED BY <1>2, <1>6, <1>8, <2>1, <2>3, <2>4 DEF Found
<1>9. CASE ~Publishing(call) /\ call.stage # "confirm"
  <2>1. OneAnswer(s, Expected(call))
    BY <1>1, <1>9 DEF Awaits, Confirming, ContentStages, MethodStages, Prelude
  <2>2. Answers(s2) = {}
    <3>1. CASE f.id = "basic.deliver"
      <4>1. Expected(call) = {"basic.deliver"}
        BY <1>4, <3>1, Replying DEF Expected, Responses
      <4>2. Answers(s) = {}
        BY <2>1, <4>1 DEF OneAnswer, Answers, Answer
      <4> QED BY <1>1, <4>2 DEF Dropped
    <3>2. CASE f.id # "basic.deliver"
      BY <1>1, <1>2, <1>3, <1>5, <2>1, <3>2, OneAnswerLeft
    <3> QED BY <3>1, <3>2
  <2>3. call.op = "BasicCancel" => broker.consumers[call.ch] = {}
    <3>1. call.op = "BasicCancel" => f.id # "basic.deliver"
      BY Replying
    <3> QED BY <1>1, <1>5, <3>1 DEF Awaits
  <2> QED BY <1>6, <1>7, <1>9, <2>2, <2>3 DEF Found
<1>10. CASE Publishing(call)
  <2>1. PublishAnswers(s, call.pub, broker) /\ call.op = "BasicPublish" /\ call.stage = "reply"
    BY <1>1, <1>10 DEF Awaits, Publishing
  <2>2. Expected(call) = {"basic.ack", "basic.return"}
    BY <2>1 DEF Expected, Responses
  <2>3. p \in Answers(s) /\ f.id \in {"basic.ack", "basic.return"} /\ s[p] = f
    BY <1>2, <1>4, <1>5, <2>2
  <2>4. \A i \in Answers(s) : i < p => s[i].id \notin {"basic.ack", "basic.return"}
    BY <1>2, <1>3, <2>2 DEF Answers, Answer, is_expected_method
  <2>5. \A i \in Answers(s) \ {p} : s[i].id # "basic.nack" /\ s[i].id # f.id
    BY <2>1, <2>3 DEF PublishAnswers
  <2>6. /\ call.pub <= broker.sent /\ f.msg = call.pub
        /\ call.pub \in broker.returned <=> \E i \in Answers(s) : s[i].id = "basic.return"
    BY <2>1, <2>3 DEF PublishAnswers
  <2>7. CASE f.id = "basic.ack"
    <3>1. \A i \in Answers(s) : s[i].id # "basic.return"
      BY <2>1, <2>3, <2>4, <2>7 DEF PublishAnswers
    <3>2. Answers(s) \subseteq {p}
      BY <2>1, <2>5, <2>7, <3>1 DEF PublishAnswers
    <3>3. Answers(s2) = {}
      BY <1>1, <3>2 DEF Dropped
    <3> QED BY <1>10, <2>1, <2>6, <2>7, <3>1, <3>3 DEF Found
  <2>8. CASE f.id = "basic.return"
    <3>1. \A i \in Answers(s) \ {p} : s[i].id = "basic.ack" /\ s[i].msg = call.pub
      BY <2>1, <2>5, <2>8 DEF PublishAnswers
    <3>2. call.pub \in broker.returned
      BY <2>3, <2>6, <2>8
    <3>3. \A i \in Answers(s2) : s2[i].id = "basic.ack" /\ s2[i].msg = call.pub
      BY <1>1, <3>1 DEF Dropped
    <3>4. \A i, j \in Answers(s2) : i = j
      <4> SUFFICES ASSUME NEW i \in Answers(s2), NEW j \in Answers(s2) PROVE i = j
        OBVIOUS
      <4>1. PICK i0 \in Answers(s) \ {p} : i0 = IF i < p THEN i ELSE i + 1
        BY <1>1 DEF Dropped
      <4>2. PICK j0 \in Answers(s) \ {p} : j0 = IF j < p THEN j ELSE j + 1
        BY <1>1 DEF Dropped
      <4>3. i0 = j0
        BY <2>1, <3>1 DEF PublishAnswers
      <4>4. i \in Nat /\ j \in Nat
        BY <1>3, LenProperties DEF Answers
      <4> QED BY <1>2, <4>1, <4>2, <4>3, <4>4
    <3> QED BY <1>10, <2>1, <2>8, <3>2, <3>3, <3>4 DEF Found, Confirmed, OneAnswer
  <2> QED BY <2>3, <2>7, <2>8
<1> QED BY <1>8, <1>9, <1>10

\* A call that goes on, with what it then awaits.
LEMMA GoesOnAnswers ==
  ASSUME Base, Base', AnswerInv, Busy, Busy', call'.ch = call.ch, OnlyOn(call.ch),
         UNCHANGED <<m_free_channels, m_consumer_channel_map, m_is_connected>>,
         call.op \in Pooled \/ broker'.consumers[call.ch] \subseteq broker.consumers[call.ch],
         Awaits(Flow(m_open_channels', broker', call.ch), call', broker')
  PROVE  AnswerInv'
<1> DEFINE c == call.ch
<1>1. c \in Ids \ {0} /\ \A i \in DOMAIN m_free_channels' : m_free_channels'[i] # c
  BY DEF Base, ChannelInv, TypeInv
<1>2. \A t \in DOMAIN m_consumer_channel_map' : m_consumer_channel_map'[t] = c =>
         call.op \notin Pooled /\ broker.consumers[c] \subseteq {t}
  BY DEF AnswerInv, Base, ChannelInv
<1> QED BY <1>1, <1>2, AnswersStep

\* A call that ends and hands its channel back.
LEMMA ReturnsAnswers ==
  ASSUME Base, Base', AnswerInv, Busy, call' = NoCall, OnlyOn(call.ch), m_is_connected' = m_is_connected,
         m_free_channels' = Append(m_free_channels, call.ch),
         \A t \in DOMAIN m_consumer_channel_map' :
            t \in DOMAIN m_consumer_channel_map /\ m_consumer_channel_map'[t] = m_consumer_channel_map[t],
         Answers(Flow(m_open_channels', broker', call.ch)) = {}, broker'.consumers[call.ch] = {}
  PROVE  AnswerInv'
<1> DEFINE c == call.ch
           n == Len(m_free_channels)
<1>1. c \in Ids \ {0} /\ m_free_channels \in Seq(Ids)
  BY DEF Base, ChannelInv, TypeInv
<1>2. ~Busy'
  BY CallTypes DEF Busy
<1>3. \A i \in DOMAIN m_free_channels' :
         m_free_channels'[i] = c \/ \E j \in DOMAIN m_free_channels : m_free_channels'[i] = m_free_channels[j]
  <2>1. /\ m_free_channels' \in Seq(Ids) /\ Len(m_free_channels') = n + 1 /\ n \in Nat
        /\ \A i \in 1 .. n : m_free_channels'[i] = m_free_channels[i]
        /\ m_free_channels'[n + 1] = c
    BY <1>1, AppendProperties, LenProperties
  <2>2. DOMAIN m_free_channels' = 1 .. n + 1 /\ DOMAIN m_free_channels = 1 .. n
    BY <1>1, <2>1, LenProperties
  <2>3. \A i \in 1 .. n + 1 : i = n + 1 \/ i \in 1 .. n
    BY <2>1
  <2> HIDE DEF n
  <2> QED BY <2>1, <2>2, <2>3
<1> QED BY <1>1, <1>2, <1>3, AnswersStep

\* The frame is read, and nothing is sent.
LEMMA TakenOnly ==
  ASSUME NEW f, NEW q, NEW b, NEW p, Left(f, q, b, p), m_open_channels' = q, broker' = b
  PROVE  /\ OnlyOn(call.ch) /\ broker'.consumers = broker.consumers
         /\ broker'.returned = broker.returned /\ broker'.sent = broker.sent
         /\ Flow(m_open_channels', broker', call.ch) = Flow(q, b, call.ch)
<1>1. DOMAIN q = DOMAIN m_open_channels
  BY DEF Left
<1> QED BY <1>1 DEF Left, OnlyOn, Flow, Stream

\* The next request of a call on its channel.
LEMMA AsksAnswers ==
  ASSUME Base, Base', AnswerInv, PublishInv, Busy, NEW f, NEW q, NEW b, NEW p, Left(f, q, b, p), Remains(q, b),
         Answers(Flow(q, b, call.ch)) = {}, NEW r \in Requests, Served(b, broker', call.ch, r),
         m_open_channels' = q, outcomes' = outcomes
  PROVE  /\ OnlyOn(call.ch) /\ PublishInv'
         /\ Answering(Flow(m_open_channels', broker', call.ch), b, broker', call.ch, r)
         /\ b.consumers = broker.consumers /\ call.ch \in DOMAIN m_open_channels
<1>1. /\ call.ch \in DOMAIN m_open_channels \ {0} /\ call.ch \in Ids /\ broker \in Brokers /\ broker' \in Brokers
      /\ broker.returned \subseteq 1 .. broker.sent
  BY DEF Base, ChannelInv, TypeInv, PublishInv
<1>2. /\ b \in Brokers /\ b.consumers = broker.consumers /\ b.returned = broker.returned /\ b.sent = broker.sent
      /\ q \in [DOMAIN m_open_channels -> Seq(Wire)]
      /\ \A d \in DOMAIN m_open_channels \ {call.ch} : q[d] = m_open_channels[d]
      /\ \A d \in Ids \ {call.ch} : b.out[d] = broker.out[d]
  BY DEF Left
<1>3. OnlyOn(call.ch)
  <2>1. \A d \in DOMAIN m_open_channels' \ {0, call.ch} :
           d \in DOMAIN m_open_channels /\ m_open_channels'[d] = m_open_channels[d]
    BY <1>2
  <2> QED BY <1>1, <1>2, <2>1, ServedOnly
<1>4. PublishInv'
  <2>1. Counts(broker, broker')
    BY <1>2, ServedCounts DEF Counts
  <2> QED BY <1>1, <2>1, PublishKept
<1> DEFINE x == q[call.ch]
<1>5. x \in Seq(Wire) /\ Answers(x \o b.out[call.ch]) = {}
  BY <1>1, <1>2 DEF Flow
<1>6. Flow(m_open_channels', broker', call.ch) = x \o broker'.out[call.ch]
  BY DEF Flow
<1> HIDE DEF x
<1>7. Answering(x \o broker'.out[call.ch], b, broker', call.ch, r)
  BY <1>1, <1>2, <1>5, ServedAnswers
<1> QED BY <1>1, <1>2, <1>3, <1>4, <1>6, <1>7

\* The new channel is open (ChannelOpened).
LEMMA OpenedAnswers ==
  ASSUME Base, Base', AnswerInv, PublishInv, Busy, NEW f, NEW q, NEW b, NEW p, Left(f, q, b, p), Remains(q, b),
         Answers(Flow(q, b, call.ch)) = {}, ChannelOpened(q, b)
  PROVE  AnswerInv' /\ PublishInv'
<1> DEFINE r == Request("confirm.select", NoTag)
           s == Flow(m_open_channels', broker', call.ch)
<1>1. /\ m_open_channels' = q /\ call.op \in Pooled /\ UNCHANGED <<impl, history>>
      /\ Send(b, r, [call EXCEPT !.stage = "select"])
  BY DEF ChannelOpened, Base, StageInv
<1>2. Asks(q, b, "confirm.select", NoTag, "select")
  BY <1>1, AsksBase
<1>3. /\ call'.op = call.op /\ call'.tag = call.tag /\ call'.ch = call.ch /\ call'.stage = "select"
      /\ Served(b, broker', call.ch, r)
  BY <1>2 DEF Asks, CallRecords, Base, TypeInv
<1>4. r \in Requests /\ r.id = "confirm.select"
  BY DEF Request, Requests
<1> HIDE DEF r, s
<1>5. /\ OnlyOn(call.ch) /\ PublishInv' /\ Answering(s, b, broker', call.ch, r) /\ b.consumers = broker.consumers
  BY <1>1, <1>3, <1>4, AsksAnswers DEF history, s
<1>6. OneAnswer(s, {"confirm.select-ok"}) /\ broker'.consumers[call.ch] \subseteq broker.consumers[call.ch]
  BY <1>4, <1>5 DEF Answering, AnswerTo
<1>7. Awaits(s, call', broker')
  <2>1. /\ call.op \in {"DoRpc", "BasicPublish", "BasicGet"} => broker.consumers[call.ch] = {}
        /\ call.op \notin {"DoRpc", "BasicPublish", "BasicGet"} => broker.consumers[call.ch] \subseteq {call.tag}
    BY DEF AnswerInv, Awaits
  <2>2. Expected(call') = {"confirm.select-ok"}
    BY <1>3 DEF Expected, Prelude
  <2>3. ~Publishing(call') /\ ~Confirming(call') /\ call'.stage \notin ContentStages /\ call'.op # "BasicCancel"
    BY <1>1, <1>3 DEF Publishing, Confirming, ContentStages, Pooled
  <2> QED BY <1>3, <1>6, <2>1, <2>2, <2>3 DEF Awaits
<1>8. Busy'
  BY <1>3 DEF Busy
<1>9. AnswerInv'
  BY <1>1, <1>3, <1>5, <1>7, <1>8, GoesOnAnswers DEF impl, s
<1> QED BY <1>5, <1>9

\* The call proper starts on the new channel (ConfirmSelected).
LEMMA SelectedAnswers ==
  ASSUME Base, Base', AnswerInv, PublishInv, Busy, NEW f, NEW q, NEW b, NEW p, Left(f, q, b, p), Remains(q, b),
         Answers(Flow(q, b, call.ch)) = {}, ConfirmSelected(q, b)
  PROVE  AnswerInv' /\ PublishInv'
<1> DEFINE c == call.ch
           x == q[c]
           r == FirstRequest(call.op, call.tag)
<1>1. m_open_channels' = q /\ call.op \in Pooled /\ UNCHANGED <<impl, history>> /\ Enter(b, call)
  BY DEF ConfirmSelected, Base, StageInv
<1>2. Entered(b, call, q)
  BY <1>1, EnterBase
<1>3. /\ c \in DOMAIN m_open_channels /\ c \in Ids \ {0} /\ call.tag \in Tags \cup {NoTag}
      /\ call.op \in Ops \ {"BasicConsumeMessage"}
  BY <1>1 DEF Base, TypeInv, ChannelInv, CallRecords, Pooled, Ops, Responses
<1>4. /\ b \in Brokers /\ b.consumers = broker.consumers /\ b.returned \subseteq 1 .. b.sent
      /\ q \in [DOMAIN m_open_channels -> Seq(Wire)]
  BY DEF Left, PublishInv
<1>5. x \in Seq(Wire) /\ Answers(x \o b.out[c]) = {} /\ Flow(m_open_channels', broker', c) = x \o broker'.out[c]
  BY <1>1, <1>3, <1>4 DEF Flow
<1>6. r \in Requests /\ r.id # "basic.consume"
  BY <1>3, FirstRequests
<1>7. Served(b, broker', c, r) /\ call'.op = call.op /\ call'.ch = c
  BY <1>2 DEF Entered
<1> HIDE DEF c, x, r
<1>8. /\ OnlyOn(c) /\ PublishInv' /\ Answering(Flow(m_open_channels', broker', c), b, broker', c, r)
  BY <1>1, <1>6, <1>7, AsksAnswers DEF history, c
<1>9. /\ call.op \in {"DoRpc", "BasicPublish", "BasicGet"} => b.consumers[c] = {}
      /\ b.consumers[c] \subseteq {call.tag}
  BY <1>4 DEF AnswerInv, Awaits, c
<1>10. Awaits(x \o broker'.out[c], call', broker')
  BY <1>2, <1>3, <1>4, <1>5, <1>9, EnterAwaits DEF c
<1>11. Busy'
  BY <1>7 DEF Busy
<1>12. AnswerInv'
  BY <1>1, <1>5, <1>7, <1>8, <1>10, <1>11, GoesOnAnswers DEF impl, c
<1> QED BY <1>8, <1>12

\* BasicConsume subscribes (QosSet).
LEMMA QosAnswers ==
  ASSUME Base, Base', AnswerInv, PublishInv, Busy, NEW f, NEW q, NEW b, NEW p, Left(f, q, b, p), Remains(q, b),
         Answers(Flow(q, b, call.ch)) = {}, QosSet(q, b)
  PROVE  AnswerInv' /\ PublishInv'
<1> DEFINE r == Request("basic.consume", call.tag)
           s == Flow(m_open_channels', broker', call.ch)
<1>1. /\ m_open_channels' = q /\ UNCHANGED <<impl, history>> /\ call.op = "BasicConsume" /\ call.tag \in Tags
      /\ Send(b, r, [call EXCEPT !.stage = "reply"])
  BY DEF QosSet, Base, StageInv, Remains
<1>2. Asks(q, b, "basic.consume", call.tag, "reply")
  BY <1>1, AsksBase
<1>3. /\ call'.op = "BasicConsume" /\ call'.tag = call.tag /\ call'.ch = call.ch /\ call'.stage = "reply"
      /\ Served(b, broker', call.ch, r)
  BY <1>1, <1>2 DEF Asks, CallRecords, Base, TypeInv
<1>4. r \in Requests /\ r.id = "basic.consume" /\ r.tag = call.tag
  BY <1>1 DEF Request, Requests
<1> HIDE DEF r, s
<1>5. /\ OnlyOn(call.ch) /\ PublishInv' /\ Answering(s, b, broker', call.ch, r) /\ b.consumers = broker.consumers
  BY <1>1, <1>3, <1>4, AsksAnswers DEF history, s
<1>6. OneAnswer(s, {"basic.consume-ok"}) /\ broker'.consumers[call.ch] \subseteq broker.consumers[call.ch] \cup {call.tag}
  BY <1>4, <1>5 DEF Answering, AnswerTo
<1>7. Awaits(s, call', broker')
  <2>1. broker.consumers[call.ch] \subseteq {call.tag}
    BY <1>1 DEF AnswerInv, Awaits
  <2>2. Expected(call') = {"basic.consume-ok"}
    BY <1>3 DEF Expected, Responses
  <2>3. ~Publishing(call') /\ ~Confirming(call') /\ call'.stage \notin ContentStages
    BY <1>3 DEF Publishing, Confirming, ContentStages
  <2> QED BY <1>3, <1>6, <2>1, <2>2, <2>3 DEF Awaits
<1>8. Busy' /\ call.op \in Pooled
  BY <1>1, <1>3 DEF Busy, Pooled
<1>9. AnswerInv'
  BY <1>1, <1>3, <1>5, <1>7, <1>8, GoesOnAnswers DEF impl, s
<1> QED BY <1>5, <1>9

\* DoRpc, BasicGet of an empty queue, BasicPublish and BasicCancel end (Answered, Published, Cancelled).
LEMMA HandsBackAnswers ==
  ASSUME Base, Base', AnswerInv, PublishInv, Busy, call.stage \in MethodStages, NEW f, NEW q, NEW b, NEW p,
         Left(f, q, b, p), Remains(q, b), is_expected_method(f, call), Found(f, Flow(q, b, call.ch)),
         Answered(f, q, b) \/ Published(f, q, b) \/ Cancelled(f, q, b)
  PROVE  AnswerInv' /\ PublishInv'
<1>1. /\ m_open_channels' = q /\ broker' = b /\ call' = NoCall /\ m_is_connected' = m_is_connected
      /\ m_free_channels' = Append(m_free_channels, call.ch)
      /\ UNCHANGED m_consumer_channel_map
         \/ m_consumer_channel_map' = Restrict(m_consumer_channel_map, DOMAIN m_consumer_channel_map \ {call.tag})
      /\ f.id \in {"declare-ok", "basic.get-empty", "basic.ack", "basic.cancel-ok"}
  BY DEF Answered, Published, Cancelled, ReturnChannel, EndCall, Remains
<1>2. \A t \in DOMAIN m_consumer_channel_map' :
         t \in DOMAIN m_consumer_channel_map /\ m_consumer_channel_map'[t] = m_consumer_channel_map[t]
  BY <1>1 DEF Restrict
<1>3. /\ OnlyOn(call.ch) /\ broker'.consumers = broker.consumers
      /\ broker'.returned = broker.returned /\ broker'.sent = broker.sent
      /\ Flow(m_open_channels', broker', call.ch) = Flow(q, b, call.ch)
  BY <1>1, TakenOnly
<1>4. Answers(Flow(q, b, call.ch)) = {}
  <2>1. f.id # "basic.ack" => ~Publishing(call)
    BY <1>1, Replying DEF Publishing
  <2> QED BY <2>1 DEF Found
<1>5. broker.consumers[call.ch] = {}
  <2>1. call.op \in {"DoRpc", "BasicGet", "BasicPublish", "BasicCancel"}
    BY <1>1, Replying
  <2> QED BY <2>1 DEF Found, AnswerInv, Awaits
<1>6. AnswerInv'
  BY <1>1, <1>2, <1>3, <1>4, <1>5, ReturnsAnswers
<1>7. PublishInv'
  <2>1. CASE outcomes' = outcomes
    BY <1>3, <2>1 DEF PublishInv
  <2>2. CASE Published(f, q, b)
    <3> DEFINE o == [pub |-> call.pub, ack |-> f.msg, returned |-> call.stage = "confirm",
                     content |-> call.header.msg]
    <3>1. outcomes' = outcomes \cup {o} /\ f.id = "basic.ack"
      BY <2>2 DEF Published
    <3>2. o.pub = call.pub /\ o.ack = f.msg /\ o.returned = (call.stage = "confirm")
      OBVIOUS
    <3> HIDE DEF o
    <3>3. call.pub \in Nat /\ broker.sent \in Nat /\ broker.returned \subseteq 1 .. broker.sent
      BY DEF Base, TypeInv, CallRecords, Brokers, PublishInv
    <3>4. /\ o.ack = o.pub /\ o.pub \in Nat
          /\ o.returned <=> o.pub \in broker.returned
      BY <3>1, <3>2, <3>3 DEF Found
    <3>5. o.pub <= broker.sent
      BY <3>1, <3>2, <3>3 DEF Found
    <3> QED BY <1>3, <3>1, <3>4, <3>5 DEF PublishInv
  <2> QED BY <2>1, <2>2 DEF Answered, Cancelled, history
<1> QED BY <1>6, <1>7

\* A content comes next (ContentFollows, DeliveryFollows).
LEMMA FollowsAnswers ==
  ASSUME Base, Base', AnswerInv, PublishInv, Busy, call.stage \in MethodStages, NEW f, NEW q, NEW b, NEW p,
         Left(f, q, b, p), Remains(q, b), is_expected_method(f, call), Found(f, Flow(q, b, call.ch)),
         ContentFollows(f, q, b) \/ DeliveryFollows(f, q, b)
  PROVE  AnswerInv' /\ PublishInv'
<1> DEFINE s == Flow(q, b, call.ch)
<1>1. /\ m_open_channels' = q /\ broker' = b /\ call' = [call EXCEPT !.stage = "header", !.held = f]
      /\ UNCHANGED <<impl, history>> /\ f.id \in {"basic.return", "basic.get-ok", "basic.deliver"}
  BY DEF ContentFollows, DeliveryFollows, GoOn, Remains
<1>2. /\ call'.op = call.op /\ call'.tag = call.tag /\ call'.ch = call.ch /\ call'.stage = "header"
      /\ call'.pub = call.pub
  BY <1>1 DEF CallRecords, Base, TypeInv
<1>3. /\ OnlyOn(call.ch) /\ broker'.consumers = broker.consumers
      /\ broker'.returned = broker.returned /\ broker'.sent = broker.sent
      /\ Flow(m_open_channels', broker', call.ch) = s
  BY <1>1, TakenOnly
<1> HIDE DEF s
<1>4. Found(f, s)
  BY DEF s
<1>5. Awaits(s, call', broker')
  <2>1. Awaits(Stream(call.ch), call, broker)
    BY DEF AnswerInv
  <2>2. call.op = "BasicPublish" => Confirmed(s, call.pub, broker')
    <3>1. call.op = "BasicPublish" => f.id = "basic.return"
      BY <1>1, Replying
    <3> QED BY <1>3, <1>4, <3>1 DEF Found, Confirmed
  <2>3. call.op # "BasicPublish" => Answers(s) = {}
    BY <1>4 DEF Found, Publishing
  <2>4. call'.stage \in ContentStages /\ call'.stage \notin MethodStages /\ ~Publishing(call')
    BY <1>2 DEF ContentStages, MethodStages, Prelude, Publishing
  <2>5. call.op \in {"BasicPublish", "BasicGet", "BasicConsumeMessage"}
    BY <1>1, Replying
  <2> QED BY <1>2, <1>3, <2>1, <2>2, <2>3, <2>4, <2>5 DEF Awaits, Confirming
<1>6. Busy'
  BY <1>2 DEF Busy
<1>7. AnswerInv'
  BY <1>1, <1>2, <1>3, <1>5, <1>6, GoesOnAnswers DEF impl
<1>8. PublishInv'
  BY <1>1, <1>3 DEF PublishInv, history
<1> QED BY <1>7, <1>8

\* BasicRecover and BasicQos end (Adjusted).
LEMMA AdjustedAnswers ==
  ASSUME Base, Base', AnswerInv, PublishInv, Busy, call.stage \in MethodStages, NEW f, NEW q, NEW b, NEW p,
         Left(f, q, b, p), Remains(q, b), is_expected_method(f, call), Found(f, Flow(q, b, call.ch)),
         Adjusted(f, q, b)
  PROVE  AnswerInv' /\ PublishInv'
<1>1. /\ m_open_channels' = q /\ broker' = b /\ call' = NoCall /\ UNCHANGED <<impl, history>>
      /\ call.op # "BasicPublish"
  BY Replying DEF Adjusted, EndCall, Remains
<1>2. /\ OnlyOn(call.ch) /\ broker'.consumers = broker.consumers
      /\ broker'.returned = broker.returned /\ broker'.sent = broker.sent
      /\ Flow(m_open_channels', broker', call.ch) = Flow(q, b, call.ch)
  BY <1>1, TakenOnly
<1>3. Answers(Flow(q, b, call.ch)) = {}
  BY <1>1 DEF Found, Publishing
<1>4. AnswerInv'
  BY <1>1, <1>2, <1>3, EndsAnswers DEF impl
<1>5. PublishInv'
  BY <1>1, <1>2 DEF PublishInv, history
<1> QED BY <1>4, <1>5

\* BasicConsume ends: the channel is the consumer's (Consuming, AddConsumer).
LEMMA ConsumingAnswers ==
  ASSUME Base, Base', AnswerInv, PublishInv, Busy, call.stage \in MethodStages, NEW f, NEW q, NEW b, NEW p,
         Left(f, q, b, p), Remains(q, b), is_expected_method(f, call), Found(f, Flow(q, b, call.ch)),
         Consuming(f, q, b)
  PROVE  AnswerInv' /\ PublishInv'
<1> DEFINE c == call.ch
           M == m_consumer_channel_map
<1>1. /\ m_open_channels' = q /\ broker' = b /\ call' = NoCall
      /\ M' = Insert(M, call.tag, c)
      /\ UNCHANGED <<m_free_channels, m_next_channel_id, m_is_connected, history>>
      /\ call.op = "BasicConsume" /\ call.op \in Pooled
  BY Replying DEF Consuming, EndCall, Remains, Pooled
<1>2. /\ OnlyOn(c) /\ broker'.consumers = broker.consumers
      /\ broker'.returned = broker.returned /\ broker'.sent = broker.sent
      /\ Flow(m_open_channels', broker', c) = Flow(q, b, c)
  BY <1>1, TakenOnly
<1>3. Answers(Flow(m_open_channels', broker', c)) = {}
  BY <1>1, <1>2 DEF Found, Publishing
<1>4. broker'.consumers[c] \subseteq {call.tag}
  BY <1>1, <1>2 DEF AnswerInv, Awaits
<1>5. /\ c \in Ids \ {0}
      /\ \A i \in DOMAIN m_free_channels' : m_free_channels'[i] # c
      /\ \A t \in DOMAIN M : M[t] # c
  BY <1>1 DEF Base, ChannelInv, TypeInv
<1>6. \A t \in DOMAIN M' : \/ t \in DOMAIN M /\ M'[t] = M[t]
                           \/ t = call.tag /\ M'[t] = c
  BY <1>1 DEF Insert
<1>7. ~Busy'
  BY <1>1, CallTypes DEF Busy
<1>8. \A t \in DOMAIN M' : M'[t] = c => broker'.consumers[c] \subseteq {t}
  BY <1>4, <1>5, <1>6
<1>9. AnswerInv'
  BY <1>1, <1>2, <1>3, <1>5, <1>6, <1>7, <1>8, AnswersStep
<1>10. PublishInv'
  BY <1>1, <1>2 DEF PublishInv, history
<1> QED BY <1>9, <1>10

\* A call that takes a frame it waits for (MethodTaken).
LEMMA MethodTakenAnswers ==
  ASSUME Base, AnswerInv, PublishInv, MethodTaken
  PROVE  AnswerInv' /\ PublishInv'
<1>1. PICK f, q, b, p :
        /\ Left(f, q, b, p) /\ Remains(q, b) /\ m_open_channels' = q
        /\ call.stage \in MethodStages /\ Busy /\ f \in Wire
        /\ is_expected_method(f, call)
        /\ \A i \in 1 .. Len(Stream(call.ch)) : i < p => ~is_expected_method(Stream(call.ch)[i], call)
        /\ MethodArrived(f, q, b)
  BY MethodTakenBase
<1>2. Base'
  BY MethodTakenBase
<1> DEFINE s == Flow(q, b, call.ch)
<1>3. s \in Seq(Wire)
  <2>1. Stream(call.ch) \in Seq(Wire) /\ p \in 1 .. Len(Stream(call.ch)) /\ s = RemoveAt(Stream(call.ch), p)
    BY <1>1 DEF Left
  <2> HIDE DEF s
  <2> QED BY <2>1, Removed
<1>4. Found(f, s)
  BY <1>1, <1>3, MethodFound
<1> HIDE DEF s
<1>5. CASE ChannelOpened(q, b) \/ ConfirmSelected(q, b) \/ QosSet(q, b)
  <2>1. Answers(Flow(q, b, call.ch)) = {}
    BY <1>4, <1>5 DEF Found, Publishing, ChannelOpened, ConfirmSelected, QosSet, s
  <2> QED BY <1>1, <1>2, <1>5, <2>1, OpenedAnswers, SelectedAnswers, QosAnswers
<1>6. CASE Answered(f, q, b) \/ Published(f, q, b) \/ Cancelled(f, q, b)
  BY <1>1, <1>2, <1>4, <1>6, HandsBackAnswers DEF s
<1>7. CASE ContentFollows(f, q, b) \/ DeliveryFollows(f, q, b)
  BY <1>1, <1>2, <1>4, <1>7, FollowsAnswers DEF s
<1>8. CASE Adjusted(f, q, b)
  BY <1>1, <1>2, <1>4, <1>8, AdjustedAnswers DEF s
<1>9. CASE Consuming(f, q, b)
  BY <1>1, <1>2, <1>4, <1>9, ConsumingAnswers DEF s
<1> QED BY <1>1, <1>5, <1>6, <1>7, <1>8, <1>9 DEF MethodArrived

\* A call that reads a frame of a content (ContentTaken).
LEMMA ContentTakenAnswers ==
  ASSUME Base, AnswerInv, PublishInv, ContentTaken
  PROVE  AnswerInv' /\ PublishInv'
<1>1. PICK f, q, b :
         /\ Left(f, q, b, 1) /\ Remains(q, b) /\ m_open_channels' = q /\ broker' = b
         /\ call.stage \in ContentStages /\ Busy /\ f \in Wire
         /\ ReadContent(f, q, b)
  BY ContentTakenBase
<1>2. Base'
  BY ContentTakenBase
<1> DEFINE s == Stream(call.ch)
           s2 == Flow(q, b, call.ch)
           k == WithFrame(f)
<1>3. s \in Seq(Wire) /\ s2 \in Seq(Wire) /\ Dropped(s, 1, s2)
  <2>1. s \in Seq(Wire) /\ 1 \in 1 .. Len(s) /\ s2 = RemoveAt(s, 1)
    BY <1>1 DEF Left
  <2>2. Dropped(s, 1, s2)
    BY <1>1, FrameLeft
  <2> HIDE DEF s, s2
  <2> QED BY <2>1, <2>2, Removed
<1>4. /\ OnlyOn(call.ch) /\ broker'.consumers = broker.consumers
      /\ broker'.returned = broker.returned /\ broker'.sent = broker.sent
      /\ Flow(m_open_channels', broker', call.ch) = s2
  BY <1>1, TakenOnly
<1>5. /\ k.op = call.op /\ k.tag = call.tag /\ k.ch = call.ch /\ k.pub = call.pub /\ k \in CallRecords
      /\ k.held = call.held
  <2>1. call \in CallRecords /\ k \in CallRecords
    BY <1>1, ContentBase DEF Base, TypeInv
  <2> DEFINE x == Append(call.body, f)
  <2>2. k = IF call.stage = "header" THEN [call EXCEPT !.header = f] ELSE [call EXCEPT !.body = x]
    BY DEF WithFrame
  <2> HIDE DEF x, k
  <2> QED BY <2>1, <2>2 DEF CallRecords
<1> HIDE DEF s, s2, k
<1>6. Awaits(s, call, broker) /\ call.op \in {"BasicPublish", "BasicGet", "BasicConsumeMessage"}
  BY <1>1 DEF AnswerInv, s, Base, StageInv
<1>7. /\ call.op = "BasicPublish" => Confirmed(s2, call.pub, broker')
      /\ call.op # "BasicPublish" => Answers(s2) = {}
  <2>1. CASE call.op = "BasicPublish"
    <3>1. Confirmed(s, call.pub, broker)
      BY <1>1, <1>6, <2>1 DEF Awaits, Confirming
    <3>2. Confirmed(s2, call.pub, broker')
      BY <1>3, <1>4, <3>1, ConfirmedLeft
    <3> QED BY <2>1, <3>2
  <2>2. CASE call.op # "BasicPublish"
    <3>1. Answers(s) = {}
      BY <1>1, <1>6, <2>2 DEF Awaits, Confirming
    <3> QED BY <1>3, <2>2, <3>1 DEF Dropped
  <2> QED BY <2>1, <2>2
<1>8. ASSUME NEW stage \in {"body", "confirm"}, stage = "confirm" => call.op = "BasicPublish",
             call' = [k EXCEPT !.stage = stage], UNCHANGED <<impl, history>>
      PROVE  AnswerInv' /\ PublishInv'
  <2>1. /\ call'.op = call.op /\ call'.tag = call.tag /\ call'.ch = call.ch /\ call'.pub = call.pub
        /\ call'.stage = stage
    BY <1>5, <1>8 DEF CallRecords
  <2>2. Awaits(s2, call', broker')
    <3>1. ~Publishing(call')
      BY <2>1 DEF Publishing
    <3>2. Confirming(call') <=> call.op = "BasicPublish"
      BY <2>1 DEF Confirming, ContentStages
    <3>3. call'.stage \in MethodStages => Confirming(call')
      BY <1>8, <2>1, <3>2 DEF MethodStages, Prelude
    <3> QED BY <1>4, <1>6, <1>7, <2>1, <3>1, <3>2, <3>3 DEF Awaits
  <2>3. Busy'
    BY <1>1, <2>1 DEF Busy
  <2>4. AnswerInv'
    BY <1>1, <1>2, <1>4, <1>8, <2>1, <2>2, <2>3, GoesOnAnswers DEF impl
  <2>5. PublishInv'
    BY <1>4, <1>8 DEF PublishInv, history
  <2> QED BY <2>4, <2>5
<1>9. ASSUME call.op # "BasicPublish" \/ call.op \in Pooled, call' = NoCall, UNCHANGED <<impl, outcomes>>
      PROVE  AnswerInv' /\ PublishInv'
  <2>1. call.op \notin Pooled => Answers(s2) = {}
    BY <1>7 DEF Pooled
  <2>2. AnswerInv'
    BY <1>1, <1>2, <1>4, <1>9, <2>1, EndsAnswers DEF impl
  <2>3. PublishInv'
    BY <1>4, <1>9 DEF PublishInv
  <2> QED BY <2>2, <2>3
<1>10. \/ ContentRead(k, q, b)
       \/ EndCall(q, b) /\ UNCHANGED <<impl, history>>
  BY <1>1 DEF ReadContent, WithFrame, k
<1>11. CASE EndCall(q, b) /\ UNCHANGED <<impl, history>>
  BY <1>9, <1>11 DEF EndCall, Pooled, history
<1>12. CASE ContentRead(k, q, b)
  <2>1. CASE GoOn(q, b, [k EXCEPT !.stage = "body"]) /\ UNCHANGED <<impl, history>>
    BY <1>8, <2>1 DEF GoOn
  <2>2. CASE k.op = "BasicPublish" /\ GoOn(q, b, [k EXCEPT !.stage = "confirm"]) /\ UNCHANGED <<impl, history>>
    BY <1>5, <1>8, <2>2 DEF GoOn
  <2>3. CASE /\ k.op = "BasicGet"
             /\ envelopes' = envelopes \cup {Envelope(k)}
             /\ ReturnChannel(q, b)
             /\ UNCHANGED <<m_consumer_channel_map, m_next_channel_id, m_is_connected, calls, outcomes>>
    <3>1. call' = NoCall /\ m_free_channels' = Append(m_free_channels, call.ch)
      BY <2>3 DEF ReturnChannel, EndCall
    <3>2. Answers(s2) = {} /\ broker.consumers[call.ch] = {}
      BY <1>5, <1>6, <1>7, <2>3 DEF Awaits
    <3>3. AnswerInv'
      BY <1>1, <1>2, <1>4, <2>3, <3>1, <3>2, ReturnsAnswers
    <3>4. PublishInv'
      BY <1>4, <2>3 DEF PublishInv
    <3> QED BY <3>3, <3>4
  <2>4. CASE /\ k.op = "BasicConsumeMessage"
             /\ envelopes' = envelopes \cup {Envelope(k)}
             /\ EndCall(MaybeReleaseBuffers(q), b)
             /\ UNCHANGED <<impl, calls, outcomes>>
    <3>1. call' = NoCall /\ call.op # "BasicPublish"
      BY <1>5, <2>4 DEF EndCall
    <3> QED BY <1>9, <2>4, <3>1
  <2> QED BY <1>12, <2>1, <2>2, <2>3, <2>4 DEF ContentRead, ContentComplete
<1> QED BY <1>10, <1>11, <1>12

\* DeclareQueue and the like, BasicPublish, BasicGet and BasicConsume start (PooledCall).
LEMMA PooledCallAnswers ==
  ASSUME FewCalls, Base, AnswerInv, PublishInv, NEW op \in Pooled, NEW tag \in Tags \cup {NoTag},
         op = "BasicConsume" => tag \in Tags, PooledCall(op, tag)
  PROVE  AnswerInv' /\ PublishInv'
<1> DEFINE k == [NoCall EXCEPT !.op = op, !.tag = tag]
<1>0. /\ Idle /\ Called /\ GetChannel(k)
      /\ UNCHANGED <<m_consumer_channel_map, m_is_connected, envelopes, outcomes>>
  BY DEF PooledCall
<1>1. \A x, stage : /\ [k EXCEPT !.ch = x] = [NoCall EXCEPT !.op = op, !.tag = tag, !.ch = x]
                    /\ [k EXCEPT !.ch = x, !.stage = stage]
                          = [NoCall EXCEPT !.op = op, !.tag = tag, !.ch = x, !.stage = stage]
  BY DEF NoCall
<1> HIDE DEF k
<1>2. CASE m_free_channels # <<>>
  <2>1. /\ m_free_channels' = Tail(m_free_channels)
        /\ Enter(broker, [NoCall EXCEPT !.op = op, !.tag = tag, !.ch = Head(m_free_channels)])
        /\ UNCHANGED <<m_open_channels, m_next_channel_id>>
    BY <1>0, <1>1, <1>2 DEF GetChannel
  <2>2. /\ Base'
        /\ Entered(broker, [NoCall EXCEPT !.op = op, !.tag = tag, !.ch = Head(m_free_channels)], m_open_channels)
    BY <1>0, <1>2, <2>1, FreeChannelTaken
  <2> QED BY <1>0, <1>2, <2>1, <2>2, FreeChannelAnswers
<1>3. CASE m_free_channels = <<>>
  <2>1. /\ m_next_channel_id' = GetNextChannelId
        /\ m_open_channels' = Insert(m_open_channels, GetNextChannelId, <<>>)
        /\ Send(broker, Request("channel.open", NoTag),
                [NoCall EXCEPT !.op = op, !.tag = tag, !.ch = GetNextChannelId, !.stage = "open"])
        /\ UNCHANGED m_free_channels
    BY <1>0, <1>1, <1>3 DEF GetChannel
  <2>2. /\ Base'
        /\ call' = [NoCall EXCEPT !.op = op, !.tag = tag, !.ch = m_next_channel_id + 1, !.stage = "open"]
        /\ m_open_channels' \in [DOMAIN m_open_channels \cup {m_next_channel_id + 1} -> Seq(Wire)]
        /\ m_open_channels'[m_next_channel_id + 1] = <<>>
        /\ \A d \in DOMAIN m_open_channels : m_open_channels'[d] = m_open_channels[d]
        /\ Served(broker, broker', m_next_channel_id + 1, Request("channel.open", NoTag))
    BY <1>0, <1>3, <2>1, ChannelCreated
  <2> QED BY <1>0, <2>1, <2>2, NewChannelAnswers
<1> QED BY <1>2, <1>3

\* Nothing has been asked yet.
LEMMA InitAnswers ==
  ASSUME Init
  PROVE  AnswerInv /\ PublishInv
<1>1. ~Busy /\ DOMAIN m_free_channels = {} /\ DOMAIN m_consumer_channel_map = {} /\ outcomes = {}
  BY CallTypes DEF Init, Busy
<1>2. broker.returned = {}
  BY DEF Init, NewBroker
<1> QED BY <1>1, <1>2 DEF AnswerInv, PublishInv

\* Every step keeps the answers where they belong.
LEMMA NextAnswers ==
  ASSUME FewCalls, Base, AnswerInv, PublishInv, [Next]_vars
  PROVE  AnswerInv' /\ PublishInv'
<1>0. Base'
  BY NextBase
<1>1. CASE DoRpc \/ BasicPublish \/ BasicGet \/ \E tag \in Tags : BasicConsume(tag)
  <2>1. {"DoRpc", "BasicPublish", "BasicGet", "BasicConsume"} \subseteq Pooled
    BY DEF Pooled
  <2> QED BY <1>1, <2>1, PooledCallAnswers DEF DoRpc, BasicPublish, BasicGet, BasicConsume
<1>2. ASSUME NEW tag \in Tags, BasicRecover(tag) \/ BasicQos(tag) \/ BasicCancel(tag)
      PROVE  AnswerInv' /\ PublishInv'
  BY <1>2, ConsumerCallAnswers DEF BasicRecover, BasicQos, BasicCancel
<1>3. ASSUME NEW tag \in Tags, BasicConsumeMessage(tag) PROVE AnswerInv' /\ PublishInv'
  <2>1. AnswerInv'
    BY <1>0, <1>3, ConsumeMessageAnswers
  <2>2. UNCHANGED <<broker, outcomes>>
    BY <1>3 DEF BasicConsumeMessage
  <2> QED BY <2>1, <2>2 DEF PublishInv
<1>4. ASSUME NEW e \in envelopes, BasicAck(e) PROVE AnswerInv' /\ PublishInv'
  BY <1>4, AckAnswers
<1>5. CASE CallStep
  BY <1>5, CallSteps, MethodTakenAnswers, ContentTakenAnswers, CloseAnswers, QueuedAnswers, LostAnswers
<1>6. CASE Timeout
  BY <1>6, TimeoutAnswers
<1>7. ASSUME NEW c \in Ids, NEW tag \in Tags, Deliver(c, tag) PROVE AnswerInv' /\ PublishInv'
  BY <1>7, DeliverAnswers
<1>8. CASE ForceClose
  BY <1>8, ForceCloseAnswers
<1>9. CASE UNCHANGED vars
  <2>1. UNCHANGED <<m_open_channels, m_free_channels, m_consumer_channel_map, m_is_connected,
                    call, broker, outcomes>>
    BY <1>9 DEF vars, impl, history
  <2>2. PublishInv'
    BY <2>1 DEF PublishInv
  <2>3. AnswerInv'
    BY <2>1 DEF AnswerInv, Busy, Stream
  <2> QED BY <2>2, <2>3
<1> QED BY <1>1, <1>2, <1>3, <1>4, <1>5, <1>6, <1>7, <1>8, <1>9 DEF Next

\* Where the answers are is an invariant.
LEMMA AnswersInvariant ==
  ASSUME FewCalls
  PROVE  Spec => [](Base /\ AnswerInv /\ PublishInv)
<1>1. Init => Base /\ AnswerInv /\ PublishInv
  BY InitBase, InitAnswers
<1>2. Base /\ AnswerInv /\ PublishInv /\ [Next]_vars => (Base /\ AnswerInv /\ PublishInv)'
  BY NextBase, NextAnswers
<1> QED BY <1>1, <1>2, PTL DEF Spec

\* A channel in the free list is open, is there once, is no consumer's and no running
\* call's, and no answer to an earlier call is still to be read on it (ReturnChannel, GetChannel).
THEOREM CleanChannels == FewCalls => (Spec => []FreeChannelsClean)
<1> SUFFICES ASSUME FewCalls PROVE Spec => []FreeChannelsClean
  OBVIOUS
<1>0. Spec => [](Base /\ AnswerInv /\ PublishInv)
  BY AnswersInvariant
<1>1. Base /\ AnswerInv /\ PublishInv => FreeChannelsClean
  <2> SUFFICES ASSUME Base, AnswerInv PROVE FreeChannelsClean
    OBVIOUS
  <2>1. \A i, j \in DOMAIN m_free_channels : m_free_channels[i] = m_free_channels[j] => i = j
    BY DEF Base, ChannelInv
  <2>2. ASSUME NEW c \in Range(m_free_channels)
        PROVE  /\ c \in DOMAIN m_open_channels \ {0}
               /\ broker.consumers[c] = {}
               /\ call.op # "none" => c # call.ch
               /\ c \notin Range(m_consumer_channel_map)
               /\ \A f \in Range(m_open_channels[c] \o broker.out[c]) :
                     f.type = "METHOD" => f.id \notin ReplyMethods
    <3>1. PICK i \in DOMAIN m_free_channels : c = m_free_channels[i]
      BY DEF Range
    <3>2. c \in DOMAIN m_open_channels \ {0} /\ (call.op # "none" => c # call.ch)
      BY <3>1 DEF Base, ChannelInv, Busy
    <3>3. c \notin Range(m_consumer_channel_map)
      BY <3>1 DEF Base, ChannelInv, Range
    <3>4. broker.consumers[c] = {} /\ Answers(m_open_channels[c] \o broker.out[c]) = {}
      BY <3>1 DEF AnswerInv, Stream, Flow
    <3>5. "basic.deliver" \notin ReplyMethods /\ "channel.close" \notin ReplyMethods
      <4>1. \A op \in Ops : "channel.close" \notin Responses[op]
        BY DEF Ops, Responses
      <4>2. \A s \in DOMAIN Prelude : "channel.close" \notin Prelude[s]
        BY DEF Prelude
      <4> QED BY <4>1, <4>2 DEF ReplyMethods
    <3>6. \A f \in Range(m_open_channels[c] \o broker.out[c]) : f.type = "METHOD" => f.id \notin ReplyMethods
      <4> DEFINE s == m_open_channels[c] \o broker.out[c]
      <4> SUFFICES ASSUME NEW j \in DOMAIN s, s[j].type = "METHOD" PROVE s[j].id \notin ReplyMethods
        BY DEF Range
      <4> HIDE DEF s
      <4>1. ~Answer(s[j])
        BY <3>4 DEF Answers, s
      <4> QED BY <3>5, <4>1 DEF Answer
    <3> QED BY <3>2, <3>3, <3>4, <3>6
  <2> QED BY <2>1, <2>2 DEF FreeChannelsClean
<1> QED BY <1>0, <1>1, PTL

-----------------------------------------------------------------------------
(* Contents.                                                                *)

\* A method that a content follows.
Carrier(f) == f.type = "METHOD" /\ f.id \in {"basic.deliver", "basic.get-ok", "basic.return"}

\* A message with n body frames begins at position j of s.
MessageAt(s, j, n) ==
    /\ j \in 1 .. Len(s) /\ n \in Nat /\ j + 1 + n <= Len(s)
    /\ Carrier(s[j])
    /\ s[j + 1] = Header(s[j].msg, n)
    /\ \A k \in 1 .. n : s[j + 1 + k] = Body(s[j].msg, k)

\* The frame at position i of s belongs to the content of a message behind the first r frames.
Contained(s, r, i) ==
    \E j \in r + 1 .. Len(s), n \in Nat : MessageAt(s, j, n) /\ j < i /\ i <= j + 1 + n

\* Behind the first r frames of s every message is whole, and every frame of a content
\* belongs to one.
Whole(s, r) ==
    /\ \A i \in r + 1 .. Len(s) : Carrier(s[i]) => \E n \in Nat : MessageAt(s, i, n)
    /\ \A i \in r + 1 .. Len(s) : s[i].type # "METHOD" => Contained(s, r, i)

\* The first r frames of s are what call k has still to read of the content of its message.
RestOf(s, k, r) ==
    /\ r \in 1 .. Len(s)
    /\ k.stage = "header" => /\ s[1] = Header(k.held.msg, r - 1)
                             /\ \A i \in 2 .. r : s[i] = Body(k.held.msg, i - 1)
    /\ k.stage = "body" => /\ k.header = Header(k.held.msg, Len(k.body) + r)
                           /\ \A i \in 1 .. Len(k.body) : k.body[i] = Body(k.held.msg, i)
                           /\ \A i \in 1 .. r : s[i] = Body(k.held.msg, Len(k.body) + i)

\* Call k has read its method out of turn, past deliveries that a cancelled consumer left:
\* the next frame is no header, and the call will throw.
Misplaced(s, k) ==
    /\ k.stage = "header" /\ k.op \in {"BasicPublish", "BasicGet"}
    /\ 1 \in 1 .. Len(s) /\ s[1].type = "METHOD"

\* What call k has read of its content, and what it still finds on its channel.
Reads(s, k) ==
    /\ k.stage \notin {"body", "confirm"} => k.body = <<>>
    /\ k.stage \in MethodStages => Whole(s, 0)
    /\ k.stage = "confirm" => k.header.msg = k.pub
    /\ k.op = "BasicPublish" /\ k.stage \in ContentStages => k.held.msg = k.pub
    /\ k.stage \in ContentStages => \/ \E r \in 1 .. Len(s) : RestOf(s, k, r) /\ Whole(s, r)
                                    \/ Misplaced(s, k)

\* On a channel that no call uses there are whole messages, and on the channel of the
\* call what is left of its own comes first.
ContentInv ==
    /\ \A i \in DOMAIN m_free_channels : Whole(Stream(m_free_channels[i]), 0)
    /\ \A tag \in DOMAIN m_consumer_channel_map :
          LET c == m_consumer_channel_map[tag]
          IN  m_is_connected /\ c \in DOMAIN m_open_channels /\ ~(Busy /\ c = call.ch) => Whole(Stream(c), 0)
    /\ Busy => Reads(Stream(call.ch), call)

\* The envelopes and outcomes of the calls that have ended.
RecordInv ==
    /\ EnvelopesIntact
    /\ \A o \in outcomes : o.returned => o.content = o.pub

\* The types of frames.
LEMMA FrameKinds ==
  /\ \A m, n : Header(m, n).type = "HEADER" /\ Header(m, n).n = n /\ Header(m, n).msg = m
  /\ \A m, n : Body(m, n).type = "BODY"
  /\ \A id, tag, m : /\ Method(id, tag, m).type = "METHOD" /\ Method(id, tag, m).id = id
                     /\ Method(id, tag, m).msg = m
<1>1. \A m, n : Header(m, n).type = "HEADER" /\ Header(m, n).n = n /\ Header(m, n).msg = m
  BY DEF Header
<1>2. \A m, n : Body(m, n).type = "BODY"
  BY DEF Body
<1>3. \A id, tag, m : /\ Method(id, tag, m).type = "METHOD" /\ Method(id, tag, m).id = id
                      /\ Method(id, tag, m).msg = m
  BY DEF Method
<1> QED BY <1>1, <1>2, <1>3

\* Behind its method a message has no method.
LEMMA MessageKinds ==
  ASSUME NEW s \in Seq(Wire), NEW j, NEW n, MessageAt(s, j, n)
  PROVE  /\ s[j].type = "METHOD" /\ j \in Nat /\ n \in Nat /\ s[j + 1].n = n
         /\ \A i \in j + 1 .. j + 1 + n : s[i].type # "METHOD"
<1>1. j \in Nat /\ n \in Nat /\ Carrier(s[j]) /\ s[j + 1] = Header(s[j].msg, n)
  BY DEF MessageAt
<1>2. s[j].type = "METHOD" /\ s[j + 1].n = n /\ s[j + 1].type = "HEADER"
  BY <1>1, FrameKinds DEF Carrier
<1>3. ASSUME NEW i \in j + 1 .. j + 1 + n PROVE s[i].type # "METHOD"
  <2>1. CASE i = j + 1
    BY <1>2, <2>1
  <2>2. CASE i # j + 1
    <3>1. i - (j + 1) \in 1 .. n /\ j + 1 + (i - (j + 1)) = i
      BY <1>1, <2>2
    <3>2. s[i] = Body(s[j].msg, i - (j + 1))
      BY <3>1 DEF MessageAt
    <3> QED BY <3>2, FrameKinds
  <2> QED BY <2>1, <2>2
<1> QED BY <1>1, <1>2, <1>3

\* A message that begins at j of s begins at i of t, where the same frames are.
LEMMA MessageMoved ==
  ASSUME NEW s \in Seq(Wire), NEW t \in Seq(Wire), NEW j, NEW n, MessageAt(s, j, n), NEW i \in 1 .. Len(t),
         i + 1 + n <= Len(t), \A k \in 0 .. n + 1 : t[i + k] = s[j + k]
  PROVE  MessageAt(t, i, n)
<1>1. j \in Nat /\ n \in Nat /\ i \in Nat
  BY DEF MessageAt
<1>2. t[i] = s[j]
  <2>1. 0 \in 0 .. n + 1 /\ i + 0 = i /\ j + 0 = j
    BY <1>1
  <2> QED BY <2>1
<1>3. t[i + 1] = s[j + 1]
  <2>1. 1 \in 0 .. n + 1
    BY <1>1
  <2> QED BY <2>1
<1>4. \A k \in 1 .. n : t[i + 1 + k] = s[j + 1 + k]
  <2> SUFFICES ASSUME NEW k \in 1 .. n PROVE t[i + 1 + k] = s[j + 1 + k]
    OBVIOUS
  <2>1. k + 1 \in 0 .. n + 1 /\ i + (k + 1) = i + 1 + k /\ j + (k + 1) = j + 1 + k
    BY <1>1
  <2> QED BY <2>1
<1> QED BY <1>1, <1>2, <1>3, <1>4 DEF MessageAt

\* Frames in front of a message that is not whole are none of those behind it.
LEMMA WholeFirst ==
  ASSUME NEW s \in Seq(Wire), Whole(s, 0), 1 \in 1 .. Len(s)
  PROVE  s[1].type = "METHOD"
<1> SUFFICES ASSUME s[1].type # "METHOD" PROVE FALSE
  OBVIOUS
<1>1. 1 \in 0 + 1 .. Len(s)
  OBVIOUS
<1>2. Contained(s, 0, 1)
  BY <1>1 DEF Whole
<1> QED BY <1>2 DEF Contained

\* Messages are added behind those on their way.
LEMMA WholeJoined ==
  ASSUME NEW s \in Seq(Wire), NEW r \in 0 .. Len(s), Whole(s, r), NEW u \in Seq(Wire), Whole(u, 0)
  PROVE  /\ s \o u \in Seq(Wire) /\ Len(s) <= Len(s \o u) /\ Whole(s \o u, r)
         /\ \A i \in 1 .. Len(s) : (s \o u)[i] = s[i]
<1> DEFINE z == s \o u
           a == Len(s)
           b == Len(u)
<1>1. /\ z \in Seq(Wire) /\ Len(z) = a + b
      /\ \A i \in 1 .. a + b : z[i] = IF i <= a THEN s[i] ELSE u[i - a]
  BY ConcatProperties
<1>2. a \in Nat /\ b \in Nat /\ r \in Nat /\ r <= a
  BY LenProperties
<1> HIDE DEF z
<1>3. \A i \in 1 .. a : i \in 1 .. a + b /\ z[i] = s[i]
  BY <1>1, <1>2
<1>4. \A i \in 1 .. b : a + i \in 1 .. a + b /\ z[a + i] = u[i]
  <2> SUFFICES ASSUME NEW i \in 1 .. b PROVE a + i \in 1 .. a + b /\ z[a + i] = u[i]
    OBVIOUS
  <2>1. a + i \in 1 .. a + b /\ ~(a + i <= a) /\ (a + i) - a = i
    BY <1>2
  <2> QED BY <1>1, <2>1
<1>5. ASSUME NEW j, NEW n, MessageAt(s, j, n) PROVE MessageAt(z, j, n)
  <2>1. j \in 1 .. a /\ n \in Nat /\ j + 1 + n <= a
    BY <1>5 DEF MessageAt
  <2>2. \A k \in 0 .. n + 1 : j + k \in 1 .. a
    BY <1>2, <2>1
  <2>3. j \in 1 .. Len(z) /\ j + 1 + n <= Len(z) /\ \A k \in 0 .. n + 1 : z[j + k] = s[j + k]
    BY <1>1, <1>2, <1>3, <2>1, <2>2
  <2> QED BY <1>1, <1>5, <2>3, MessageMoved
<1>6. ASSUME NEW j, NEW n, MessageAt(u, j, n) PROVE MessageAt(z, a + j, n)
  <2>1. j \in 1 .. b /\ n \in Nat /\ j + 1 + n <= b
    BY <1>6 DEF MessageAt
  <2>2. \A k \in 0 .. n + 1 : j + k \in 1 .. b /\ a + (j + k) = (a + j) + k
    BY <1>2, <2>1
  <2>3. \A k \in 0 .. n + 1 : z[(a + j) + k] = u[j + k]
    BY <1>4, <2>2
  <2>4. a + j \in 1 .. Len(z) /\ (a + j) + 1 + n <= Len(z)
    BY <1>1, <1>2, <2>1
  <2> QED BY <1>1, <1>6, <2>3, <2>4, MessageMoved
<1>7. \A i \in r + 1 .. Len(z) : i \in r + 1 .. a \/ \E j \in 0 + 1 .. b : i = a + j
  <2> SUFFICES ASSUME NEW i \in r + 1 .. Len(z), i \notin r + 1 .. a PROVE \E j \in 0 + 1 .. b : i = a + j
    OBVIOUS
  <2>1. i - a \in 0 + 1 .. b /\ i = a + (i - a)
    BY <1>1, <1>2
  <2> QED BY <2>1
<1>8. ASSUME NEW i \in r + 1 .. Len(z), Carrier(z[i]) PROVE \E n \in Nat : MessageAt(z, i, n)
  <2>1. CASE i \in r + 1 .. a
    <3>1. Carrier(s[i])
      BY <1>2, <1>3, <1>8, <2>1
    <3>2. PICK n \in Nat : MessageAt(s, i, n)
      BY <2>1, <3>1 DEF Whole
    <3> QED BY <1>5, <3>2
  <2>2. ASSUME NEW j \in 0 + 1 .. b, i = a + j PROVE \E n \in Nat : MessageAt(z, i, n)
    <3>1. Carrier(u[j])
      BY <1>4, <1>8, <2>2
    <3>2. PICK n \in Nat : MessageAt(u, j, n)
      BY <3>1 DEF Whole
    <3> QED BY <1>6, <2>2, <3>2
  <2> QED BY <1>7, <2>1, <2>2
<1>9. ASSUME NEW i \in r + 1 .. Len(z), z[i].type # "METHOD" PROVE Contained(z, r, i)
  <2>1. CASE i \in r + 1 .. a
    <3>1. s[i].type # "METHOD"
      BY <1>2, <1>3, <1>9, <2>1
    <3>2. PICK j \in r + 1 .. a, n \in Nat : MessageAt(s, j, n) /\ j < i /\ i <= j + 1 + n
      BY <2>1, <3>1 DEF Whole, Contained
    <3>3. j \in r + 1 .. Len(z) /\ MessageAt(z, j, n)
      BY <1>1, <1>2, <1>5, <3>2
    <3> QED BY <3>2, <3>3 DEF Contained
  <2>2. ASSUME NEW l \in 0 + 1 .. b, i = a + l PROVE Contained(z, r, i)
    <3>1. u[l].type # "METHOD"
      BY <1>4, <1>9, <2>2
    <3>2. PICK j \in 0 + 1 .. b, n \in Nat : MessageAt(u, j, n) /\ j < l /\ l <= j + 1 + n
      BY <3>1 DEF Whole, Contained
    <3>3. a + j \in r + 1 .. Len(z) /\ a + j < i /\ i <= a + j + 1 + n
      BY <1>1, <1>2, <2>2, <3>2
    <3>4. MessageAt(z, a + j, n)
      BY <1>6, <3>2
    <3> QED BY <3>3, <3>4 DEF Contained
  <2> QED BY <1>7, <2>1, <2>2
<1>10. Whole(z, r) /\ Len(s) <= Len(z)
  BY <1>1, <1>2, <1>8, <1>9 DEF Whole
<1> QED BY <1>1, <1>3, <1>10 DEF z

\* A frame is taken that belongs to no message, or is one of the first r.
LEMMA WholeLeft ==
  ASSUME NEW s \in Seq(Wire), NEW r \in 0 .. Len(s), Whole(s, r), NEW p \in 1 .. Len(s),
         p <= r \/ (s[p].type = "METHOD" /\ ~Carrier(s[p]))
  PROVE  Whole(RemoveAt(s, p), IF p <= r THEN r - 1 ELSE r)
<1> DEFINE t == RemoveAt(s, p)
           a == Len(s)
           r2 == IF p <= r THEN r - 1 ELSE r
           g(j) == IF j < p THEN j ELSE j - 1
           h(i) == IF i < p THEN i ELSE i + 1
<1>1. /\ t \in Seq(Wire) /\ Len(t) = a - 1
      /\ \A i \in 1 .. a - 1 : t[i] = s[IF i < p THEN i ELSE i + 1]
  BY Removed
<1>2. a \in Nat /\ p \in 1 .. a /\ r \in 0 .. a
  BY LenProperties
<1> HIDE DEF t
<1>3. ASSUME NEW j \in r + 1 .. a, NEW n, MessageAt(s, j, n)
      PROVE  n \in Nat /\ j + 1 + n <= a /\ (p < j \/ p > j + 1 + n)
  <2>1. n \in Nat /\ j + 1 + n <= a /\ Carrier(s[j])
    BY <1>3 DEF MessageAt
  <2>2. p # j
    BY <1>2, <2>1
  <2>3. \A i \in j + 1 .. j + 1 + n : s[i].type # "METHOD"
    BY <1>3, MessageKinds
  <2>4. p \notin j + 1 .. j + 1 + n
    BY <1>2, <2>3
  <2> QED BY <1>2, <2>1, <2>2, <2>4
<1>4. ASSUME NEW j \in r + 1 .. a, NEW n, MessageAt(s, j, n)
      PROVE  g(j) \in r2 + 1 .. a - 1 /\ MessageAt(t, g(j), n)
  <2>1. n \in Nat /\ j + 1 + n <= a /\ (p < j \/ p > j + 1 + n)
    BY <1>3, <1>4
  <2>2. CASE p < j
    <3>1. g(j) = j - 1 /\ g(j) \in r2 + 1 .. a - 1 /\ g(j) \in 1 .. a - 1 /\ g(j) + 1 + n <= a - 1
      BY <1>2, <2>1, <2>2
    <3>2. \A k \in 0 .. n + 1 : t[g(j) + k] = s[j + k]
      <4> SUFFICES ASSUME NEW k \in 0 .. n + 1 PROVE t[g(j) + k] = s[j + k]
        OBVIOUS
      <4>1. j - 1 + k \in 1 .. a - 1 /\ ~(j - 1 + k < p) /\ j - 1 + k + 1 = j + k
        BY <1>2, <2>1, <2>2
      <4> QED BY <1>1, <3>1, <4>1
    <3> HIDE DEF g
    <3> QED BY <1>1, <1>4, <3>1, <3>2, MessageMoved
  <2>3. CASE p > j + 1 + n
    <3>1. g(j) = j /\ g(j) \in r2 + 1 .. a - 1 /\ g(j) \in 1 .. a - 1 /\ g(j) + 1 + n <= a - 1
      BY <1>2, <2>1, <2>3
    <3>2. \A k \in 0 .. n + 1 : t[g(j) + k] = s[j + k]
      <4> SUFFICES ASSUME NEW k \in 0 .. n + 1 PROVE t[g(j) + k] = s[j + k]
        OBVIOUS
      <4>1. j + k \in 1 .. a - 1 /\ j + k < p
        BY <1>2, <2>1, <2>3
      <4> QED BY <1>1, <3>1, <4>1
    <3> HIDE DEF g
    <3> QED BY <1>1, <1>4, <3>1, <3>2, MessageMoved
  <2> QED BY <2>1, <2>2, <2>3
<1>5. \A i \in r2 + 1 .. a - 1 : h(i) \in r + 1 .. a /\ t[i] = s[h(i)] /\ g(h(i)) = i
  <2> SUFFICES ASSUME NEW i \in r2 + 1 .. a - 1 PROVE h(i) \in r + 1 .. a /\ t[i] = s[h(i)] /\ g(h(i)) = i
    OBVIOUS
  <2>1. i \in 1 .. a - 1
    BY <1>2
  <2> QED BY <1>1, <1>2, <2>1
<1>6. ASSUME NEW i \in r2 + 1 .. a - 1, Carrier(t[i]) PROVE \E n \in Nat : MessageAt(t, i, n)
  <2>1. h(i) \in r + 1 .. a /\ Carrier(s[h(i)]) /\ g(h(i)) = i
    BY <1>5, <1>6
  <2> HIDE DEF g, h
  <2>2. PICK n \in Nat : MessageAt(s, h(i), n)
    BY <2>1 DEF Whole
  <2> QED BY <1>4, <2>1, <2>2
<1>7. ASSUME NEW i \in r2 + 1 .. a - 1, t[i].type # "METHOD" PROVE Contained(t, r2, i)
  <2>1. h(i) \in r + 1 .. a /\ s[h(i)].type # "METHOD"
    BY <1>5, <1>7
  <2>2. PICK j \in r + 1 .. a, n \in Nat : MessageAt(s, j, n) /\ j < h(i) /\ h(i) <= j + 1 + n
    <3> HIDE DEF h
    <3> QED BY <2>1 DEF Whole, Contained
  <2>3. g(j) \in r2 + 1 .. a - 1 /\ MessageAt(t, g(j), n) /\ (p < j \/ p > j + 1 + n)
    BY <1>3, <1>4, <2>2
  <2>4. g(j) < i /\ i <= g(j) + 1 + n
    BY <1>2, <2>2, <2>3
  <2> HIDE DEF g, h, r2
  <2> QED BY <1>1, <2>3, <2>4 DEF Contained
<1> HIDE DEF g, h, r2
<1>8. Whole(t, r2)
  BY <1>1, <1>6, <1>7 DEF Whole
<1> QED BY <1>8 DEF t, r2

\* The method of the message that comes first is taken: its content is what comes next.
LEMMA MessageTaken ==
  ASSUME NEW s \in Seq(Wire), Whole(s, 0), 1 \in 1 .. Len(s), Carrier(s[1]),
         NEW k, k.stage = "header", k.held = s[1]
  PROVE  \E r \in 1 .. Len(RemoveAt(s, 1)) : RestOf(RemoveAt(s, 1), k, r) /\ Whole(RemoveAt(s, 1), r)
<1> DEFINE t == RemoveAt(s, 1)
           a == Len(s)
           m == s[1].msg
<1>1. 1 \in 0 + 1 .. a
  OBVIOUS
<1>2. PICK n \in Nat : MessageAt(s, 1, n)
  BY <1>1 DEF Whole
<1>3. /\ a \in Nat /\ 1 + 1 + n <= a /\ s[1 + 1] = Header(m, n) /\ s[1 + 1].n = n
      /\ \A i \in 1 .. n : s[1 + 1 + i] = Body(m, i)
      /\ \A i \in 1 + 1 .. 1 + 1 + n : s[i].type # "METHOD"
  <2>1. /\ s[1 + 1].n = n
        /\ \A i \in 1 + 1 .. 1 + 1 + n : s[i].type # "METHOD"
    BY <1>2, MessageKinds
  <2>2. /\ 1 + 1 + n <= a /\ s[1 + 1] = Header(m, n)
        /\ \A i \in 1 .. n : s[1 + 1 + i] = Body(m, i)
    BY <1>2 DEF MessageAt
  <2>3. a \in Nat
    BY LenProperties
  <2> QED BY <2>1, <2>2, <2>3
<1>4. ASSUME NEW i \in n + 2 + 1 .. a, s[i].type # "METHOD" PROVE Contained(s, n + 2, i)
  <2>1. i \in 0 + 1 .. a
    BY <1>3
  <2>2. PICK j \in 0 + 1 .. a, l \in Nat : MessageAt(s, j, l) /\ j < i /\ i <= j + 1 + l
    BY <1>4, <2>1 DEF Whole, Contained
  <2>3. s[j].type = "METHOD" /\ s[j + 1].n = l
    BY <2>2, MessageKinds
  <2>4. j # 1
    <3>1. CASE j = 1
      <4>1. l = n
        BY <1>3, <2>3, <3>1
      <4> QED BY <1>3, <2>2, <3>1, <4>1
    <3> QED BY <3>1
  <2>5. j \notin 2 .. n + 2
    BY <1>3, <2>3
  <2>6. j \in n + 2 + 1 .. a
    BY <2>4, <2>5
  <2> QED BY <2>2, <2>6 DEF Contained
<1>5. Whole(s, n + 2)
  <2>1. \A i \in n + 2 + 1 .. a : i \in 0 + 1 .. a
    BY <1>3
  <2>2. \A i \in n + 2 + 1 .. a : Carrier(s[i]) => \E l \in Nat : MessageAt(s, i, l)
    BY <2>1 DEF Whole
  <2> QED BY <1>4, <2>2 DEF Whole
<1>6. Whole(t, n + 1)
  <2>1. n + 2 \in 0 .. a /\ 1 <= n + 2 /\ n + 2 - 1 = n + 1
    BY <1>3
  <2>2. Whole(t, IF 1 <= n + 2 THEN n + 2 - 1 ELSE n + 2)
    BY <1>5, <2>1, WholeLeft
  <2> HIDE DEF t
  <2> QED BY <2>1, <2>2
<1>7. t \in Seq(Wire) /\ Len(t) = a - 1 /\ \A i \in 1 .. a - 1 : t[i] = s[IF i < 1 THEN i ELSE i + 1]
  BY Removed
<1> HIDE DEF t
<1>8. t[1] = Header(m, n + 1 - 1) /\ n + 1 \in 1 .. Len(t)
  <2>1. 1 \in 1 .. a - 1 /\ ~(1 < 1) /\ n + 1 - 1 = n /\ n + 1 \in 1 .. a - 1
    BY <1>3
  <2>2. t[1] = s[1 + 1]
    BY <1>7, <2>1
  <2> QED BY <1>3, <1>7, <2>1, <2>2
<1>9. ASSUME NEW i \in 2 .. n + 1 PROVE t[i] = Body(m, i - 1)
  <2>1. i \in 1 .. a - 1 /\ ~(i < 1) /\ i - 1 \in 1 .. n /\ 1 + 1 + (i - 1) = i + 1
    BY <1>3
  <2>2. t[i] = s[i + 1]
    BY <1>7, <2>1
  <2> QED BY <1>3, <2>1, <2>2
<1>10. RestOf(t, k, n + 1)
  BY <1>8, <1>9 DEF RestOf
<1> QED BY <1>6, <1>8, <1>10 DEF t

\* Nothing, and a single method.
LEMMA WholeSmall ==
  /\ Whole(<<>>, 0)
  /\ \A f \in Wire : f.type = "METHOD" /\ ~Carrier(f) => <<f>> \in Seq(Wire) /\ Whole(<<f>>, 0)
<1>1. Whole(<<>>, 0)
  BY DEF Whole
<1>2. ASSUME NEW f \in Wire, f.type = "METHOD", ~Carrier(f) PROVE <<f>> \in Seq(Wire) /\ Whole(<<f>>, 0)
  <2>1. <<f>> \in Seq(Wire) /\ Len(<<f>>) = 1 /\ <<f>>[1] = f
    OBVIOUS
  <2> DEFINE u == <<f>>
  <2>2. \A i \in 0 + 1 .. Len(u) : u[i] = f
    BY <2>1
  <2> HIDE DEF u
  <2>3. Whole(u, 0)
    BY <1>2, <2>2 DEF Whole
  <2> QED BY <2>1, <2>3 DEF u
<1> QED BY <1>1, <1>2

\* A message is whole, and with a method behind it.
LEMMA WholeMessage ==
  ASSUME NEW id \in {"basic.deliver", "basic.get-ok", "basic.return"}, NEW tag \in Tags \cup {NoTag},
         NEW m \in Nat, NEW n \in Nat
  PROVE  /\ <<Method(id, tag, m)>> \o Content(m, n) \in Seq(Wire)
         /\ Whole(<<Method(id, tag, m)>> \o Content(m, n), 0)
         /\ <<Method(id, tag, m)>> \o Content(m, n) \o <<Method("basic.ack", NoTag, m)>> \in Seq(Wire)
         /\ Whole(<<Method(id, tag, m)>> \o Content(m, n) \o <<Method("basic.ack", NoTag, m)>>, 0)
<1> DEFINE u == <<Method(id, tag, m)>> \o Content(m, n)
           g == Method("basic.ack", NoTag, m)
           v == u \o <<g>>
<1>1. id \in MethodIds /\ "basic.ack" \in MethodIds
  BY DEF MethodIds
<1>2. Framed(u, v, id, tag, m, n)
  BY <1>1, MessageParts
<1>3. g \in Wire /\ g.type = "METHOD" /\ ~Carrier(g)
  <2>1. g \in Wire
    BY <1>1, FrameTypes
  <2>2. g.type = "METHOD" /\ g.id = "basic.ack"
    BY FrameKinds
  <2> QED BY <2>1, <2>2 DEF Carrier
<1> HIDE DEF u, g
<1>4. /\ u \in Seq(Wire) /\ v \in Seq(Wire) /\ Len(u) = n + 2 /\ u[1] = Method(id, tag, m) /\ u[2] = Header(m, n)
      /\ \A i \in 1 .. n : u[i + 2] = Body(m, i)
  BY <1>2 DEF Framed
<1>5. MessageAt(u, 1, n)
  <2>1. Carrier(u[1]) /\ u[1].msg = m
    BY <1>4, FrameKinds DEF Carrier
  <2>2. 1 \in 1 .. Len(u) /\ 1 + 1 + n <= Len(u) /\ 1 + 1 = 2
    BY <1>4
  <2>3. \A i \in 1 .. n : u[1 + 1 + i] = Body(m, i)
    <3> SUFFICES ASSUME NEW i \in 1 .. n PROVE u[1 + 1 + i] = Body(m, i)
      OBVIOUS
    <3>1. 1 + 1 + i = i + 2
      OBVIOUS
    <3> QED BY <1>4, <3>1
  <2> QED BY <1>4, <2>1, <2>2, <2>3 DEF MessageAt
<1>6. \A i \in 1 + 1 .. 1 + 1 + n : u[i].type # "METHOD"
  <2> SUFFICES ASSUME NEW i \in 1 + 1 .. 1 + 1 + n PROVE u[i].type # "METHOD"
    OBVIOUS
  <2>1. CASE i = 2
    BY <1>4, <2>1, FrameKinds
  <2>2. CASE i # 2
    <3>1. i - 2 \in 1 .. n /\ (i - 2) + 2 = i
      BY <2>2
    <3>2. u[i] = Body(m, i - 2)
      BY <1>4, <3>1
    <3> QED BY <3>2, FrameKinds
  <2> QED BY <2>1, <2>2
<1>7. \A i \in 0 + 1 .. Len(u) : i = 1 \/ i \in 1 + 1 .. 1 + 1 + n
  BY <1>4
<1>8. \A i \in 0 + 1 .. Len(u) : Carrier(u[i]) => \E l \in Nat : MessageAt(u, i, l)
  BY <1>5, <1>6, <1>7 DEF Carrier
<1>9. \A i \in 0 + 1 .. Len(u) : u[i].type # "METHOD" => Contained(u, 0, i)
  <2> SUFFICES ASSUME NEW i \in 0 + 1 .. Len(u), u[i].type # "METHOD" PROVE Contained(u, 0, i)
    OBVIOUS
  <2>1. i # 1
    BY <1>4, FrameKinds
  <2>2. 1 < i /\ i <= 1 + 1 + n /\ 1 \in 0 + 1 .. Len(u)
    BY <1>4, <1>7, <2>1
  <2> QED BY <1>5, <2>2 DEF Contained
<1>10. Whole(u, 0)
  BY <1>8, <1>9 DEF Whole
<1>11. <<g>> \in Seq(Wire) /\ Whole(<<g>>, 0)
  BY <1>3, WholeSmall
<1>12. 0 \in 0 .. Len(u)
  BY <1>4
<1>13. Whole(v, 0)
  BY <1>4, <1>10, <1>11, <1>12, WholeJoined
<1> QED BY <1>4, <1>10, <1>13 DEF u, g

\* Whole messages and single methods have been added to s, which gives s2.
Added(s, s2) == \E u \in Seq(Wire) : Whole(u, 0) /\ s2 = s \o u

\* What was whole stays whole.
LEMMA AddedWhole ==
  ASSUME NEW s \in Seq(Wire), Whole(s, 0), NEW s2, Added(s, s2)
  PROVE  s2 \in Seq(Wire) /\ Whole(s2, 0)
<1>1. PICK u \in Seq(Wire) : Whole(u, 0) /\ s2 = s \o u
  BY DEF Added
<1>2. 0 \in 0 .. Len(s)
  BY LenProperties
<1> QED BY <1>1, <1>2, WholeJoined

\* What a call reads stays in front of what is added.
LEMMA ReadsAdded ==
  ASSUME NEW s \in Seq(Wire), NEW k, Reads(s, k), NEW s2, Added(s, s2)
  PROVE  Reads(s2, k)
<1>1. PICK u \in Seq(Wire) : Whole(u, 0) /\ s2 = s \o u
  BY DEF Added
<1>2. 0 \in 0 .. Len(s) /\ Len(s) \in Nat
  BY LenProperties
<1>3. Whole(s, 0) => Whole(s2, 0)
  BY <1>1, <1>2, WholeJoined
<1>4. /\ s2 \in Seq(Wire) /\ Len(s) <= Len(s2) /\ \A i \in 1 .. Len(s) : s2[i] = s[i]
      /\ Len(s2) \in Nat
  <2>1. /\ s2 \in Seq(Wire) /\ Len(s2) = Len(s) + Len(u)
        /\ \A i \in 1 .. Len(s) + Len(u) : s2[i] = IF i <= Len(s) THEN s[i] ELSE u[i - Len(s)]
    BY <1>1, ConcatProperties
  <2>2. Len(u) \in Nat
    BY LenProperties
  <2> QED BY <1>2, <2>1, <2>2
<1>5. ASSUME NEW r \in 1 .. Len(s), RestOf(s, k, r), Whole(s, r)
      PROVE  r \in 1 .. Len(s2) /\ RestOf(s2, k, r) /\ Whole(s2, r)
  <2>1. r \in 0 .. Len(s) /\ r \in 1 .. Len(s2)
    BY <1>2, <1>4
  <2>2. Whole(s2, r)
    BY <1>1, <1>5, <2>1, WholeJoined
  <2>3. \A i \in 1 .. r : s2[i] = s[i]
    BY <1>2, <1>4
  <2>4. 1 \in 1 .. r /\ \A i \in 2 .. r : i \in 1 .. r
    BY <2>1
  <2>5. RestOf(s2, k, r)
    BY <1>5, <2>1, <2>3, <2>4 DEF RestOf
  <2> QED BY <2>1, <2>2, <2>5
<1>6. Misplaced(s, k) => Misplaced(s2, k)
  <2>1. 1 \in 1 .. Len(s) => 1 \in 1 .. Len(s2) /\ s2[1] = s[1]
    BY <1>2, <1>4
  <2> QED BY <2>1 DEF Misplaced
<1> QED BY <1>3, <1>5, <1>6 DEF Reads

\* What the broker sends when it serves a request (Serve).
LEMMA ServedAdds ==
  ASSUME NEW b \in Brokers, NEW b2, NEW c \in Ids \ {0}, NEW r, Served(b, b2, c, r), NEW x \in Seq(Wire)
  PROVE  Added(x \o b.out[c], x \o b2.out[c])
<1>1. b.out[c] \in Seq(Wire) /\ b.sent + 1 \in Nat /\ x \o b.out[c] \in Seq(Wire)
  <2>1. b.out[c] \in Seq(Wire) /\ b.sent \in Nat
    BY DEF Brokers
  <2> QED BY <2>1, ConcatProperties
<1>2. ASSUME NEW u \in Seq(Wire), Whole(u, 0), b2.out[c] = b.out[c] \o u
      PROVE  Added(x \o b.out[c], x \o b2.out[c])
  <2>1. (x \o b.out[c]) \o u = x \o (b.out[c] \o u)
    BY <1>1, Associated
  <2> QED BY <1>2, <2>1 DEF Added
<1>3. ASSUME NEW id \in MethodIds, NEW m \in Nat, id \notin {"basic.deliver", "basic.get-ok", "basic.return"}
      PROVE  <<Method(id, NoTag, m)>> \in Seq(Wire) /\ Whole(<<Method(id, NoTag, m)>>, 0)
  <2> DEFINE f == Method(id, NoTag, m)
  <2>1. f \in Wire /\ f.type = "METHOD" /\ f.id = id
    <3>1. f \in Wire
      BY FrameTypes
    <3>2. f.type = "METHOD" /\ f.id = id
      BY FrameKinds
    <3> QED BY <3>1, <3>2
  <2> HIDE DEF f
  <2>2. <<f>> \in Seq(Wire) /\ Whole(<<f>>, 0)
    BY <1>3, <2>1, WholeSmall DEF Carrier
  <2> QED BY <2>2 DEF f
<1>4. CASE Silent(b, b2, c, r)
  <2>1. <<>> \in Seq(Wire) /\ b2.out[c] = b.out[c] \o <<>>
    BY <1>1, <1>4, ConcatEmptySeq DEF Silent
  <2> QED BY <1>2, <2>1, WholeSmall
<1>5. CASE Closes(b, b2, c)
  <2>1. "channel.close" \in MethodIds /\ 0 \in Nat
    BY DEF MethodIds
  <2> QED BY <1>2, <1>3, <1>5, <2>1 DEF Closes, Plain
<1>6. ASSUME NEW u \in Seq(Wire), Replied(b, b2, c, r, u) PROVE Added(x \o b.out[c], x \o b2.out[c])
  <2> SUFFICES Whole(u, 0)
    BY <1>2, <1>6 DEF Replied
  <2>1. CASE r.id \in DOMAIN AnswerTo /\ u = <<Plain(AnswerTo[r.id])>>
    <3>1. AnswerTo[r.id] \in MethodIds \ {"basic.deliver", "basic.get-ok", "basic.return"} /\ 0 \in Nat
      BY <2>1 DEF AnswerTo, MethodIds
    <3> HIDE DEF AnswerTo
    <3> QED BY <1>3, <2>1, <3>1 DEF Plain
  <2>2. CASE u = <<Plain("basic.get-empty")>>
    <3>1. "basic.get-empty" \in MethodIds /\ 0 \in Nat
      BY DEF MethodIds
    <3> QED BY <1>3, <2>2, <3>1 DEF Plain
  <2>3. CASE \E m, n \in Nat : u = <<Method("basic.get-ok", NoTag, m)>> \o Content(m, n)
    BY <2>3, WholeMessage
  <2>4. CASE \E id \in {"basic.ack", "basic.nack"} : u = <<Method(id, NoTag, b.sent + 1)>>
    <3>1. {"basic.ack", "basic.nack"} \subseteq MethodIds \ {"basic.deliver", "basic.get-ok", "basic.return"}
      BY DEF MethodIds
    <3> QED BY <1>1, <1>3, <2>4, <3>1
  <2>5. CASE \E n \in Nat : u = <<Method("basic.return", NoTag, b.sent + 1)>> \o Content(b.sent + 1, n)
                                \o <<Method("basic.ack", NoTag, b.sent + 1)>>
    BY <1>1, <2>5, WholeMessage
  <2> QED BY <1>6, <2>1, <2>2, <2>3, <2>4, <2>5 DEF Replied
<1> QED BY <1>4, <1>5, <1>6 DEF Served

\* A step on channel c keeps ContentInv if what it leaves on c is whole.
LEMMA ContentStep ==
  ASSUME Base, Base', ContentInv, NEW c \in Ids \ {0}, OnlyOn(c), m_is_connected' => m_is_connected,
         Busy => call.ch = c \/ call' = call,
         \A i \in DOMAIN m_free_channels' :
            m_free_channels'[i] = c \/ \E j \in DOMAIN m_free_channels : m_free_channels'[i] = m_free_channels[j],
         \A t \in DOMAIN m_consumer_channel_map' :
            \/ m_consumer_channel_map'[t] = c
            \/ t \in DOMAIN m_consumer_channel_map /\ m_consumer_channel_map'[t] = m_consumer_channel_map[t],
         \A i \in DOMAIN m_free_channels' : m_free_channels'[i] = c => Whole(Flow(m_open_channels', broker', c), 0),
         \A t \in DOMAIN m_consumer_channel_map' : m_consumer_channel_map'[t] = c =>
            (m_is_connected' /\ c \in DOMAIN m_open_channels' /\ ~(Busy' /\ c = call'.ch) =>
                Whole(Flow(m_open_channels', broker', c), 0)),
         Busy' => Reads(Flow(m_open_channels', broker', call'.ch), call')
  PROVE  ContentInv'
<1>1. \A i \in DOMAIN m_free_channels' : Whole(Flow(m_open_channels', broker', m_free_channels'[i]), 0)
  <2> SUFFICES ASSUME NEW i \in DOMAIN m_free_channels', m_free_channels'[i] # c
               PROVE  Whole(Flow(m_open_channels', broker', m_free_channels'[i]), 0)
    OBVIOUS
  <2> DEFINE d == m_free_channels'[i]
  <2>1. d \in DOMAIN m_open_channels' /\ d \in Ids \ {0, c}
    BY DEF Base, ChannelInv, TypeInv
  <2>2. PICK j \in DOMAIN m_free_channels : d = m_free_channels[j]
    OBVIOUS
  <2>3. Whole(Stream(d), 0)
    BY <2>2 DEF ContentInv
  <2> HIDE DEF d
  <2>4. Flow(m_open_channels', broker', d) = Stream(d)
    BY <2>1 DEF OnlyOn
  <2> QED BY <2>3, <2>4 DEF d
<1>2. \A t \in DOMAIN m_consumer_channel_map' :
         /\ m_is_connected' /\ m_consumer_channel_map'[t] \in DOMAIN m_open_channels'
         /\ ~(Busy' /\ m_consumer_channel_map'[t] = call'.ch)
         => Whole(Flow(m_open_channels', broker', m_consumer_channel_map'[t]), 0)
  <2> SUFFICES ASSUME NEW t \in DOMAIN m_consumer_channel_map', m_consumer_channel_map'[t] # c
               PROVE  /\ m_is_connected' /\ m_consumer_channel_map'[t] \in DOMAIN m_open_channels'
                      /\ ~(Busy' /\ m_consumer_channel_map'[t] = call'.ch)
                      => Whole(Flow(m_open_channels', broker', m_consumer_channel_map'[t]), 0)
    OBVIOUS
  <2> DEFINE d == m_consumer_channel_map'[t]
  <2>1. t \in DOMAIN m_consumer_channel_map /\ d = m_consumer_channel_map[t]
    OBVIOUS
  <2>2. d \in Ids /\ d \in 2 .. m_next_channel_id /\ m_next_channel_id \in Ids
    BY <2>1 DEF Base, ChannelInv, TypeInv
  <2>3. d \in Ids \ {0, c}
    BY <2>2
  <2>4. m_is_connected /\ d \in DOMAIN m_open_channels /\ ~(Busy /\ d = call.ch) => Whole(Stream(d), 0)
    BY <2>1 DEF ContentInv
  <2> HIDE DEF d
  <2>5. d \in DOMAIN m_open_channels' =>
           d \in DOMAIN m_open_channels /\ Flow(m_open_channels', broker', d) = Stream(d)
    BY <2>3 DEF OnlyOn
  <2>6. Busy /\ d = call.ch => Busy' /\ d = call'.ch
    BY <2>3 DEF Busy
  <2>7. m_is_connected' /\ d \in DOMAIN m_open_channels' /\ ~(Busy' /\ d = call'.ch) =>
           Whole(Flow(m_open_channels', broker', d), 0)
    BY <2>4, <2>5, <2>6
  <2> QED BY <2>7 DEF d
<1> QED BY <1>1, <1>2 DEF ContentInv, Stream

\* A step that changes no channel (FrameQueued, ForceClose, Timeout of another channel).
LEMMA SameContents ==
  ASSUME Base, Base', ContentInv, UNCHANGED <<m_free_channels, m_consumer_channel_map, m_is_connected, call>>,
         DOMAIN m_open_channels' = DOMAIN m_open_channels,
         \A d \in DOMAIN m_open_channels \ {0} : Flow(m_open_channels', broker', d) = Stream(d)
  PROVE  ContentInv'
<1>1. Busy' <=> Busy
  BY DEF Busy
<1>2. \A i \in DOMAIN m_free_channels :
         Whole(Stream(m_free_channels[i]), 0) /\ m_free_channels[i] \in DOMAIN m_open_channels \ {0}
  BY DEF ContentInv, Base, ChannelInv
<1>3. \A t \in DOMAIN m_consumer_channel_map : m_consumer_channel_map[t] # 0
  BY DEF Base, ChannelInv, TypeInv
<1>4. Busy => Reads(Stream(call.ch), call) /\ call.ch \in DOMAIN m_open_channels \ {0}
  BY DEF ContentInv, Base, ChannelInv
<1> QED BY <1>1, <1>2, <1>3, <1>4 DEF ContentInv, Stream

\* A call that ends without handing its channel back.
LEMMA EndsContent ==
  ASSUME Base, Base', ContentInv, Busy, call' = NoCall, OnlyOn(call.ch), m_is_connected' => m_is_connected,
         UNCHANGED <<m_free_channels, m_consumer_channel_map>>,
         m_is_connected' /\ call.ch \in DOMAIN m_open_channels' /\ call.op \notin Pooled =>
            Whole(Flow(m_open_channels', broker', call.ch), 0)
  PROVE  ContentInv'
<1> DEFINE c == call.ch
<1>1. c \in Ids \ {0} /\ \A i \in DOMAIN m_free_channels' : m_free_channels'[i] # c
  BY DEF Base, ChannelInv, TypeInv
<1>2. ~Busy'
  BY CallTypes DEF Busy
<1>3. \A t \in DOMAIN m_consumer_channel_map' : m_consumer_channel_map'[t] = c => call.op \notin Pooled
  BY DEF Base, ChannelInv
<1> QED BY <1>1, <1>2, <1>3, ContentStep

\* A call that goes on, with what it then reads.
LEMMA GoesOnContent ==
  ASSUME Base, Base', ContentInv, Busy, Busy', call'.ch = call.ch, OnlyOn(call.ch),
         UNCHANGED <<m_free_channels, m_consumer_channel_map, m_is_connected>>,
         Reads(Flow(m_open_channels', broker', call.ch), call')
  PROVE  ContentInv'
<1> DEFINE c == call.ch
<1>1. c \in Ids \ {0} /\ \A i \in DOMAIN m_free_channels' : m_free_channels'[i] # c
  BY DEF Base, ChannelInv, TypeInv
<1> QED BY <1>1, ContentStep

\* A call that ends and hands its channel back.
LEMMA ReturnsContent ==
  ASSUME Base, Base', ContentInv, Busy, call' = NoCall, OnlyOn(call.ch), m_is_connected' = m_is_connected,
         m_free_channels' = Append(m_free_channels, call.ch),
         \A t \in DOMAIN m_consumer_channel_map' :
            t \in DOMAIN m_consumer_channel_map /\ m_consumer_channel_map'[t] = m_consumer_channel_map[t],
         Whole(Flow(m_open_channels', broker', call.ch), 0)
  PROVE  ContentInv'
<1> DEFINE c == call.ch
           n == Len(m_free_channels)
<1>1. c \in Ids \ {0} /\ m_free_channels \in Seq(Ids)
  BY DEF Base, ChannelInv, TypeInv
<1>2. ~Busy'
  BY CallTypes DEF Busy
<1>3. \A i \in DOMAIN m_free_channels' :
         m_free_channels'[i] = c \/ \E j \in DOMAIN m_free_channels : m_free_channels'[i] = m_free_channels[j]
  <2>1. /\ m_free_channels' \in Seq(Ids) /\ Len(m_free_channels') = n + 1 /\ n \in Nat
        /\ \A i \in 1 .. n : m_free_channels'[i] = m_free_channels[i]
        /\ m_free_channels'[n + 1] = c
    BY <1>1, AppendProperties, LenProperties
  <2>2. DOMAIN m_free_channels' = 1 .. n + 1 /\ DOMAIN m_free_channels = 1 .. n
    BY <1>1, <2>1, LenProperties
  <2>3. \A i \in 1 .. n + 1 : i = n + 1 \/ i \in 1 .. n
    BY <2>1
  <2> HIDE DEF n
  <2> QED BY <2>1, <2>2, <2>3
<1> QED BY <1>1, <1>2, <1>3, ContentStep

\* A call that starts on a channel of whole messages.
LEMMA StartReads ==
  ASSUME NEW s, Whole(s, 0), NEW k, k.stage \in MethodStages \ {"confirm"}, k.body = <<>>
  PROVE  Reads(s, k)
BY DEF Reads, MethodStages, ContentStages, Prelude

\* What the start of a call is made of.
LEMMA EnterReads ==
  ASSUME NEW b \in Brokers, NEW k, NEW q, k.op \in Ops \ {"BasicConsumeMessage"}, k.body = <<>>,
         k.ch \in Ids \ {0}, k.tag \in Tags \cup {NoTag}, Entered(b, k, q), NEW x \in Seq(Wire),
         Whole(x \o b.out[k.ch], 0)
  PROVE  Reads(x \o broker'.out[k.ch], call')
<1> DEFINE r == FirstRequest(k.op, k.tag)
           s == x \o b.out[k.ch]
           s2 == x \o broker'.out[k.ch]
<1>1. Served(b, broker', k.ch, r) /\ call'.stage \in {"qos", "reply"} /\ call'.body = <<>>
  BY DEF Entered
<1> HIDE DEF r
<1>2. Added(s, s2)
  BY <1>1, ServedAdds
<1>3. s \in Seq(Wire)
  <2>1. b.out[k.ch] \in Seq(Wire)
    BY DEF Brokers
  <2> QED BY <2>1, ConcatProperties
<1> HIDE DEF s, s2
<1>4. Whole(s2, 0)
  BY <1>2, <1>3, AddedWhole DEF s
<1>5. call'.stage \in MethodStages \ {"confirm"}
  BY <1>1 DEF MethodStages, Prelude
<1>6. Reads(s2, call')
  BY <1>1, <1>4, <1>5, StartReads
<1> QED BY <1>6 DEF s2

\* BasicConsumeMessage starts to listen.
LEMMA ConsumeMessageContent ==
  ASSUME Base, Base', ContentInv, NEW tag \in Tags, BasicConsumeMessage(tag)
  PROVE  ContentInv'
<1> DEFINE c == m_consumer_channel_map[tag]
<1>1. /\ ~Busy /\ m_is_connected /\ tag \in DOMAIN m_consumer_channel_map /\ c \in DOMAIN m_open_channels
      /\ UNCHANGED <<m_open_channels, m_free_channels, m_consumer_channel_map, m_is_connected, broker>>
  BY DEF BasicConsumeMessage, Idle, Busy, impl
<1>2. call'.op = "BasicConsumeMessage" /\ call'.ch = c /\ call'.stage = "reply" /\ call'.body = <<>>
  BY DEF BasicConsumeMessage, NoCall
<1>3. c \in Ids \ {0}
  BY <1>1 DEF Base, TypeInv, ChannelInv
<1>4. Whole(Stream(c), 0)
  BY <1>1 DEF ContentInv
<1> HIDE DEF c
<1>5. Reads(Stream(c), call')
  BY <1>2, <1>4, StartReads DEF MethodStages, Prelude
<1>6. OnlyOn(c)
  BY <1>1, <1>3 DEF OnlyOn, Stream
<1>7. Flow(m_open_channels', broker', c) = Stream(c)
  BY <1>1 DEF Stream
<1>8. Busy'
  BY <1>2 DEF Busy
<1>9. \A i \in DOMAIN m_free_channels' : m_free_channels'[i] # c
  BY <1>2, <1>8 DEF Base, ChannelInv
<1> QED BY <1>1, <1>2, <1>3, <1>5, <1>6, <1>7, <1>8, <1>9, ContentStep

\* A consumer's call starts (ConsumerCall).
LEMMA ConsumerCallContent ==
  ASSUME Base, ContentInv, NEW op \in {"BasicRecover", "BasicQos", "BasicCancel"}, NEW tag \in Tags,
         ConsumerCall(op, tag)
  PROVE  ContentInv'
<1> DEFINE c == ConsumersChannel(tag)
           k == [NoCall EXCEPT !.op = op, !.tag = tag, !.ch = c]
<1>1. /\ Base' /\ UNCHANGED <<m_open_channels, impl, envelopes, outcomes>>
      /\ ~Busy /\ tag \in DOMAIN m_consumer_channel_map /\ c \in Ids \ {0}
      /\ \/ /\ c \in DOMAIN m_open_channels
            /\ Entered(broker, k, m_open_channels)
         \/ /\ c \notin DOMAIN m_open_channels /\ call' = call
            /\ Served(broker, broker', c, FirstRequest(op, tag))
  BY ConsumerCallBase
<1>2. m_is_connected /\ c = m_consumer_channel_map[tag] /\ broker \in Brokers
  BY <1>1 DEF ConsumerCall, Idle, ConsumersChannel, Base, TypeInv
<1>3. c \in DOMAIN m_open_channels => Whole(Stream(c), 0)
  BY <1>1, <1>2 DEF ContentInv
<1>4. k.op = op /\ k.tag = tag /\ k.ch = c /\ k.body = <<>> /\ op \in Ops \ {"BasicConsumeMessage"}
  BY DEF NoCall, Ops, Responses
<1> HIDE DEF k, c
<1>5. Served(broker, broker', c, FirstRequest(op, tag))
  BY <1>1, <1>4 DEF Entered
<1>7. OnlyOn(c)
  BY <1>1, <1>5, ServedOnly
<1>10. \A i \in DOMAIN m_free_channels' : m_free_channels'[i] # c
  BY <1>1, <1>2 DEF Base, ChannelInv, impl
<1>11. CASE c \in DOMAIN m_open_channels /\ Entered(broker, k, m_open_channels)
  <2> DEFINE x == m_open_channels[c]
  <2>1. x \in Seq(Wire)
    BY <1>11 DEF Base, TypeInv
  <2>2. Whole(x \o broker.out[c], 0)
    BY <1>3, <1>11 DEF Stream, Flow
  <2> HIDE DEF x
  <2>3. Reads(x \o broker'.out[c], call')
    BY <1>1, <1>2, <1>4, <1>11, <2>1, <2>2, EnterReads
  <2>4. call'.ch = c /\ call'.op = op
    BY <1>4, <1>11 DEF Entered
  <2>5. Busy'
    BY <1>4, <2>4 DEF Busy, Ops, Responses
  <2>6. Reads(Flow(m_open_channels', broker', c), call')
    BY <1>1, <2>3 DEF Flow, x
  <2> QED BY <1>1, <1>2, <1>7, <1>10, <2>4, <2>5, <2>6, ContentStep DEF impl
<1>12. CASE c \notin DOMAIN m_open_channels /\ call' = call
  <2>1. ~Busy'
    BY <1>1, <1>12 DEF Busy
  <2> QED BY <1>1, <1>2, <1>7, <1>10, <1>12, <2>1, ContentStep DEF impl
<1> QED BY <1>1, <1>11, <1>12

\* A call takes the first free channel (GetChannel).
LEMMA FreeChannelContent ==
  ASSUME Base, Base', ContentInv, Idle, NEW op \in Pooled, NEW tag \in Tags \cup {NoTag},
         m_free_channels # <<>>, m_free_channels' = Tail(m_free_channels),
         Entered(broker, [NoCall EXCEPT !.op = op, !.tag = tag, !.ch = Head(m_free_channels)], m_open_channels),
         UNCHANGED <<m_open_channels, m_next_channel_id, m_consumer_channel_map, m_is_connected>>
  PROVE  ContentInv'
<1> DEFINE c == Head(m_free_channels)
           k == [NoCall EXCEPT !.op = op, !.tag = tag, !.ch = c]
<1>1. /\ c = m_free_channels[1] /\ 1 \in DOMAIN m_free_channels
      /\ \A i \in DOMAIN m_free_channels' : i + 1 \in DOMAIN m_free_channels /\ m_free_channels'[i] = m_free_channels[i + 1]
  <2>1. m_free_channels \in Seq(Ids)
    BY DEF Base, TypeInv
  <2>2. /\ c = m_free_channels[1] /\ m_free_channels' \in Seq(Ids) /\ Len(m_free_channels') = Len(m_free_channels) - 1
        /\ \A i \in 1 .. Len(m_free_channels) - 1 : m_free_channels'[i] = m_free_channels[i + 1]
    BY <2>1, HeadTailProperties
  <2>3. Len(m_free_channels) \in Nat /\ DOMAIN m_free_channels = 1 .. Len(m_free_channels) /\ Len(m_free_channels) # 0
        /\ DOMAIN m_free_channels' = 1 .. Len(m_free_channels) - 1
    BY <2>1, <2>2, LenProperties, EmptySeq
  <2> QED BY <2>2, <2>3
<1>2. /\ c \in DOMAIN m_open_channels \ {0} /\ c \in Ids /\ Whole(Stream(c), 0)
      /\ \A t \in DOMAIN m_consumer_channel_map : m_consumer_channel_map[t] # c
  BY <1>1 DEF Base, ChannelInv, TypeInv, ContentInv
<1>3. k.op = op /\ k.tag = tag /\ k.ch = c /\ k.body = <<>> /\ op \in Ops \ {"BasicConsumeMessage"}
  BY DEF NoCall, Ops, Responses, Pooled
<1>4. Entered(broker, k, m_open_channels)
  OBVIOUS
<1> HIDE DEF k, c
<1>5. ~Busy /\ broker \in Brokers
  BY DEF Idle, Busy, Base, TypeInv
<1>6. Served(broker, broker', c, FirstRequest(op, tag)) /\ call'.ch = c /\ call'.op = op
  BY <1>3, <1>4 DEF Entered
<1>8. OnlyOn(c)
  BY <1>2, <1>6, ServedOnly
<1>9. Busy'
  BY <1>3, <1>6 DEF Busy, Ops, Responses
<1>10. \A i \in DOMAIN m_free_channels' : m_free_channels'[i] # c
  BY <1>6, <1>9 DEF Base, ChannelInv
<1> DEFINE x == m_open_channels[c]
<1>11. x \in Seq(Wire) /\ Whole(x \o broker.out[c], 0)
  BY <1>2 DEF Base, TypeInv, Stream, Flow
<1> HIDE DEF x
<1>12. Reads(x \o broker'.out[c], call')
  BY <1>2, <1>3, <1>4, <1>5, <1>11, EnterReads
<1>13. Reads(Flow(m_open_channels', broker', c), call')
  BY <1>12 DEF Flow, x
<1>14. \A i \in DOMAIN m_free_channels' : \E j \in DOMAIN m_free_channels : m_free_channels'[i] = m_free_channels[j]
  BY <1>1
<1> QED BY <1>2, <1>5, <1>6, <1>8, <1>10, <1>13, <1>14, ContentStep

\* A call opens a new channel (GetChannel, CreateNewChannel).
LEMMA NewChannelContent ==
  ASSUME FewCalls, Base, Base', ContentInv, Idle, NEW op \in Pooled, NEW tag \in Tags \cup {NoTag},
         m_next_channel_id' = GetNextChannelId,
         call' = [NoCall EXCEPT !.op = op, !.tag = tag, !.ch = m_next_channel_id + 1, !.stage = "open"],
         m_open_channels' \in [DOMAIN m_open_channels \cup {m_next_channel_id + 1} -> Seq(Wire)],
         m_open_channels'[m_next_channel_id + 1] = <<>>,
         \A d \in DOMAIN m_open_channels : m_open_channels'[d] = m_open_channels[d],
         Served(broker, broker', m_next_channel_id + 1, Request("channel.open", NoTag)),
         UNCHANGED <<m_free_channels, m_consumer_channel_map, m_is_connected>>
  PROVE  ContentInv'
<1> DEFINE c == m_next_channel_id + 1
           r == Request("channel.open", NoTag)
<1>1. c \in Ids \ {0} /\ c \notin DOMAIN m_open_channels /\ m_next_channel_id \in Nat
  BY NextId DEF Idle
<1>2. ~Busy /\ broker \in Brokers
  BY DEF Idle, Busy, Base, TypeInv
<1>3. call'.op = op /\ call'.ch = c /\ call'.stage = "open" /\ call'.body = <<>>
  BY DEF NoCall
<1>4. \A t \in DOMAIN m_consumer_channel_map' : m_consumer_channel_map'[t] # c
  BY <1>1 DEF Base, ChannelInv
<1>5. \A i \in DOMAIN m_free_channels' : m_free_channels'[i] # c
  BY <1>1 DEF Base, ChannelInv
<1>6. broker.out[c] = <<>>
  BY <1>1 DEF Base, CloseInv, Tidy
<1>7. DOMAIN m_open_channels' = DOMAIN m_open_channels \cup {c}
  OBVIOUS
<1> HIDE DEF c
<1>8. Served(broker, broker', c, r)
  BY DEF c
<1> HIDE DEF r
<1>10. OnlyOn(c)
  BY <1>1, <1>7, <1>8, ServedOnly
<1>11. <<>> \in Seq(Wire) /\ <<>> \o broker.out[c] = <<>>
  BY <1>6
<1>12. Added(<<>>, <<>> \o broker'.out[c])
  <2>1. <<>> \in Seq(Wire)
    OBVIOUS
  <2>2. Added(<<>> \o broker.out[c], <<>> \o broker'.out[c])
    BY <1>1, <1>2, <1>8, <2>1, ServedAdds
  <2> QED BY <1>11, <2>2
<1> DEFINE s == <<>> \o broker'.out[c]
<1>13. s = Flow(m_open_channels', broker', c)
  BY DEF Flow, c
<1> HIDE DEF s
<1>14. Whole(s, 0)
  BY <1>11, <1>12, WholeSmall, AddedWhole DEF s
<1>15. Reads(s, call')
  <2>1. call'.stage \in MethodStages \ {"confirm"}
    BY <1>3 DEF MethodStages, Prelude
  <2> QED BY <1>3, <1>14, <2>1, StartReads
<1> QED BY <1>1, <1>2, <1>3, <1>4, <1>5, <1>10, <1>13, <1>15, ContentStep

\* More messages come on channel c, and nothing else changes.
LEMMA ContentAdded ==
  ASSUME Base, Base', ContentInv, NEW c \in Ids \ {0}, OnlyOn(c), Added(Stream(c), Flow(m_open_channels', broker', c)),
         c \in DOMAIN m_open_channels,
         UNCHANGED <<m_open_channels, m_free_channels, m_consumer_channel_map, m_is_connected, call>>
  PROVE  ContentInv'
<1> DEFINE s == Stream(c)
           s2 == Flow(m_open_channels', broker', c)
<1>1. s \in Seq(Wire)
  <2>1. m_open_channels[c] \in Seq(Wire) /\ broker.out[c] \in Seq(Wire)
    BY DEF Base, TypeInv, Brokers
  <2> QED BY <2>1, ConcatProperties DEF Stream, Flow
<1> HIDE DEF s, s2
<1>2. Added(s, s2)
  BY DEF s, s2
<1>3. Whole(s, 0) => Whole(s2, 0)
  BY <1>1, <1>2, AddedWhole
<1>4. Busy' <=> Busy
  BY DEF Busy
<1>5. \A i \in DOMAIN m_free_channels' : m_free_channels'[i] = c => Whole(s2, 0)
  BY <1>3 DEF ContentInv, s
<1>6. \A t \in DOMAIN m_consumer_channel_map' : m_consumer_channel_map'[t] = c =>
         (m_is_connected' /\ c \in DOMAIN m_open_channels' /\ ~(Busy' /\ c = call'.ch) => Whole(s2, 0))
  BY <1>3, <1>4 DEF ContentInv, s
<1>7. ASSUME Busy PROVE Reads(Flow(m_open_channels', broker', call'.ch), call')
  <2>1. Reads(Stream(call.ch), call) /\ call.ch \in DOMAIN m_open_channels \ {0} /\ call.ch \in Ids
    BY <1>7 DEF ContentInv, Base, ChannelInv, TypeInv
  <2>2. CASE call.ch = c
    <3>1. Reads(s2, call)
      BY <1>1, <1>2, <2>1, <2>2, ReadsAdded DEF s
    <3> QED BY <2>2, <3>1 DEF s2
  <2>3. CASE call.ch # c
    <3>1. Flow(m_open_channels', broker', call.ch) = Stream(call.ch)
      BY <2>1, <2>3 DEF OnlyOn
    <3> QED BY <2>1, <3>1
  <2> QED BY <2>2, <2>3
<1> QED BY <1>4, <1>5, <1>6, <1>7, ContentStep DEF s2

\* An acknowledgement (BasicAck).
LEMMA AckContent ==
  ASSUME Base, ContentInv, NEW e \in envelopes, BasicAck(e)
  PROVE  ContentInv'
<1> DEFINE c == e.ch
           r == AckOf(e)
<1>1. Base' /\ Served(broker, broker', c, r) /\ c \in DOMAIN m_open_channels \ {0}
  BY AckBase
<1>2. /\ broker \in Brokers /\ c \in Ids \ {0} /\ m_open_channels[c] \in Seq(Wire)
      /\ UNCHANGED <<m_open_channels, m_free_channels, m_consumer_channel_map, m_is_connected, call>>
  BY <1>1 DEF BasicAck, impl, Base, TypeInv
<1> HIDE DEF c, r
<1>3. OnlyOn(c)
  BY <1>1, <1>2, ServedOnly
<1> DEFINE x == m_open_channels[c]
<1>4. Added(x \o broker.out[c], x \o broker'.out[c])
  BY <1>1, <1>2, ServedAdds
<1>5. Added(Stream(c), Flow(m_open_channels', broker', c))
  BY <1>2, <1>4 DEF Stream, Flow
<1> QED BY <1>1, <1>2, <1>3, <1>5, ContentAdded

\* A delivery (Deliver).
LEMMA DeliverContent ==
  ASSUME Base, ContentInv, NEW c \in Ids, NEW tag \in Tags, Deliver(c, tag)
  PROVE  ContentInv'
<1>1. /\ Base' /\ c \in DOMAIN m_open_channels \ {0}
      /\ \E n \in Nat : DeliveryOf(c, tag, n)
  BY DeliverBase
<1>2. PICK n \in Nat : Message(broker, c, "basic.deliver", tag, n, broker')
  BY <1>1 DEF DeliveryOf
<1> DEFINE m == broker.sent + 1
           u == <<Method("basic.deliver", tag, m)>> \o Content(m, n)
<1>3. m \in Nat /\ broker \in Brokers
  <2>1. broker \in Brokers
    BY <1>1 DEF Base, TypeInv
  <2>2. broker.sent \in Nat
    BY <2>1 DEF Brokers
  <2> QED BY <2>1, <2>2
<1>4. broker'.out[c] = broker.out[c] \o u /\ \A d \in Ids \ {c} : broker'.out[d] = broker.out[d]
      /\ broker'.consumers = broker.consumers
  BY <1>2 DEF Message
<1>5. u \in Seq(Wire) /\ Whole(u, 0)
  <2> HIDE DEF m
  <2> QED BY <1>3, WholeMessage
<1> HIDE DEF u
<1>6. UNCHANGED <<m_open_channels, m_free_channels, m_consumer_channel_map, m_is_connected, call>>
  BY DEF Deliver, impl
<1>7. OnlyOn(c)
  BY <1>4, <1>6 DEF OnlyOn, Stream, Flow
<1>8. Added(Stream(c), Flow(m_open_channels', broker', c))
  <2> DEFINE x == m_open_channels[c]
             y == broker.out[c]
  <2>1. x \in Seq(Wire) /\ y \in Seq(Wire)
    BY <1>1, <1>3 DEF Base, TypeInv, Brokers
  <2>2. Stream(c) = x \o y /\ Flow(m_open_channels', broker', c) = x \o (y \o u)
    BY <1>4, <1>6 DEF Flow, Stream
  <2> HIDE DEF x, y
  <2>3. x \o (y \o u) = (x \o y) \o u
    BY <1>5, <2>1, Associated
  <2> QED BY <1>5, <2>2, <2>3 DEF Added
<1> QED BY <1>1, <1>6, <1>7, <1>8, ContentAdded

\* The broker closes the connection (ForceClose).
LEMMA ForceCloseContent ==
  ASSUME Base, ContentInv, ForceClose
  PROVE  ContentInv'
<1>1. /\ Base'
      /\ \A c \in Ids \ {0}, r \in Requests : Silent(broker, broker', c, r) /\ OtherChannels(broker, broker', c)
  BY ForceCloseBase
<1> DEFINE r == Request("basic.recover", NoTag)
<1>2. r \in Requests
  BY DEF Request, Requests
<1> HIDE DEF r
<1>3. \A c \in Ids \ {0} : broker'.out[c] = broker.out[c]
  BY <1>1, <1>2 DEF Silent
<1>4. UNCHANGED <<m_open_channels, m_free_channels, m_consumer_channel_map, m_is_connected, call>>
  BY DEF ForceClose, impl
<1>5. \A d \in DOMAIN m_open_channels \ {0} : Flow(m_open_channels', broker', d) = Stream(d)
  BY <1>3, <1>4 DEF Flow, Stream, Base, TypeInv
<1> QED BY <1>1, <1>4, <1>5, SameContents

\* A frame goes to a queue (OwnFrame, OtherFrame).
LEMMA QueuedContent ==
  ASSUME Base, ContentInv, FrameQueued
  PROVE  ContentInv' /\ UNCHANGED <<envelopes, outcomes>>
<1>1. /\ Base' /\ UNCHANGED <<impl, history, call>>
      /\ \E c \in DOMAIN m_open_channels \ {0} : Queued(m_open_channels', broker', c)
  BY QueuedBase
<1>2. PICK c \in DOMAIN m_open_channels \ {0} : Queued(m_open_channels', broker', c)
  BY <1>1
<1>3. /\ \A d \in DOMAIN m_open_channels : Flow(m_open_channels', broker', d) = Stream(d)
      /\ DOMAIN m_open_channels' = DOMAIN m_open_channels
  BY <1>2 DEF Queued
<1>4. UNCHANGED <<m_free_channels, m_consumer_channel_map, m_is_connected, call, envelopes, outcomes>>
  BY <1>1 DEF impl, history
<1> QED BY <1>1, <1>3, <1>4, SameContents

\* The wait for a delivery is over (Timeout).
LEMMA TimeoutContent ==
  ASSUME Base, ContentInv, Timeout
  PROVE  ContentInv' /\ UNCHANGED <<envelopes, outcomes>>
<1>1. Base' /\ Busy
  BY TimeoutBase
<1>2. /\ UNCHANGED <<m_open_channels, m_free_channels, m_consumer_channel_map, m_is_connected, broker, envelopes, outcomes>>
      /\ call' = NoCall /\ call.stage = "reply"
  BY DEF Timeout, EndCall, impl, history
<1>3. Whole(Stream(call.ch), 0)
  BY <1>1, <1>2 DEF ContentInv, Reads, MethodStages
<1>4. OnlyOn(call.ch) /\ Flow(m_open_channels', broker', call.ch) = Stream(call.ch)
  BY <1>2 DEF OnlyOn, Stream
<1> QED BY <1>1, <1>2, <1>3, <1>4, EndsContent

\* The connection is closed (FinishCloseConnection).
LEMMA LostContent ==
  ASSUME Base, ContentInv, ConnectionLost, CallStep
  PROVE  ContentInv' /\ UNCHANGED <<envelopes, outcomes>>
<1>1. /\ Base' /\ Busy /\ ~m_is_connected' /\ call' = NoCall /\ Popped(broker, broker', 0)
      /\ UNCHANGED <<m_open_channels, m_free_channels, m_consumer_channel_map, m_next_channel_id, history>>
  BY LostBase
<1>2. /\ \A d \in Ids \ {0} : broker'.out[d] = broker.out[d]
      /\ broker'.consumers = broker.consumers
  BY <1>1 DEF Popped
<1>3. OnlyOn(call.ch)
  BY <1>1, <1>2 DEF OnlyOn, Stream, Flow
<1> QED BY <1>1, <1>3, EndsContent DEF history

\* The broker has closed the channel of the call (FinishCloseChannel).
LEMMA CloseContent ==
  ASSUME Base, ContentInv, CloseTaken
  PROVE  ContentInv' /\ UNCHANGED <<envelopes, outcomes>>
<1>1. /\ Base' /\ Busy /\ call' = NoCall /\ UNCHANGED <<impl, history>>
      /\ call.ch \notin DOMAIN m_open_channels'
      /\ \E f, q, b, p :
            /\ Left(f, q, b, p) /\ IsClose(f) /\ Served(b, broker', call.ch, Request("channel.close-ok", NoTag))
            /\ DOMAIN m_open_channels' = DOMAIN m_open_channels \ {call.ch}
            /\ \A c \in DOMAIN m_open_channels' : m_open_channels'[c] = m_open_channels[c]
  BY CloseBase
<1> DEFINE r == Request("channel.close-ok", NoTag)
           c == call.ch
<1>2. PICK f, q, b, p :
            /\ Left(f, q, b, p) /\ IsClose(f) /\ Served(b, broker', call.ch, Request("channel.close-ok", NoTag))
            /\ DOMAIN m_open_channels' = DOMAIN m_open_channels \ {call.ch}
            /\ \A d \in DOMAIN m_open_channels' : m_open_channels'[d] = m_open_channels[d]
  BY <1>1
<1> HIDE DEF r
<1>4. c \in Ids \ {0} /\ b.consumers = broker.consumers /\ \A d \in Ids \ {c} : b.out[d] = broker.out[d]
  BY <1>1, <1>2 DEF Left, Base, ChannelInv, TypeInv
<1>5. Served(b, broker', c, r)
  BY <1>2 DEF r
<1> HIDE DEF c
<1>9. OnlyOn(c)
  <2>1. \A d \in DOMAIN m_open_channels' \ {0, c} : d \in DOMAIN m_open_channels /\ m_open_channels'[d] = m_open_channels[d]
    BY <1>2
  <2> QED BY <1>4, <1>5, <2>1, ServedOnly
<1> QED BY <1>1, <1>9, EndsContent DEF c, impl, history

\* A method without a content is taken: what is left is whole.
LEMMA MethodLeft ==
  ASSUME Base, ContentInv, Busy, call.stage \in MethodStages, NEW f, NEW q, NEW b, NEW p, Left(f, q, b, p),
         is_expected_method(f, call), ~Carrier(f)
  PROVE  Whole(Flow(q, b, call.ch), 0)
<1> DEFINE s == Stream(call.ch)
<1>1. s \in Seq(Wire) /\ p \in 1 .. Len(s) /\ f = s[p] /\ Flow(q, b, call.ch) = RemoveAt(s, p)
  BY DEF Left
<1>2. Whole(s, 0)
  BY DEF ContentInv, Reads
<1>3. f.type = "METHOD"
  BY DEF is_expected_method
<1> HIDE DEF s
<1>4. 0 \in 0 .. Len(s) /\ ~(p <= 0)
  BY <1>1, LenProperties
<1>5. Whole(RemoveAt(s, p), IF p <= 0 THEN 0 - 1 ELSE 0)
  BY <1>1, <1>2, <1>3, <1>4, WholeLeft
<1> QED BY <1>1, <1>4, <1>5

\* The next request of a call on its channel (ChannelOpened, QosSet).
LEMMA AsksContent ==
  ASSUME Base, Base', ContentInv, Busy, NEW f, NEW q, NEW b, NEW p, Left(f, q, b, p), Remains(q, b),
         Whole(Flow(q, b, call.ch), 0), call.body = <<>>,
         NEW id, NEW tag, NEW stage \in {"select", "reply"}, Asks(q, b, id, tag, stage), UNCHANGED impl
  PROVE  ContentInv'
<1> DEFINE c == call.ch
           r == Request(id, tag)
           x == q[c]
           s2 == Flow(m_open_channels', broker', c)
<1>1. /\ m_open_channels' = q /\ Served(b, broker', c, r)
      /\ call'.op = call.op /\ call'.ch = c /\ call'.stage = stage /\ call'.body = <<>>
  BY DEF Asks, CallRecords, Base, TypeInv
<1>2. /\ c \in DOMAIN m_open_channels /\ c \in Ids \ {0}
      /\ b \in Brokers /\ b.consumers = broker.consumers /\ q \in [DOMAIN m_open_channels -> Seq(Wire)]
      /\ \A d \in DOMAIN m_open_channels \ {c} : q[d] = m_open_channels[d]
      /\ \A d \in Ids \ {c} : b.out[d] = broker.out[d]
  BY DEF Left, Base, ChannelInv, TypeInv
<1>3. x \in Seq(Wire) /\ Whole(x \o b.out[c], 0) /\ s2 = x \o broker'.out[c] /\ b.out[c] \in Seq(Wire)
  BY <1>1, <1>2 DEF Flow, Brokers
<1> HIDE DEF c, r, x, s2
<1>4. Added(x \o b.out[c], s2) /\ x \o b.out[c] \in Seq(Wire)
  BY <1>1, <1>2, <1>3, ServedAdds, ConcatProperties
<1>5. Whole(s2, 0)
  BY <1>3, <1>4, AddedWhole
<1>6. Reads(s2, call')
  <2>1. call'.stage \in MethodStages \ {"confirm"}
    BY <1>1 DEF MethodStages, Prelude
  <2> QED BY <1>1, <1>5, <2>1, StartReads
<1>7. OnlyOn(c)
  <2>1. \A d \in DOMAIN m_open_channels' \ {0, c} : d \in DOMAIN m_open_channels /\ m_open_channels'[d] = m_open_channels[d]
    BY <1>1, <1>2
  <2> QED BY <1>1, <1>2, <2>1, ServedOnly
<1>8. Busy'
  BY <1>1 DEF Busy
<1> QED BY <1>1, <1>6, <1>7, <1>8, GoesOnContent DEF impl, c, s2

\* The call proper starts on the new channel (ConfirmSelected).
LEMMA SelectedContent ==
  ASSUME Base, Base', ContentInv, Busy, NEW f, NEW q, NEW b, NEW p, Left(f, q, b, p), Remains(q, b),
         Whole(Flow(q, b, call.ch), 0), call.body = <<>>, ConfirmSelected(q, b)
  PROVE  ContentInv'
<1> DEFINE c == call.ch
           x == q[c]
<1>1. m_open_channels' = q /\ call.op \in Pooled /\ UNCHANGED <<impl, history>> /\ Enter(b, call)
  BY DEF ConfirmSelected, Base, StageInv
<1>2. Entered(b, call, q)
  BY <1>1, EnterBase
<1>3. /\ c \in DOMAIN m_open_channels /\ c \in Ids \ {0} /\ call.tag \in Tags \cup {NoTag}
      /\ call.op \in Ops \ {"BasicConsumeMessage"}
  BY <1>1 DEF Base, TypeInv, ChannelInv, CallRecords, Pooled, Ops, Responses
<1>4. /\ b \in Brokers /\ b.consumers = broker.consumers
      /\ q \in [DOMAIN m_open_channels -> Seq(Wire)]
      /\ \A d \in DOMAIN m_open_channels \ {c} : q[d] = m_open_channels[d]
      /\ \A d \in Ids \ {c} : b.out[d] = broker.out[d]
  BY DEF Left
<1>5. x \in Seq(Wire) /\ Whole(x \o b.out[c], 0) /\ Flow(m_open_channels', broker', c) = x \o broker'.out[c]
  BY <1>1, <1>3, <1>4 DEF Flow
<1>6. Served(b, broker', c, FirstRequest(call.op, call.tag)) /\ call'.op = call.op /\ call'.ch = c
  BY <1>2 DEF Entered
<1> HIDE DEF c, x
<1>7. Reads(x \o broker'.out[c], call')
  BY <1>2, <1>3, <1>4, <1>5, EnterReads DEF c
<1>8. OnlyOn(c)
  <2>1. \A d \in DOMAIN m_open_channels' \ {0, c} : d \in DOMAIN m_open_channels /\ m_open_channels'[d] = m_open_channels[d]
    BY <1>1, <1>4
  <2> QED BY <1>3, <1>4, <1>6, <2>1, ServedOnly
<1>9. Busy'
  BY <1>6 DEF Busy
<1> QED BY <1>1, <1>5, <1>6, <1>7, <1>8, <1>9, GoesOnContent DEF impl, c

\* DoRpc, BasicGet of an empty queue, BasicPublish and BasicCancel end (Answered, Published, Cancelled).
LEMMA HandsBackContent ==
  ASSUME Base, Base', ContentInv, RecordInv, Busy, call.stage \in MethodStages, NEW f, NEW q, NEW b, NEW p,
         Left(f, q, b, p), Remains(q, b), Whole(Flow(q, b, call.ch), 0),
         Answered(f, q, b) \/ Published(f, q, b) \/ Cancelled(f, q, b)
  PROVE  ContentInv' /\ RecordInv'
<1>1. /\ m_open_channels' = q /\ broker' = b /\ call' = NoCall /\ m_is_connected' = m_is_connected
      /\ m_free_channels' = Append(m_free_channels, call.ch)
      /\ UNCHANGED m_consumer_channel_map
         \/ m_consumer_channel_map' = Restrict(m_consumer_channel_map, DOMAIN m_consumer_channel_map \ {call.tag})
      /\ UNCHANGED envelopes
  BY DEF Answered, Published, Cancelled, ReturnChannel, EndCall, Remains, history
<1>2. \A t \in DOMAIN m_consumer_channel_map' :
         t \in DOMAIN m_consumer_channel_map /\ m_consumer_channel_map'[t] = m_consumer_channel_map[t]
  BY <1>1 DEF Restrict
<1>3. OnlyOn(call.ch) /\ Flow(m_open_channels', broker', call.ch) = Flow(q, b, call.ch)
  BY <1>1, TakenOnly
<1>4. ContentInv'
  BY <1>1, <1>2, <1>3, ReturnsContent
<1>5. EnvelopesIntact'
  BY <1>1 DEF RecordInv, EnvelopesIntact
<1>6. CASE outcomes' = outcomes
  BY <1>4, <1>5, <1>6 DEF RecordInv
<1>7. CASE Published(f, q, b)
  <2> DEFINE o == [pub |-> call.pub, ack |-> f.msg, returned |-> call.stage = "confirm",
                   content |-> call.header.msg]
  <2>1. outcomes' = outcomes \cup {o}
    BY <1>7 DEF Published
  <2>2. o.pub = call.pub /\ o.returned = (call.stage = "confirm") /\ o.content = call.header.msg
    OBVIOUS
  <2> HIDE DEF o
  <2>3. o.returned => o.content = o.pub
    BY <2>2 DEF ContentInv, Reads
  <2> QED BY <1>4, <1>5, <2>1, <2>3 DEF RecordInv
<1> QED BY <1>6, <1>7 DEF Answered, Cancelled, history

\* BasicRecover and BasicQos end (Adjusted), and BasicConsume (Consuming, AddConsumer).
LEMMA AdjustedContent ==
  ASSUME Base, Base', ContentInv, Busy, NEW f, NEW q, NEW b, NEW p,
         Left(f, q, b, p), Remains(q, b), Whole(Flow(q, b, call.ch), 0), Adjusted(f, q, b) \/ Consuming(f, q, b)
  PROVE  ContentInv' /\ UNCHANGED <<envelopes, outcomes>>
<1> DEFINE c == call.ch
           M == m_consumer_channel_map
<1>1. /\ m_open_channels' = q /\ broker' = b /\ call' = NoCall
      /\ M' = M \/ M' = Insert(M, call.tag, c)
      /\ UNCHANGED <<m_free_channels, m_is_connected, envelopes, outcomes>>
  BY DEF Adjusted, Consuming, EndCall, Remains, history, impl
<1>2. OnlyOn(c) /\ Flow(m_open_channels', broker', c) = Flow(q, b, c)
  BY <1>1, TakenOnly
<1>3. /\ c \in Ids \ {0} /\ \A i \in DOMAIN m_free_channels' : m_free_channels'[i] # c
  BY <1>1 DEF Base, ChannelInv, TypeInv
<1>4. \A t \in DOMAIN M' : \/ t \in DOMAIN M /\ M'[t] = M[t]
                           \/ M'[t] = c
  BY <1>1 DEF Insert
<1>5. ~Busy'
  BY <1>1, CallTypes DEF Busy
<1> QED BY <1>1, <1>2, <1>3, <1>4, <1>5, ContentStep

\* A delivery is taken from the head of the channel: only the close of the channel could
\* be in front of it.
LEMMA DeliveryFirst ==
  ASSUME Base, AnswerInv, ContentInv, Busy, call.stage \in MethodStages, call.op = "BasicConsumeMessage",
         NEW p \in 1 .. Len(Stream(call.ch)), Stream(call.ch) \in Seq(Wire),
         \A i \in 1 .. Len(Stream(call.ch)) : i < p => ~is_expected_method(Stream(call.ch)[i], call)
  PROVE  p = 1
<1> DEFINE s == Stream(call.ch)
<1>1. Awaits(s, call, broker) /\ Whole(s, 0)
  BY DEF AnswerInv, ContentInv, Reads
<1>2. call.stage = "reply"
  BY DEF Base, StageInv, MethodStages, Prelude, Pooled
<1>3. Expected(call) = {"basic.deliver"}
  BY <1>2 DEF Expected, Responses
<1>4. call.ch \in DOMAIN m_open_channels \ {0}
  BY DEF Base, ChannelInv
<1>5. \A i \in 1 .. Len(s) : IsClose(s[i]) => i = Len(s)
  BY <1>4 DEF Base, CloseInv, Tidy, Stream
<1>6. s \in Seq(Wire) /\ p \in 1 .. Len(s) /\ \A i \in 1 .. Len(s) : i < p => ~is_expected_method(s[i], call)
  OBVIOUS
<1> HIDE DEF s
<1>7. Len(s) \in Nat /\ DOMAIN s = 1 .. Len(s) /\ 1 \in 1 .. Len(s)
  BY <1>6, LenProperties
<1>8. s[1].type = "METHOD"
  BY <1>1, <1>6, <1>7, WholeFirst
<1>9. ~Answer(s[1])
  <2>1. OneAnswer(s, {"basic.deliver"})
    BY <1>1, <1>2, <1>3 DEF Awaits, Publishing, Confirming
  <2>2. Answers(s) = {}
    BY <2>1 DEF OneAnswer, Answers, Answer
  <2> QED BY <1>7, <2>2 DEF Answers
<1>10. s[1].id = "basic.deliver" \/ IsClose(s[1])
  BY <1>8, <1>9 DEF Answer, IsClose
<1>11. CASE s[1].id = "basic.deliver"
  BY <1>3, <1>6, <1>7, <1>8, <1>11 DEF is_expected_method
<1>12. CASE IsClose(s[1])
  <2>1. 1 = Len(s)
    BY <1>5, <1>7, <1>12
  <2>2. p \in 1 .. 1
    BY <1>6, <2>1
  <2> QED BY <2>2
<1> QED BY <1>10, <1>11, <1>12

\* A content comes next (ContentFollows, DeliveryFollows).
LEMMA FollowsContent ==
  ASSUME Base, Base', AnswerInv, ContentInv, Busy, call.stage \in MethodStages, NEW f, NEW q, NEW b, NEW p,
         Left(f, q, b, p), Remains(q, b), is_expected_method(f, call),
         \A i \in 1 .. Len(Stream(call.ch)) : i < p => ~is_expected_method(Stream(call.ch)[i], call),
         ContentFollows(f, q, b) \/ DeliveryFollows(f, q, b)
  PROVE  ContentInv' /\ UNCHANGED <<envelopes, outcomes>>
<1> DEFINE s == Stream(call.ch)
           s2 == Flow(q, b, call.ch)
<1>1. /\ m_open_channels' = q /\ broker' = b /\ call' = [call EXCEPT !.stage = "header", !.held = f]
      /\ UNCHANGED <<impl, history>> /\ f.id \in {"basic.return", "basic.get-ok", "basic.deliver"}
  BY DEF ContentFollows, DeliveryFollows, GoOn, Remains
<1>2. /\ call'.op = call.op /\ call'.ch = call.ch /\ call'.stage = "header" /\ call'.held = f
      /\ call'.pub = call.pub /\ call'.body = call.body
  BY <1>1 DEF CallRecords, Base, TypeInv
<1>3. OnlyOn(call.ch) /\ Flow(m_open_channels', broker', call.ch) = s2
  BY <1>1, TakenOnly
<1>4. s \in Seq(Wire) /\ p \in 1 .. Len(s) /\ f = s[p] /\ s2 = RemoveAt(s, p)
  BY DEF Left
<1>5. /\ call.stage = "reply" /\ call.op \in {"BasicPublish", "BasicGet", "BasicConsumeMessage"}
      /\ f.type = "METHOD" /\ Carrier(f) /\ (f.id = "basic.return" <=> call.op = "BasicPublish")
  BY <1>1, Replying DEF is_expected_method, Carrier
<1>6. Whole(s, 0) /\ call.body = <<>>
  BY <1>5 DEF ContentInv, Reads
<1>7. call.op = "BasicPublish" => f.msg = call.pub
  <2>1. Awaits(s, call, broker)
    BY DEF AnswerInv
  <2> HIDE DEF s
  <2>2. p \in DOMAIN s
    BY <1>4, LenProperties
  <2>3. f.id = "basic.return" => p \in Answers(s)
    BY <1>4, <1>5, <2>2 DEF Answers, Answer
  <2> QED BY <1>4, <1>5, <2>1, <2>3 DEF Awaits, Publishing, PublishAnswers
<1>8. call.op = "BasicConsumeMessage" => p = 1
  BY <1>4, DeliveryFirst
<1> HIDE DEF s, s2
<1>9. Len(s) \in Nat /\ 1 \in 1 .. Len(s)
  BY <1>4, LenProperties
<1>10. call'.stage \notin {"body", "confirm"} \cup MethodStages /\ call'.stage \in ContentStages
  BY <1>2 DEF ContentStages, MethodStages, Prelude
<1>11. call'.op = "BasicPublish" => call'.held.msg = call'.pub
  BY <1>2, <1>7, <1>5
<1>12. SUFFICES \/ \E r \in 1 .. Len(s2) : RestOf(s2, call', r) /\ Whole(s2, r)
                \/ Misplaced(s2, call')
  <2>1. ASSUME \/ \E r \in 1 .. Len(s2) : RestOf(s2, call', r) /\ Whole(s2, r)
               \/ Misplaced(s2, call')
        PROVE  Reads(s2, call')
    BY <1>2, <1>6, <1>10, <1>11, <2>1 DEF Reads
  <2>2. Busy'
    BY <1>2 DEF Busy
  <2> QED BY <1>1, <1>2, <1>3, <2>1, <2>2, GoesOnContent DEF impl, history
<1>13. CASE p = 1
  BY <1>2, <1>4, <1>5, <1>6, <1>9, <1>13, MessageTaken
<1>14. CASE p # 1
  <2>1. s2[1] = s[1] /\ 1 \in 1 .. Len(s2)
    <3>1. Len(s2) = Len(s) - 1 /\ \A i \in 1 .. Len(s) - 1 : s2[i] = s[IF i < p THEN i ELSE i + 1]
      BY <1>4, Removed
    <3>2. 1 \in 1 .. Len(s) - 1 /\ 1 < p
      BY <1>4, <1>9, <1>14
    <3> QED BY <3>1, <3>2
  <2>2. s[1].type = "METHOD"
    BY <1>4, <1>6, <1>9, WholeFirst
  <2> QED BY <1>2, <1>5, <1>8, <1>14, <2>1, <2>2 DEF Misplaced
<1> QED BY <1>13, <1>14

\* A call that takes a frame it waits for (MethodTaken).
LEMMA MethodTakenContent ==
  ASSUME Base, AnswerInv, ContentInv, RecordInv, MethodTaken
  PROVE  ContentInv' /\ RecordInv'
<1>1. PICK f, q, b, p :
        /\ Left(f, q, b, p) /\ Remains(q, b) /\ m_open_channels' = q
        /\ call.stage \in MethodStages /\ Busy /\ f \in Wire
        /\ is_expected_method(f, call)
        /\ \A i \in 1 .. Len(Stream(call.ch)) : i < p => ~is_expected_method(Stream(call.ch)[i], call)
        /\ MethodArrived(f, q, b)
  BY MethodTakenBase
<1>2. Base'
  BY MethodTakenBase
<1>3. UNCHANGED <<envelopes, outcomes>> => RecordInv'
  BY DEF RecordInv, EnvelopesIntact
<1>4. f.id \in Expected(call)
  BY <1>1 DEF is_expected_method
<1>5. ASSUME ~Carrier(f) PROVE Whole(Flow(q, b, call.ch), 0)
  BY <1>1, <1>5, MethodLeft
<1>6. CASE ChannelOpened(q, b) \/ ConfirmSelected(q, b) \/ QosSet(q, b)
  <2>1. call.stage \in {"open", "select", "qos"} /\ UNCHANGED <<impl, history>>
    BY <1>6 DEF ChannelOpened, ConfirmSelected, QosSet
  <2>2. ~Carrier(f)
    BY <1>4, <2>1 DEF Expected, Prelude, Carrier
  <2>3. Whole(Flow(q, b, call.ch), 0) /\ call.body = <<>>
    BY <1>1, <1>5, <2>1, <2>2 DEF ContentInv, Reads
  <2>4. RecordInv'
    BY <1>3, <2>1 DEF history
  <2>5. CASE ChannelOpened(q, b)
    <3>1. /\ Send(b, Request("confirm.select", NoTag), [call EXCEPT !.stage = "select"])
          /\ call.op \in Pooled
      BY <2>5 DEF ChannelOpened, Base, StageInv
    <3>2. Asks(q, b, "confirm.select", NoTag, "select")
      BY <1>1, <2>1, <3>1, AsksBase
    <3> QED BY <1>1, <1>2, <2>1, <2>3, <2>4, <3>2, AsksContent
  <2>6. CASE ConfirmSelected(q, b)
    BY <1>1, <1>2, <2>3, <2>4, <2>6, SelectedContent
  <2>7. CASE QosSet(q, b)
    <3>1. /\ Send(b, Request("basic.consume", call.tag), [call EXCEPT !.stage = "reply"])
          /\ call.tag \in Tags
      BY <2>7 DEF QosSet, Base, StageInv
    <3>2. Asks(q, b, "basic.consume", call.tag, "reply")
      BY <1>1, <2>1, <3>1, AsksBase
    <3> QED BY <1>1, <1>2, <2>1, <2>3, <2>4, <3>1, <3>2, AsksContent
  <2> QED BY <1>6, <2>5, <2>6, <2>7
<1>7. CASE Answered(f, q, b) \/ Published(f, q, b) \/ Cancelled(f, q, b)
  <2>1. ~Carrier(f)
    BY <1>7 DEF Answered, Published, Cancelled, Carrier
  <2> QED BY <1>1, <1>2, <1>5, <1>7, <2>1, HandsBackContent
<1>8. CASE ContentFollows(f, q, b) \/ DeliveryFollows(f, q, b)
  BY <1>1, <1>2, <1>3, <1>8, FollowsContent
<1>9. CASE Adjusted(f, q, b) \/ Consuming(f, q, b)
  <2>1. ~Carrier(f)
    BY <1>9 DEF Adjusted, Consuming, Carrier
  <2> QED BY <1>1, <1>2, <1>3, <1>5, <1>9, <2>1, AdjustedContent
<1> QED BY <1>1, <1>6, <1>7, <1>8, <1>9 DEF MethodArrived

\* What call k has when it has read a frame of its content, with r more to come on s.
HasRead(s, k, r) ==
    /\ r \in 0 .. Len(s) /\ Whole(s, r)
    /\ k.header = Header(k.held.msg, Len(k.body) + r)
    /\ \A i \in 1 .. Len(k.body) : k.body[i] = Body(k.held.msg, i)
    /\ \A i \in 1 .. r : s[i] = Body(k.held.msg, Len(k.body) + i)

\* The frame that comes first is the one the call waits for (ReadContent).
LEMMA FrameRead ==
  ASSUME NEW s \in Seq(Wire), NEW k, NEW k2, k.stage \in ContentStages, k.body \in Seq(Wire),
         k.stage = "header" => k.body = <<>>, NEW r \in 1 .. Len(s), RestOf(s, k, r), Whole(s, r),
         k2.held = k.held,
         k.stage = "header" => k2.header = s[1] /\ k2.body = k.body,
         k.stage = "body" => k2.header = k.header /\ k2.body = Append(k.body, s[1])
  PROVE  /\ HasRead(RemoveAt(s, 1), k2, r - 1)
         /\ s[1].type = IF k.stage = "header" THEN "HEADER" ELSE "BODY"
<1> DEFINE t == RemoveAt(s, 1)
           m == k.held.msg
           n == Len(k.body)
<1>1. Len(s) \in Nat /\ n \in Nat /\ r \in 1 .. Len(s) /\ 1 \in 1 .. Len(s)
  BY LenProperties
<1>2. /\ t \in Seq(Wire) /\ Len(t) = Len(s) - 1
      /\ \A i \in 1 .. Len(s) - 1 : t[i] = s[IF i < 1 THEN i ELSE i + 1]
  BY <1>1, Removed
<1>3. Whole(t, r - 1) /\ r - 1 \in 0 .. Len(t)
  <2>1. r \in 0 .. Len(s) /\ 1 <= r /\ r - 1 \in 0 .. Len(s) - 1
    BY <1>1
  <2>2. Whole(t, IF 1 <= r THEN r - 1 ELSE r)
    BY <1>1, <2>1, WholeLeft
  <2> HIDE DEF t
  <2> QED BY <1>2, <2>1, <2>2
<1> HIDE DEF t
<1>4. \A i \in 1 .. r - 1 : i + 1 \in 2 .. r /\ t[i] = s[i + 1]
  <2> SUFFICES ASSUME NEW i \in 1 .. r - 1 PROVE i + 1 \in 2 .. r /\ t[i] = s[i + 1]
    OBVIOUS
  <2>1. i \in 1 .. Len(s) - 1 /\ ~(i < 1) /\ i + 1 \in 2 .. r
    BY <1>1
  <2> QED BY <1>2, <2>1
<1>5. CASE k.stage = "header"
  <2>1. k2.body = <<>> /\ Len(k2.body) = 0
    BY <1>5
  <2>2. k2.header = Header(m, r - 1) /\ s[1] = Header(m, r - 1)
    BY <1>5 DEF RestOf
  <2>3. \A i \in 1 .. r - 1 : t[i] = Body(m, Len(k2.body) + i)
    <3> SUFFICES ASSUME NEW i \in 1 .. r - 1 PROVE t[i] = Body(m, Len(k2.body) + i)
      OBVIOUS
    <3>1. i + 1 \in 2 .. r /\ t[i] = s[i + 1] /\ i + 1 - 1 = i /\ 0 + i = i
      BY <1>4
    <3>2. s[i + 1] = Body(m, i + 1 - 1)
      BY <1>5, <3>1 DEF RestOf
    <3> QED BY <2>1, <3>1, <3>2
  <2>4. Len(k2.body) + (r - 1) = r - 1
    BY <1>1, <2>1
  <2>5. \A i \in 1 .. Len(k2.body) : k2.body[i] = Body(m, i)
    BY <2>1
  <2>6. HasRead(t, k2, r - 1)
    BY <1>3, <2>2, <2>3, <2>4, <2>5 DEF HasRead
  <2> QED BY <1>5, <2>2, <2>6, FrameKinds DEF t
<1>6. CASE k.stage = "body"
  <2>1. /\ Len(k2.body) = n + 1 /\ k2.body[n + 1] = s[1]
        /\ \A i \in 1 .. n : k2.body[i] = k.body[i]
    BY <1>1, <1>6, AppendProperties, ElementOfSeq
  <2>2. /\ k2.header = Header(m, n + r)
        /\ \A i \in 1 .. n : k.body[i] = Body(m, i)
        /\ \A i \in 1 .. r : s[i] = Body(m, n + i)
    BY <1>6 DEF RestOf
  <2>3. \A i \in 1 .. r - 1 : t[i] = Body(m, Len(k2.body) + i)
    <3> SUFFICES ASSUME NEW i \in 1 .. r - 1 PROVE t[i] = Body(m, Len(k2.body) + i)
      OBVIOUS
    <3>1. i + 1 \in 1 .. r /\ t[i] = s[i + 1]
      BY <1>1, <1>4
    <3>2. n + (i + 1) = Len(k2.body) + i
      <4> HIDE DEF n
      <4>1. n \in Nat /\ i \in Nat /\ Len(k2.body) = n + 1
        BY <1>1, <2>1
      <4> QED BY <4>1
    <3>3. s[i + 1] = Body(m, n + (i + 1))
      BY <2>2, <3>1
    <3> QED BY <3>1, <3>2, <3>3
  <2>4. Len(k2.body) + (r - 1) = n + r
    BY <1>1, <2>1
  <2>5. s[1] = Body(m, n + 1)
    <3>1. 1 \in 1 .. r
      BY <1>1
    <3> QED BY <2>2, <3>1
  <2>6. \A i \in 1 .. Len(k2.body) : k2.body[i] = Body(m, i)
    <3>1. \A i \in 1 .. n + 1 : i \in 1 .. n \/ i = n + 1
      BY <1>1
    <3> HIDE DEF n
    <3> QED BY <2>1, <2>2, <2>5, <3>1
  <2>7. HasRead(t, k2, r - 1)
    BY <1>3, <2>2, <2>3, <2>4, <2>6 DEF HasRead
  <2> QED BY <1>6, <2>5, <2>7, FrameKinds DEF t
<1> QED BY <1>5, <1>6 DEF ContentStages

\* A call that reads a frame of a content (ContentTaken).
LEMMA ContentTakenContent ==
  ASSUME Base, ContentInv, RecordInv, ContentTaken
  PROVE  ContentInv' /\ RecordInv'
<1>1. PICK f, q, b :
         /\ Left(f, q, b, 1) /\ Remains(q, b) /\ m_open_channels' = q /\ broker' = b
         /\ call.stage \in ContentStages /\ Busy /\ f \in Wire
         /\ ReadContent(f, q, b)
  BY ContentTakenBase
<1>2. Base'
  BY ContentTakenBase
<1> DEFINE s == Stream(call.ch)
           s2 == Flow(q, b, call.ch)
           k == WithFrame(f)
<1>3. s \in Seq(Wire) /\ 1 \in 1 .. Len(s) /\ f = s[1] /\ s2 = RemoveAt(s, 1)
  BY <1>1 DEF Left
<1>4. OnlyOn(call.ch) /\ Flow(m_open_channels', broker', call.ch) = s2
  BY <1>1, TakenOnly
<1>5. call \in CallRecords /\ call.body \in Seq(Wire) /\ Reads(s, call)
  BY <1>1 DEF Base, TypeInv, CallRecords, ContentInv
<1>6. /\ k.op = call.op /\ k.tag = call.tag /\ k.ch = call.ch /\ k.pub = call.pub /\ k \in CallRecords
      /\ k.held = call.held
      /\ call.stage = "header" => k.header = f /\ k.body = call.body
      /\ call.stage = "body" => k.header = call.header /\ k.body = Append(call.body, f)
  <2>1. k \in CallRecords
    BY <1>1, ContentBase DEF Base, TypeInv
  <2> DEFINE x == Append(call.body, f)
  <2>2. k = IF call.stage = "header" THEN [call EXCEPT !.header = f] ELSE [call EXCEPT !.body = x]
    BY DEF WithFrame
  <2>3. x \in Seq(Wire)
    BY <1>1, <1>5, AppendProperties
  <2> HIDE DEF x, k
  <2> QED BY <1>5, <2>1, <2>2, <2>3 DEF CallRecords, x
<1>7. call.stage \in {"header", "body"} /\ call.stage \notin MethodStages /\ call.op \in {"BasicPublish", "BasicGet", "BasicConsumeMessage"}
  BY <1>1 DEF ContentStages, MethodStages, Prelude, Base, StageInv
<1>8. call.stage = "header" => call.body = <<>>
  BY <1>5 DEF Reads
<1>9. call.op = "BasicPublish" => k.held.msg = k.pub
  BY <1>1, <1>5, <1>6 DEF Reads
<1>10. UNCHANGED <<envelopes, outcomes>> => RecordInv'
  BY DEF RecordInv, EnvelopesIntact
<1> HIDE DEF s, s2
<1>11. CASE Misplaced(s, call)
  <2>1. f.type = "METHOD" /\ call.op \in Pooled /\ call.stage = "header"
    BY <1>3, <1>11 DEF Misplaced, Pooled
  <2>2. EndCall(q, b) /\ UNCHANGED <<impl, history>>
    BY <1>1, <2>1 DEF ReadContent
  <2>3. call' = NoCall /\ UNCHANGED <<m_free_channels, m_consumer_channel_map, m_is_connected, envelopes, outcomes>>
    BY <2>2 DEF EndCall, impl, history
  <2> QED BY <1>1, <1>2, <1>4, <1>10, <2>1, <2>3, EndsContent
<1>12. ASSUME NEW r \in 1 .. Len(s), RestOf(s, call, r), Whole(s, r)
       PROVE  ContentInv' /\ RecordInv'
  <2>1. HasRead(s2, k, r - 1) /\ f.type = IF call.stage = "header" THEN "HEADER" ELSE "BODY"
    <3> HIDE DEF k
    <3> QED BY <1>1, <1>3, <1>5, <1>6, <1>8, <1>12, FrameRead
  <2>2. ContentRead(k, q, b)
    BY <1>1, <1>7, <2>1 DEF ReadContent, WithFrame
  <2> HIDE DEF k
  <2>3. /\ Len(k.body) \in Nat /\ r - 1 \in Nat /\ k.header.n = Len(k.body) + (r - 1)
        /\ k.header.msg = k.held.msg
    <3>1. Len(k.body) \in Nat
      BY <1>6, LenProperties DEF CallRecords
    <3>2. k.header = Header(k.held.msg, Len(k.body) + (r - 1))
      BY <2>1 DEF HasRead
    <3>3. r - 1 \in Nat
      BY <1>3, LenProperties
    <3> QED BY <3>1, <3>2, <3>3, FrameKinds
  <2>4. ASSUME NEW stage \in {"body", "confirm"}, call' = [k EXCEPT !.stage = stage],
               UNCHANGED <<impl, history>>, Reads(s2, call')
        PROVE  ContentInv' /\ RecordInv'
    <3>1. call'.op = call.op /\ call'.ch = call.ch
      BY <1>6, <2>4 DEF CallRecords
    <3>2. Busy'
      BY <1>1, <3>1 DEF Busy
    <3> QED BY <1>1, <1>2, <1>4, <1>10, <2>4, <3>1, <3>2, GoesOnContent DEF impl, history
  <2>5. CASE Len(k.body) < k.header.n /\ GoOn(q, b, [k EXCEPT !.stage = "body"]) /\ UNCHANGED <<impl, history>>
    <3>1. call' = [k EXCEPT !.stage = "body"]
      BY <2>5 DEF GoOn
    <3>2. /\ call'.stage = "body" /\ call'.op = k.op /\ call'.held = k.held /\ call'.header = k.header
          /\ call'.body = k.body /\ call'.pub = k.pub
      BY <1>6, <3>1 DEF CallRecords
    <3>3. r - 1 \in 1 .. Len(s2)
      <4>1. r - 1 # 0
        BY <2>3, <2>5
      <4>2. r - 1 \in 0 .. Len(s2)
        BY <2>1 DEF HasRead
      <4> QED BY <4>1, <4>2
    <3>4. RestOf(s2, call', r - 1) /\ Whole(s2, r - 1)
      BY <2>1, <3>2, <3>3 DEF HasRead, RestOf
    <3>5. call'.stage \notin MethodStages
      BY <3>2 DEF MethodStages, Prelude
    <3>6. Reads(s2, call')
      <4>1. call'.op = "BasicPublish" => call'.held.msg = call'.pub
        BY <1>6, <1>9, <3>2
      <4> QED BY <3>2, <3>3, <3>4, <3>5, <4>1 DEF Reads
    <3> QED BY <2>4, <2>5, <3>1, <3>6
  <2>6. CASE Len(k.body) >= k.header.n /\ ContentComplete(k, q, b)
    <3>1. r - 1 = 0
      BY <2>3, <2>6
    <3>2. Whole(s2, 0) /\ k.header.n = Len(k.body)
      BY <2>1, <2>3, <3>1 DEF HasRead
    <3>3. ASSUME envelopes' = envelopes \cup {Envelope(k)}, UNCHANGED outcomes PROVE RecordInv'
      <4> DEFINE e == Envelope(k)
                 n == e.header.n
      <4>1. e.msg = k.held.msg /\ e.header = k.header /\ e.body = k.body
        BY DEF Envelope
      <4>2. k.body = [i \in 1 .. Len(k.body) |-> k.body[i]]
        BY <1>6 DEF CallRecords
      <4>3. \A i \in 1 .. Len(k.body) : k.body[i] = Body(k.held.msg, i)
        BY <2>1 DEF HasRead
      <4>4. k.body = [i \in 1 .. Len(k.body) |-> Body(k.held.msg, i)]
        BY <4>2, <4>3
      <4> HIDE DEF e
      <4>5. e.body = [i \in 1 .. e.header.n |-> Body(e.msg, i)]
        BY <3>2, <4>1, <4>4
      <4>6. e.header.msg = e.msg
        BY <2>3, <4>1
      <4>7. EnvelopesIntact'
        BY <3>3, <4>5, <4>6 DEF RecordInv, EnvelopesIntact, e
      <4> QED BY <3>3, <4>7 DEF RecordInv
    <3>4. CASE k.op = "BasicPublish" /\ GoOn(q, b, [k EXCEPT !.stage = "confirm"]) /\ UNCHANGED <<impl, history>>
      <4>1. call' = [k EXCEPT !.stage = "confirm"]
        BY <3>4 DEF GoOn
      <4>2. call'.stage = "confirm" /\ call'.header = k.header /\ call'.pub = k.pub
        BY <1>6, <4>1 DEF CallRecords
      <4>3. call'.stage \notin ContentStages
        BY <4>2 DEF ContentStages
      <4>4. call'.header.msg = call'.pub
        BY <1>6, <1>9, <2>3, <3>4, <4>2
      <4>5. Reads(s2, call')
        BY <3>2, <4>2, <4>3, <4>4 DEF Reads
      <4> QED BY <2>4, <3>4, <4>1, <4>5
    <3>5. CASE /\ k.op = "BasicGet"
               /\ envelopes' = envelopes \cup {Envelope(k)}
               /\ ReturnChannel(q, b)
               /\ UNCHANGED <<m_consumer_channel_map, m_next_channel_id, m_is_connected, calls, outcomes>>
      <4>1. call' = NoCall /\ m_free_channels' = Append(m_free_channels, call.ch)
        BY <3>5 DEF ReturnChannel, EndCall
      <4>2. ContentInv'
        BY <1>1, <1>2, <1>4, <3>2, <3>5, <4>1, ReturnsContent
      <4> QED BY <3>3, <3>5, <4>2
    <3>6. CASE /\ k.op = "BasicConsumeMessage"
               /\ envelopes' = envelopes \cup {Envelope(k)}
               /\ EndCall(MaybeReleaseBuffers(q), b)
               /\ UNCHANGED <<impl, calls, outcomes>>
      <4>1. call' = NoCall /\ UNCHANGED <<m_free_channels, m_consumer_channel_map, m_is_connected>>
        BY <3>6 DEF EndCall, impl
      <4>2. ContentInv'
        BY <1>1, <1>2, <1>4, <3>2, <4>1, EndsContent
      <4> QED BY <3>3, <3>6, <4>2
    <3> QED BY <2>6, <3>4, <3>5, <3>6 DEF ContentComplete
  <2> QED BY <2>2, <2>5, <2>6 DEF ContentRead
<1>13. Misplaced(s, call) \/ \E r \in 1 .. Len(s) : RestOf(s, call, r) /\ Whole(s, r)
  BY <1>1, <1>5 DEF Reads, s
<1> QED BY <1>11, <1>12, <1>13

\* DeclareQueue and the like, BasicPublish, BasicGet and BasicConsume start (PooledCall).
LEMMA PooledCallContent ==
  ASSUME FewCalls, Base, ContentInv, NEW op \in Pooled, NEW tag \in Tags \cup {NoTag},
         op = "BasicConsume" => tag \in Tags, PooledCall(op, tag)
  PROVE  ContentInv'
<1> DEFINE k == [NoCall EXCEPT !.op = op, !.tag = tag]
<1>0. /\ Idle /\ Called /\ GetChannel(k)
      /\ UNCHANGED <<m_consumer_channel_map, m_is_connected, envelopes, outcomes>>
  BY DEF PooledCall
<1>1. \A x, stage : /\ [k EXCEPT !.ch = x] = [NoCall EXCEPT !.op = op, !.tag = tag, !.ch = x]
                    /\ [k EXCEPT !.ch = x, !.stage = stage]
                          = [NoCall EXCEPT !.op = op, !.tag = tag, !.ch = x, !.stage = stage]
  BY DEF NoCall
<1> HIDE DEF k
<1>2. CASE m_free_channels # <<>>
  <2>1. /\ m_free_channels' = Tail(m_free_channels)
        /\ Enter(broker, [NoCall EXCEPT !.op = op, !.tag = tag, !.ch = Head(m_free_channels)])
        /\ UNCHANGED <<m_open_channels, m_next_channel_id>>
    BY <1>0, <1>1, <1>2 DEF GetChannel
  <2>2. /\ Base'
        /\ Entered(broker, [NoCall EXCEPT !.op = op, !.tag = tag, !.ch = Head(m_free_channels)], m_open_channels)
    BY <1>0, <1>2, <2>1, FreeChannelTaken
  <2> QED BY <1>0, <1>2, <2>1, <2>2, FreeChannelContent
<1>3. CASE m_free_channels = <<>>
  <2>1. /\ m_next_channel_id' = GetNextChannelId
        /\ m_open_channels' = Insert(m_open_channels, GetNextChannelId, <<>>)
        /\ Send(broker, Request("channel.open", NoTag),
                [NoCall EXCEPT !.op = op, !.tag = tag, !.ch = GetNextChannelId, !.stage = "open"])
        /\ UNCHANGED m_free_channels
    BY <1>0, <1>1, <1>3 DEF GetChannel
  <2>2. /\ Base'
        /\ call' = [NoCall EXCEPT !.op = op, !.tag = tag, !.ch = m_next_channel_id + 1, !.stage = "open"]
        /\ m_open_channels' \in [DOMAIN m_open_channels \cup {m_next_channel_id + 1} -> Seq(Wire)]
        /\ m_open_channels'[m_next_channel_id + 1] = <<>>
        /\ \A d \in DOMAIN m_open_channels : m_open_channels'[d] = m_open_channels[d]
        /\ Served(broker, broker', m_next_channel_id + 1, Request("channel.open", NoTag))
    BY <1>0, <1>3, <2>1, ChannelCreated
  <2> QED BY <1>0, <2>1, <2>2, NewChannelContent
<1> QED BY <1>2, <1>3

\* Nothing is on its way yet.
LEMMA InitContent ==
  ASSUME Init
  PROVE  ContentInv /\ RecordInv
<1>1. ~Busy /\ DOMAIN m_free_channels = {} /\ DOMAIN m_consumer_channel_map = {}
  BY CallTypes DEF Init, Busy
<1>2. envelopes = {} /\ outcomes = {}
  BY DEF Init
<1> QED BY <1>1, <1>2 DEF ContentInv, RecordInv, EnvelopesIntact

\* Every step keeps the messages whole.
LEMMA NextContent ==
  ASSUME FewCalls, Base, AnswerInv, ContentInv, RecordInv, [Next]_vars
  PROVE  ContentInv' /\ RecordInv'
<1>0. Base'
  BY NextBase
<1>10. UNCHANGED <<envelopes, outcomes>> => RecordInv'
  BY DEF RecordInv, EnvelopesIntact
<1>1. CASE DoRpc \/ BasicPublish \/ BasicGet \/ \E tag \in Tags : BasicConsume(tag)
  <2>1. {"DoRpc", "BasicPublish", "BasicGet", "BasicConsume"} \subseteq Pooled
    BY DEF Pooled
  <2>2. ASSUME NEW op \in Pooled, NEW tag \in Tags \cup {NoTag}, op = "BasicConsume" => tag \in Tags,
               PooledCall(op, tag)
        PROVE  ContentInv' /\ RecordInv'
    <3>1. UNCHANGED <<envelopes, outcomes>>
      BY <2>2 DEF PooledCall
    <3> QED BY <1>10, <2>2, <3>1, PooledCallContent
  <2> QED BY <1>1, <2>1, <2>2 DEF DoRpc, BasicPublish, BasicGet, BasicConsume
<1>2. ASSUME NEW tag \in Tags, BasicRecover(tag) \/ BasicQos(tag) \/ BasicCancel(tag)
      PROVE  ContentInv' /\ RecordInv'
  <2>1. ASSUME NEW op \in {"BasicRecover", "BasicQos", "BasicCancel"}, ConsumerCall(op, tag)
        PROVE  ContentInv' /\ RecordInv'
    <3>1. UNCHANGED <<envelopes, outcomes>>
      BY <2>1 DEF ConsumerCall
    <3> QED BY <1>10, <2>1, <3>1, ConsumerCallContent
  <2> QED BY <1>2, <2>1 DEF BasicRecover, BasicQos, BasicCancel
<1>3. ASSUME NEW tag \in Tags, BasicConsumeMessage(tag) PROVE ContentInv' /\ RecordInv'
  <2>1. UNCHANGED <<envelopes, outcomes>>
    BY <1>3 DEF BasicConsumeMessage
  <2> QED BY <1>0, <1>3, <1>10, <2>1, ConsumeMessageContent
<1>4. ASSUME NEW e \in envelopes, BasicAck(e) PROVE ContentInv' /\ RecordInv'
  <2>1. UNCHANGED <<envelopes, outcomes>>
    BY <1>4 DEF BasicAck
  <2> QED BY <1>4, <1>10, <2>1, AckContent
<1>5. CASE CallStep
  BY <1>5, <1>10, CallSteps, MethodTakenContent, ContentTakenContent, CloseContent, QueuedContent, LostContent
<1>6. CASE Timeout
  BY <1>6, <1>10, TimeoutContent
<1>7. ASSUME NEW c \in Ids, NEW tag \in Tags, Deliver(c, tag) PROVE ContentInv' /\ RecordInv'
  <2>1. UNCHANGED <<envelopes, outcomes>>
    BY <1>7 DEF Deliver, history
  <2> QED BY <1>7, <1>10, <2>1, DeliverContent
<1>8. CASE ForceClose
  <2>1. UNCHANGED <<envelopes, outcomes>>
    BY <1>8 DEF ForceClose, history
  <2> QED BY <1>8, <1>10, <2>1, ForceCloseContent
<1>9. CASE UNCHANGED vars
  <2>1. UNCHANGED <<m_open_channels, m_free_channels, m_consumer_channel_map, m_is_connected,
                    call, broker, envelopes, outcomes>>
    BY <1>9 DEF vars, impl, history
  <2>2. ContentInv'
    BY <2>1 DEF ContentInv, Busy, Stream
  <2> QED BY <1>10, <2>1, <2>2
<1> QED BY <1>1, <1>2, <1>3, <1>4, <1>5, <1>6, <1>7, <1>8, <1>9 DEF Next

\* What calls read, and what they have recorded, is an invariant.
LEMMA ContentInvariant ==
  ASSUME FewCalls
  PROVE  Spec => [](PublishInv /\ RecordInv)
<1> DEFINE All == Base /\ AnswerInv /\ PublishInv /\ ContentInv /\ RecordInv
<1>1. Init => All
  BY InitBase, InitAnswers, InitContent
<1>2. All /\ [Next]_vars => All'
  BY NextBase, NextAnswers, NextContent
<1>3. All => PublishInv /\ RecordInv
  OBVIOUS
<1> HIDE DEF All
<1> QED BY <1>1, <1>2, <1>3, PTL DEF Spec

\* An envelope holds the content of the message its delivery announced, complete and in
\* order (BasicGet, BasicConsumeMessage, ReadContent).
THEOREM EnvelopesWhole == FewCalls => (Spec => []EnvelopesIntact)
<1> SUFFICES ASSUME FewCalls PROVE Spec => []EnvelopesIntact
  OBVIOUS
<1>1. Spec => [](PublishInv /\ RecordInv)
  BY ContentInvariant
<1>2. PublishInv /\ RecordInv => EnvelopesIntact
  BY DEF RecordInv
<1> QED BY <1>1, <1>2, PTL

\* BasicPublish ends with the confirm of its own message, and throws
\* MessageReturnedException, with that message, exactly if the broker returned it.
THEOREM PublishedTruly == FewCalls => (Spec => []PublishTruthful)
<1> SUFFICES ASSUME FewCalls PROVE Spec => []PublishTruthful
  OBVIOUS
<1>1. Spec => [](PublishInv /\ RecordInv)
  BY ContentInvariant
<1>2. PublishInv /\ RecordInv => PublishTruthful
  BY DEF PublishInv, RecordInv, PublishTruthful
<1> QED BY <1>1, <1>2, PTL

-----------------------------------------------------------------------------
(* Deliveries.                                                              *)

\* The message m is in the hands of the call k, which reads its content for a consumer of
\* channel c.
Held(k, c, m) == k.op = "BasicConsumeMessage" /\ k.ch = c /\ k.stage \in ContentStages /\ k.held.msg = m

\* Its delivery is among the frames s.
OnWay(s, m) == \E i \in 1 .. Len(s) : s[i].type = "METHOD" /\ s[i].id = "basic.deliver" /\ s[i].msg = m

\* Every message of D has come to an envelope of E, is in the hands of call k, or is on its way.
Kept(D, E, k, c, s) == \A m \in D : (\E e \in E : e.msg = m) \/ Held(k, c, m) \/ OnWay(s, m)

Accounted(c) == Kept(broker.delivered[c], envelopes, call, c, Stream(c))

\* A channel that a failed call has left behind: nobody uses it, and nothing is delivered on it.
LostChannel(c) ==
    /\ broker.consumers[c] = {}
    /\ \A i \in DOMAIN m_free_channels : m_free_channels[i] # c
    /\ \A tag \in DOMAIN m_consumer_channel_map : m_consumer_channel_map[tag] # c
    /\ ~(Busy /\ call.ch = c)

\* No message that was delivered on a channel still in use is lost.
DeliveredInv ==
    /\ \A c \in Ids : c > m_next_channel_id => broker.delivered[c] = {}
    /\ m_is_connected => \A c \in DOMAIN m_open_channels \ {0} : Accounted(c) \/ LostChannel(c)

\* More frames come.
LEMMA KeptAdded ==
  ASSUME NEW s \in Seq(Wire), NEW s2, Added(s, s2), NEW D, NEW E, NEW E2, E \subseteq E2, NEW k, NEW k2, NEW c,
         Kept(D, E, k, c, s), \A m : Held(k, c, m) => Held(k2, c, m)
  PROVE  Kept(D, E2, k2, c, s2)
<1>1. PICK u \in Seq(Wire) : s2 = s \o u
  BY DEF Added
<1>2. /\ Len(s2) = Len(s) + Len(u)
      /\ \A i \in 1 .. Len(s) + Len(u) : s2[i] = IF i <= Len(s) THEN s[i] ELSE u[i - Len(s)]
  BY <1>1, ConcatProperties
<1>3. Len(s) \in Nat /\ Len(u) \in Nat
  BY LenProperties
<1>4. \A i \in 1 .. Len(s) : i \in 1 .. Len(s2) /\ s2[i] = s[i]
  BY <1>2, <1>3
<1>5. \A m : OnWay(s, m) => OnWay(s2, m)
  BY <1>4 DEF OnWay
<1> QED BY <1>5 DEF Kept

\* A frame is taken: a delivery goes to the hands of the call.
LEMMA KeptTaken ==
  ASSUME NEW s \in Seq(Wire), NEW p \in 1 .. Len(s), NEW D, NEW E, NEW E2, E \subseteq E2, NEW k, NEW k2, NEW c,
         Kept(D, E, k, c, s), \A m : Held(k, c, m) => Held(k2, c, m) \/ \E e \in E2 : e.msg = m,
         s[p].type = "METHOD" /\ s[p].id = "basic.deliver" => Held(k2, c, s[p].msg)
  PROVE  Kept(D, E2, k2, c, RemoveAt(s, p))
<1> DEFINE t == RemoveAt(s, p)
<1>1. /\ t \in Seq(Wire) /\ Len(t) = Len(s) - 1
      /\ \A i \in 1 .. Len(s) - 1 : t[i] = s[IF i < p THEN i ELSE i + 1]
  BY Removed
<1>2. Len(s) \in Nat /\ p \in 1 .. Len(s)
  BY LenProperties
<1> HIDE DEF t
<1>3. \A i \in 1 .. Len(s) : i # p => \E j \in 1 .. Len(t) : t[j] = s[i]
  <2> SUFFICES ASSUME NEW i \in 1 .. Len(s), i # p PROVE \E j \in 1 .. Len(t) : t[j] = s[i]
    OBVIOUS
  <2>1. CASE i < p
    <3>1. i \in 1 .. Len(s) - 1
      BY <1>2, <2>1
    <3> QED BY <1>1, <2>1, <3>1
  <2>2. CASE ~(i < p)
    <3>1. i - 1 \in 1 .. Len(s) - 1 /\ ~(i - 1 < p) /\ i - 1 + 1 = i
      BY <1>2, <2>2
    <3> QED BY <1>1, <3>1
  <2> QED BY <2>1, <2>2
<1>4. ASSUME NEW m, OnWay(s, m) PROVE OnWay(t, m) \/ Held(k2, c, m)
  <2>1. PICK i \in 1 .. Len(s) : s[i].type = "METHOD" /\ s[i].id = "basic.deliver" /\ s[i].msg = m
    BY <1>4 DEF OnWay
  <2>2. CASE i = p
    BY <2>1, <2>2
  <2>3. CASE i # p
    <3>1. PICK j \in 1 .. Len(t) : t[j] = s[i]
      BY <1>3, <2>3
    <3> QED BY <2>1, <3>1 DEF OnWay
  <2> QED BY <2>2, <2>3
<1>5. Kept(D, E2, k2, c, t)
  BY <1>4 DEF Kept
<1> QED BY <1>5 DEF t

\* A step on channel c keeps DeliveredInv if it keeps what was delivered there.
LEMMA DeliveredStep ==
  ASSUME Base, Base', DeliveredInv, NEW c \in Ids \ {0}, OnlyOn(c), m_is_connected' => m_is_connected,
         m_next_channel_id <= m_next_channel_id', envelopes \subseteq envelopes',
         \A d \in Ids \ {c} : broker'.delivered[d] = broker.delivered[d],
         c \in DOMAIN m_open_channels \/ broker'.delivered[c] = broker.delivered[c],
         Busy => call.ch = c \/ call' = call, Busy' => call'.ch = c \/ call' = call,
         \A i \in DOMAIN m_free_channels' :
            m_free_channels'[i] = c \/ \E j \in DOMAIN m_free_channels : m_free_channels'[i] = m_free_channels[j],
         \A t \in DOMAIN m_consumer_channel_map' :
            \/ m_consumer_channel_map'[t] = c
            \/ t \in DOMAIN m_consumer_channel_map /\ m_consumer_channel_map'[t] = m_consumer_channel_map[t],
         m_is_connected' /\ c \in DOMAIN m_open_channels' =>
            \/ Kept(broker'.delivered[c], envelopes', call', c, Flow(m_open_channels', broker', c))
            \/ LostChannel(c)'
  PROVE  DeliveredInv'
<1>1. ASSUME NEW d \in Ids, d > m_next_channel_id' PROVE broker'.delivered[d] = {}
  <2>1. m_next_channel_id \in Nat /\ m_next_channel_id' \in Nat /\ d \in Nat
    BY DEF Base, TypeInv, Ids
  <2>2. d > m_next_channel_id
    BY <1>1, <2>1
  <2>3. broker.delivered[d] = {}
    BY <2>2 DEF DeliveredInv
  <2>4. \A a \in DOMAIN m_open_channels \ {0} : a <= m_next_channel_id
    BY <2>1 DEF Base, ChannelInv
  <2>5. c \in DOMAIN m_open_channels => c # d
    BY <2>1, <2>2, <2>4
  <2> QED BY <2>3, <2>5
<1>2. ASSUME m_is_connected', NEW d \in DOMAIN m_open_channels' \ {0}, d # c
      PROVE  Accounted(d)' \/ LostChannel(d)'
  <2>1. /\ d \in Ids \ {0, c} /\ d \in DOMAIN m_open_channels \ {0} /\ m_is_connected
        /\ broker'.consumers[d] = broker.consumers[d] /\ broker'.delivered[d] = broker.delivered[d]
        /\ Flow(m_open_channels', broker', d) = Stream(d)
    <3>1. d \in Ids \ {0, c} /\ m_is_connected
      BY <1>2 DEF Base, TypeInv
    <3> QED BY <3>1 DEF OnlyOn
  <2>2. CASE Accounted(d)
    <3>1. \A m : Held(call, d, m) => Held(call', d, m)
      BY <2>1 DEF Held, Busy
    <3>2. Kept(broker'.delivered[d], envelopes', call', d, Flow(m_open_channels', broker', d))
      BY <2>1, <2>2, <3>1 DEF Accounted, Kept
    <3> QED BY <3>2 DEF Accounted, Stream
  <2>3. CASE LostChannel(d)
    <3>1. ~(Busy' /\ call'.ch = d)
      BY <1>2, <2>3 DEF LostChannel, Busy
    <3>2. /\ \A i \in DOMAIN m_free_channels' : m_free_channels'[i] # d
          /\ \A t \in DOMAIN m_consumer_channel_map' : m_consumer_channel_map'[t] # d
      BY <1>2, <2>3 DEF LostChannel
    <3> QED BY <2>1, <2>3, <3>1, <3>2 DEF LostChannel
  <2> QED BY <2>1, <2>2, <2>3 DEF DeliveredInv
<1>3. ASSUME m_is_connected', c \in DOMAIN m_open_channels' PROVE Accounted(c)' \/ LostChannel(c)'
  BY <1>3 DEF Accounted, Stream
<1> QED BY <1>1, <1>2, <1>3 DEF DeliveredInv

\* A step that changes no channel.
LEMMA SameDelivered ==
  ASSUME Base, Base', DeliveredInv, UNCHANGED <<impl, call, envelopes>>,
         DOMAIN m_open_channels' = DOMAIN m_open_channels, broker'.delivered = broker.delivered,
         \A d \in DOMAIN m_open_channels \ {0} :
            Flow(m_open_channels', broker', d) = Stream(d) /\ broker'.consumers[d] = broker.consumers[d]
  PROVE  DeliveredInv'
<1>1. \A d \in DOMAIN m_open_channels \ {0} : Accounted(d) => Accounted(d)'
  BY DEF Accounted, Stream
<1>2. \A d \in DOMAIN m_open_channels \ {0} : LostChannel(d) => LostChannel(d)'
  BY DEF LostChannel, Busy, impl
<1> QED BY <1>1, <1>2 DEF DeliveredInv, impl

\* The frames on their way on an open channel.
LEMMA StreamTypes ==
  ASSUME Base, NEW c \in DOMAIN m_open_channels
  PROVE  /\ m_open_channels[c] \in Seq(Wire) /\ broker.out[c] \in Seq(Wire) /\ Stream(c) \in Seq(Wire)
         /\ Stream(c) = m_open_channels[c] \o broker.out[c] /\ broker \in Brokers
<1>1. m_open_channels[c] \in Seq(Wire) /\ broker.out[c] \in Seq(Wire) /\ broker \in Brokers
  BY DEF Base, TypeInv, Brokers
<1> QED BY <1>1, ConcatProperties DEF Stream, Flow

\* A request on an open channel adds to the frames on their way (Serve).
LEMMA RequestAdds ==
  ASSUME Base, NEW c \in DOMAIN m_open_channels \ {0}, NEW r, Served(broker, broker', c, r),
         m_open_channels'[c] = m_open_channels[c]
  PROVE  Added(Stream(c), Flow(m_open_channels', broker', c)) /\ broker'.delivered = broker.delivered
<1>1. c \in Ids \ {0} /\ broker \in Brokers /\ m_open_channels[c] \in Seq(Wire)
  BY DEF Base, TypeInv
<1>2. Added(m_open_channels[c] \o broker.out[c], m_open_channels[c] \o broker'.out[c])
  BY <1>1, ServedAdds
<1> QED BY <1>2 DEF Flow, Stream, Served, OtherChannels

\* A call starts on channel c (ConsumerCall, GetChannel, BasicConsumeMessage).
LEMMA StartsDelivered ==
  ASSUME Base, Base', DeliveredInv, ~Busy, NEW c \in DOMAIN m_open_channels \ {0}, OnlyOn(c), ~LostChannel(c),
         Added(Stream(c), Flow(m_open_channels', broker', c)), broker'.delivered = broker.delivered,
         call'.ch = c, UNCHANGED <<m_consumer_channel_map, m_is_connected, m_next_channel_id, envelopes>>,
         \A i \in DOMAIN m_free_channels' : \E j \in DOMAIN m_free_channels : m_free_channels'[i] = m_free_channels[j]
  PROVE  DeliveredInv'
<1> DEFINE s == Stream(c)
           s2 == Flow(m_open_channels', broker', c)
<1>1. s \in Seq(Wire) /\ Added(s, s2) /\ c \in Ids \ {0}
  BY StreamTypes DEF Base, TypeInv
<1>2. ASSUME m_is_connected PROVE Kept(broker.delivered[c], envelopes, call, c, s)
  BY <1>2 DEF DeliveredInv, Accounted
<1> HIDE DEF s, s2
<1>3. \A m : ~Held(call, c, m)
  BY DEF Held, Busy
<1>4. ASSUME m_is_connected PROVE Kept(broker.delivered[c], envelopes', call', c, s2)
  BY <1>1, <1>2, <1>3, <1>4, KeptAdded
<1>5. m_next_channel_id <= m_next_channel_id'
  BY DEF Base, TypeInv, Ids
<1> QED BY <1>1, <1>4, <1>5, DeliveredStep DEF s2

\* BasicConsumeMessage starts to listen.
LEMMA ConsumeMessageDelivered ==
  ASSUME Base, Base', DeliveredInv, NEW tag \in Tags, BasicConsumeMessage(tag)
  PROVE  DeliveredInv'
<1> DEFINE c == m_consumer_channel_map[tag]
<1>1. /\ ~Busy /\ tag \in DOMAIN m_consumer_channel_map /\ c \in DOMAIN m_open_channels
      /\ UNCHANGED <<m_open_channels, impl, broker, envelopes>>
  BY DEF BasicConsumeMessage, Idle, Busy
<1>2. call'.ch = c
  BY DEF BasicConsumeMessage, NoCall
<1>3. c \in DOMAIN m_open_channels \ {0} /\ c \in Ids \ {0}
  BY <1>1 DEF Base, TypeInv, ChannelInv
<1>4. ~LostChannel(c)
  BY <1>1 DEF LostChannel
<1> HIDE DEF c
<1>5. OnlyOn(c)
  BY <1>1, <1>3 DEF OnlyOn, Stream
<1>6. Added(Stream(c), Flow(m_open_channels', broker', c))
  <2>1. Stream(c) = Flow(m_open_channels', broker', c) /\ Stream(c) \in Seq(Wire)
    BY <1>1, <1>3, StreamTypes DEF Stream
  <2>2. Stream(c) = Stream(c) \o <<>> /\ <<>> \in Seq(Wire)
    BY <2>1, ConcatEmptySeq
  <2> QED BY <2>1, <2>2, WholeSmall DEF Added
<1> QED BY <1>1, <1>2, <1>3, <1>4, <1>5, <1>6, StartsDelivered DEF impl

\* A consumer's call starts (ConsumerCall).
LEMMA ConsumerCallDelivered ==
  ASSUME Base, DeliveredInv, NEW op \in {"BasicRecover", "BasicQos", "BasicCancel"}, NEW tag \in Tags,
         ConsumerCall(op, tag)
  PROVE  DeliveredInv'
<1> DEFINE c == ConsumersChannel(tag)
           k == [NoCall EXCEPT !.op = op, !.tag = tag, !.ch = c]
<1>1. /\ Base' /\ UNCHANGED <<m_open_channels, impl, envelopes, outcomes>>
      /\ ~Busy /\ tag \in DOMAIN m_consumer_channel_map /\ c \in Ids \ {0}
      /\ \/ /\ c \in DOMAIN m_open_channels
            /\ Entered(broker, k, m_open_channels)
         \/ /\ c \notin DOMAIN m_open_channels /\ call' = call
            /\ Served(broker, broker', c, FirstRequest(op, tag))
  BY ConsumerCallBase
<1>2. c = m_consumer_channel_map[tag]
  BY DEF ConsumersChannel
<1>3. k.op = op /\ k.tag = tag /\ k.ch = c
  BY DEF NoCall
<1>4. ~LostChannel(c)
  BY <1>1, <1>2 DEF LostChannel
<1> HIDE DEF k, c
<1>5. Served(broker, broker', c, FirstRequest(op, tag))
  BY <1>1, <1>3 DEF Entered
<1>6. OnlyOn(c)
  BY <1>1, <1>5, ServedOnly
<1>7. CASE c \in DOMAIN m_open_channels /\ Entered(broker, k, m_open_channels)
  <2>1. call'.ch = c
    BY <1>3, <1>7 DEF Entered
  <2>2. Added(Stream(c), Flow(m_open_channels', broker', c)) /\ broker'.delivered = broker.delivered
    BY <1>1, <1>5, <1>7, RequestAdds
  <2> QED BY <1>1, <1>4, <1>6, <1>7, <2>1, <2>2, StartsDelivered DEF impl
<1>8. CASE c \notin DOMAIN m_open_channels /\ call' = call
  <2>1. m_next_channel_id <= m_next_channel_id'
    BY <1>1 DEF Base, TypeInv, Ids, impl
  <2>2. broker'.delivered = broker.delivered
    BY <1>5 DEF Served, OtherChannels
  <2> QED BY <1>1, <1>6, <1>8, <2>1, <2>2, DeliveredStep DEF impl
<1> QED BY <1>1, <1>7, <1>8

\* A call takes the first free channel (GetChannel).
LEMMA FreeChannelDelivered ==
  ASSUME Base, Base', DeliveredInv, Idle, NEW op \in Pooled, NEW tag \in Tags \cup {NoTag},
         m_free_channels # <<>>, m_free_channels' = Tail(m_free_channels),
         Entered(broker, [NoCall EXCEPT !.op = op, !.tag = tag, !.ch = Head(m_free_channels)], m_open_channels),
         UNCHANGED <<m_open_channels, m_next_channel_id, m_consumer_channel_map, m_is_connected, envelopes>>
  PROVE  DeliveredInv'
<1> DEFINE c == Head(m_free_channels)
           k == [NoCall EXCEPT !.op = op, !.tag = tag, !.ch = c]
<1>1. /\ c = m_free_channels[1] /\ 1 \in DOMAIN m_free_channels
      /\ \A i \in DOMAIN m_free_channels' : i + 1 \in DOMAIN m_free_channels /\ m_free_channels'[i] = m_free_channels[i + 1]
  <2>1. m_free_channels \in Seq(Ids)
    BY DEF Base, TypeInv
  <2>2. /\ c = m_free_channels[1] /\ m_free_channels' \in Seq(Ids) /\ Len(m_free_channels') = Len(m_free_channels) - 1
        /\ \A i \in 1 .. Len(m_free_channels) - 1 : m_free_channels'[i] = m_free_channels[i + 1]
    BY <2>1, HeadTailProperties
  <2>3. /\ Len(m_free_channels) \in Nat /\ Len(m_free_channels) # 0
        /\ DOMAIN m_free_channels = 1 .. Len(m_free_channels) /\ DOMAIN m_free_channels' = 1 .. Len(m_free_channels')
    BY <2>1, <2>2, LenProperties, EmptySeq
  <2> HIDE DEF c
  <2> QED BY <2>2, <2>3
<1>2. c \in DOMAIN m_open_channels \ {0} /\ c \in Ids \ {0} /\ ~LostChannel(c)
  BY <1>1 DEF Base, ChannelInv, TypeInv, LostChannel
<1>3. k.op = op /\ k.tag = tag /\ k.ch = c
  BY DEF NoCall
<1>4. Entered(broker, k, m_open_channels)
  OBVIOUS
<1> HIDE DEF k, c
<1>5. ~Busy
  BY DEF Idle, Busy
<1>6. Served(broker, broker', c, FirstRequest(op, tag)) /\ call'.ch = c
  BY <1>3, <1>4 DEF Entered
<1>7. OnlyOn(c)
  BY <1>2, <1>6, ServedOnly
<1>8. Added(Stream(c), Flow(m_open_channels', broker', c)) /\ broker'.delivered = broker.delivered
  BY <1>2, <1>6, RequestAdds
<1>9. \A i \in DOMAIN m_free_channels' : \E j \in DOMAIN m_free_channels : m_free_channels'[i] = m_free_channels[j]
  BY <1>1
<1> QED BY <1>2, <1>5, <1>6, <1>7, <1>8, <1>9, StartsDelivered

\* A call opens a new channel (GetChannel, CreateNewChannel).
LEMMA NewChannelDelivered ==
  ASSUME FewCalls, Base, Base', DeliveredInv, Idle, NEW op \in Pooled, NEW tag \in Tags \cup {NoTag},
         m_next_channel_id' = GetNextChannelId,
         call' = [NoCall EXCEPT !.op = op, !.tag = tag, !.ch = m_next_channel_id + 1, !.stage = "open"],
         m_open_channels' \in [DOMAIN m_open_channels \cup {m_next_channel_id + 1} -> Seq(Wire)],
         \A d \in DOMAIN m_open_channels : m_open_channels'[d] = m_open_channels[d],
         Served(broker, broker', m_next_channel_id + 1, Request("channel.open", NoTag)),
         UNCHANGED <<m_free_channels, m_consumer_channel_map, m_is_connected, envelopes>>
  PROVE  DeliveredInv'
<1> DEFINE c == m_next_channel_id + 1
           r == Request("channel.open", NoTag)
<1>1. /\ c \in Ids \ {0} /\ c \notin DOMAIN m_open_channels /\ m_next_channel_id \in Nat
      /\ m_next_channel_id' = c /\ c > m_next_channel_id
  BY NextId DEF Idle, Base, TypeInv, Ids
<1>2. ~Busy /\ call'.ch = c
  BY DEF Idle, Busy, NoCall
<1>3. broker.delivered[c] = {}
  BY <1>1 DEF DeliveredInv
<1>4. DOMAIN m_open_channels' = DOMAIN m_open_channels \cup {c}
  OBVIOUS
<1>5. m_next_channel_id <= m_next_channel_id'
  BY <1>1
<1>6. Served(broker, broker', c, r)
  OBVIOUS
<1> HIDE DEF c, r
<1>7. broker'.delivered = broker.delivered
  BY <1>6 DEF Served, OtherChannels
<1>8. OnlyOn(c)
  BY <1>1, <1>4, <1>6, ServedOnly
<1>9. Kept(broker'.delivered[c], envelopes', call', c, Flow(m_open_channels', broker', c))
  BY <1>3, <1>7 DEF Kept
<1> QED BY <1>1, <1>2, <1>5, <1>7, <1>8, <1>9, DeliveredStep

\* An acknowledgement (BasicAck).
LEMMA AckDelivered ==
  ASSUME Base, DeliveredInv, NEW e \in envelopes, BasicAck(e)
  PROVE  DeliveredInv'
<1> DEFINE c == e.ch
           r == AckOf(e)
<1>1. Base' /\ Served(broker, broker', c, r) /\ c \in DOMAIN m_open_channels \ {0} /\ r.id = "basic.ack"
  BY AckBase DEF AckOf
<1>2. c \in Ids \ {0} /\ UNCHANGED <<m_open_channels, impl, call, envelopes>>
  BY <1>1 DEF BasicAck, Base, TypeInv
<1> HIDE DEF c, r
<1>3. OnlyOn(c)
  BY <1>1, <1>2, ServedOnly DEF impl
<1>4. Added(Stream(c), Flow(m_open_channels', broker', c)) /\ broker'.delivered = broker.delivered
  BY <1>1, <1>2, RequestAdds
<1>5. broker'.consumers[c] \subseteq broker.consumers[c]
  BY <1>1 DEF Served, Silent, Closes, Replied
<1>6. LostChannel(c) => LostChannel(c)'
  BY <1>2, <1>5 DEF LostChannel, Busy, impl
<1>7. Accounted(c) => Kept(broker'.delivered[c], envelopes', call', c, Flow(m_open_channels', broker', c))
  BY <1>1, <1>2, <1>4, StreamTypes, KeptAdded DEF Accounted
<1>8. m_next_channel_id <= m_next_channel_id'
  BY <1>2 DEF Base, TypeInv, Ids, impl
<1>9. m_is_connected => Accounted(c) \/ LostChannel(c)
  BY <1>1 DEF DeliveredInv
<1> QED BY <1>1, <1>2, <1>3, <1>4, <1>6, <1>7, <1>8, <1>9, DeliveredStep DEF impl

\* A delivery (Deliver).
LEMMA DeliverDelivered ==
  ASSUME Base, DeliveredInv, NEW c \in Ids, NEW tag \in Tags, Deliver(c, tag)
  PROVE  DeliveredInv'
<1>1. /\ Base' /\ c \in DOMAIN m_open_channels \ {0} /\ tag \in broker.consumers[c]
      /\ \E n \in Nat : DeliveryOf(c, tag, n)
  BY DeliverBase
<1>2. PICK n \in Nat : Message(broker, c, "basic.deliver", tag, n, broker')
  BY <1>1 DEF DeliveryOf
<1> DEFINE m == broker.sent + 1
           f == Method("basic.deliver", tag, m)
           u == <<f>> \o Content(m, n)
           s == Stream(c)
           s2 == Flow(m_open_channels', broker', c)
<1>3. m \in Nat
  <2>1. broker \in Brokers
    BY <1>1 DEF Base, TypeInv
  <2>2. broker.sent \in Nat
    BY <2>1 DEF Brokers
  <2> QED BY <2>2
<1>4. /\ broker'.out[c] = broker.out[c] \o u /\ \A d \in Ids \ {c} : broker'.out[d] = broker.out[d]
      /\ broker'.consumers = broker.consumers
      /\ broker'.delivered[c] = broker.delivered[c] \cup {m}
      /\ \A d \in Ids \ {c} : broker'.delivered[d] = broker.delivered[d]
  BY <1>2 DEF Message
<1>5. UNCHANGED <<m_open_channels, impl, call, envelopes>>
  BY DEF Deliver, history
<1>6. u \in Seq(Wire) /\ Whole(u, 0) /\ 1 \in 1 .. Len(u) /\ u[1] = f
  <2> HIDE DEF m
  <2>1. u \in Seq(Wire) /\ Whole(u, 0)
    BY <1>3, WholeMessage
  <2>2. <<f>> \in Seq(Wire) /\ Content(m, n) \in Seq(Wire)
    <3>1. f \in Wire
      BY <1>3, FrameTypes DEF MethodIds
    <3> QED BY <1>3, <3>1, ContentFrames
  <2>3. /\ Len(u) = Len(<<f>>) + Len(Content(m, n)) /\ Len(<<f>>) = 1 /\ Len(Content(m, n)) \in Nat
        /\ \A i \in 1 .. Len(<<f>>) + Len(Content(m, n)) :
              u[i] = IF i <= Len(<<f>>) THEN <<f>>[i] ELSE Content(m, n)[i - Len(<<f>>)]
    BY <2>2, ConcatProperties, LenProperties
  <2> HIDE DEF u, f
  <2>4. 1 \in 1 .. Len(u) /\ u[1] = <<f>>[1]
    BY <2>3
  <2> QED BY <2>1, <2>4
<1>7. f.type = "METHOD" /\ f.id = "basic.deliver" /\ f.msg = m
  BY FrameKinds
<1> HIDE DEF m, f, u
<1>8. s \in Seq(Wire) /\ s2 = s \o u
  <2> DEFINE x == m_open_channels[c]
             y == broker.out[c]
  <2>1. x \in Seq(Wire) /\ y \in Seq(Wire) /\ s = x \o y /\ s \in Seq(Wire)
    BY <1>1, StreamTypes
  <2>2. s2 = x \o (y \o u)
    BY <1>4, <1>5 DEF Flow
  <2> HIDE DEF x, y, s, s2
  <2>3. x \o (y \o u) = (x \o y) \o u
    BY <1>6, <2>1, Associated, SMTT(20)
  <2> QED BY <2>1, <2>2, <2>3
<1> HIDE DEF s, s2
<1>9. OnWay(s2, m)
  <2>1. /\ Len(s2) = Len(s) + Len(u) /\ Len(s) \in Nat /\ Len(u) \in Nat
        /\ \A i \in 1 .. Len(s) + Len(u) : s2[i] = IF i <= Len(s) THEN s[i] ELSE u[i - Len(s)]
    BY <1>6, <1>8, ConcatProperties, LenProperties
  <2>2. Len(s) + 1 \in 1 .. Len(s2) /\ ~(Len(s) + 1 <= Len(s)) /\ Len(s) + 1 - Len(s) = 1
    BY <1>6, <2>1
  <2>3. s2[Len(s) + 1] = f
    BY <1>6, <2>1, <2>2
  <2> QED BY <1>7, <2>2, <2>3 DEF OnWay
<1>10. Added(s, s2)
  BY <1>6, <1>8 DEF Added
<1>11. ASSUME m_is_connected
       PROVE  Kept(broker'.delivered[c], envelopes', call', c, s2)
  <2>1. Kept(broker.delivered[c], envelopes, call, c, s)
    BY <1>1, <1>11 DEF DeliveredInv, LostChannel, Accounted, s
  <2>2. Kept(broker.delivered[c], envelopes', call', c, s2)
    BY <1>5, <1>8, <1>10, <2>1, KeptAdded
  <2> QED BY <1>4, <1>9, <2>2 DEF Kept
<1>12. OnlyOn(c)
  BY <1>4, <1>5 DEF OnlyOn, Stream, Flow
<1>13. m_next_channel_id <= m_next_channel_id'
  BY <1>5 DEF Base, TypeInv, Ids, impl
<1> QED BY <1>1, <1>4, <1>5, <1>11, <1>12, <1>13, DeliveredStep DEF impl, s2

\* The broker closes the connection (ForceClose).
LEMMA ForceCloseDelivered ==
  ASSUME Base, DeliveredInv, ForceClose
  PROVE  DeliveredInv'
<1>1. /\ Base'
      /\ \A c \in Ids \ {0}, r \in Requests : Silent(broker, broker', c, r) /\ OtherChannels(broker, broker', c)
  BY ForceCloseBase
<1> DEFINE r == Request("basic.recover", NoTag)
<1>2. r \in Requests /\ 1 \in Ids \ {0}
  BY IdSpaceAssumption DEF Request, Requests, Ids
<1> HIDE DEF r
<1>3. /\ \A c \in Ids \ {0} : broker'.out[c] = broker.out[c] /\ broker'.consumers[c] = broker.consumers[c]
      /\ broker'.delivered = broker.delivered
  BY <1>1, <1>2 DEF Silent, OtherChannels
<1>4. UNCHANGED <<m_open_channels, impl, call, envelopes>>
  BY DEF ForceClose, history
<1>5. \A d \in DOMAIN m_open_channels \ {0} :
         Flow(m_open_channels', broker', d) = Stream(d) /\ broker'.consumers[d] = broker.consumers[d]
  BY <1>3, <1>4 DEF Flow, Stream, Base, TypeInv
<1> QED BY <1>1, <1>3, <1>4, <1>5, SameDelivered

\* A frame goes to a queue (OwnFrame, OtherFrame).
LEMMA QueuedDelivered ==
  ASSUME Base, DeliveredInv, FrameQueued
  PROVE  DeliveredInv'
<1>1. /\ Base' /\ UNCHANGED <<impl, history, call>>
      /\ \E c \in DOMAIN m_open_channels \ {0} : Queued(m_open_channels', broker', c)
  BY QueuedBase
<1>2. PICK c \in DOMAIN m_open_channels \ {0} : Queued(m_open_channels', broker', c)
  BY <1>1
<1>3. /\ \A d \in DOMAIN m_open_channels : Flow(m_open_channels', broker', d) = Stream(d)
      /\ DOMAIN m_open_channels' = DOMAIN m_open_channels
      /\ broker'.delivered = broker.delivered /\ broker'.consumers = broker.consumers
  BY <1>2 DEF Queued, Popped
<1>4. UNCHANGED <<impl, call, envelopes>>
  BY <1>1 DEF history
<1> QED BY <1>1, <1>3, <1>4, SameDelivered

\* The wait for a delivery is over (Timeout).
LEMMA TimeoutDelivered ==
  ASSUME Base, DeliveredInv, Timeout
  PROVE  DeliveredInv'
<1>1. Base' /\ Busy
  BY TimeoutBase
<1>2. UNCHANGED <<m_open_channels, impl, broker, envelopes>> /\ call' = NoCall /\ call.stage = "reply"
  BY DEF Timeout, EndCall, history
<1> DEFINE c == call.ch
<1>3. c \in DOMAIN m_open_channels \ {0} /\ c \in Ids \ {0}
  BY <1>1 DEF Base, ChannelInv, TypeInv
<1>4. OnlyOn(c) /\ Flow(m_open_channels', broker', c) = Stream(c)
  BY <1>2 DEF OnlyOn, Stream
<1>5. ~Busy'
  BY <1>2, CallTypes DEF Busy
<1>6. \A m : ~Held(call, c, m)
  BY <1>2 DEF Held, ContentStages
<1>7. ASSUME m_is_connected PROVE Accounted(c)
  BY <1>1, <1>3, <1>7 DEF DeliveredInv, LostChannel
<1> HIDE DEF c
<1>8. ASSUME m_is_connected
      PROVE  Kept(broker'.delivered[c], envelopes', call', c, Flow(m_open_channels', broker', c))
  BY <1>2, <1>4, <1>6, <1>7, <1>8 DEF Accounted, Kept
<1>9. m_next_channel_id <= m_next_channel_id'
  BY <1>2 DEF Base, TypeInv, Ids, impl
<1> QED BY <1>1, <1>2, <1>3, <1>4, <1>5, <1>8, <1>9, DeliveredStep DEF impl, c

\* The connection is closed (FinishCloseConnection).
LEMMA LostDelivered ==
  ASSUME Base, DeliveredInv, ConnectionLost, CallStep
  PROVE  DeliveredInv'
<1>1. /\ ~m_is_connected' /\ Popped(broker, broker', 0) /\ UNCHANGED m_next_channel_id
  BY LostBase
<1> QED BY <1>1 DEF DeliveredInv, Popped

\* The broker has closed the channel of the call (FinishCloseChannel).
LEMMA CloseDelivered ==
  ASSUME Base, DeliveredInv, CloseTaken
  PROVE  DeliveredInv'
<1>1. /\ Base' /\ Busy /\ call' = NoCall /\ UNCHANGED <<impl, history>>
      /\ call.ch \notin DOMAIN m_open_channels'
      /\ \E f, q, b, p :
            /\ Left(f, q, b, p) /\ IsClose(f) /\ Served(b, broker', call.ch, Request("channel.close-ok", NoTag))
            /\ DOMAIN m_open_channels' = DOMAIN m_open_channels \ {call.ch}
            /\ \A c \in DOMAIN m_open_channels' : m_open_channels'[c] = m_open_channels[c]
  BY CloseBase
<1> DEFINE r == Request("channel.close-ok", NoTag)
           c == call.ch
<1>2. PICK f, q, b, p :
            /\ Left(f, q, b, p) /\ IsClose(f) /\ Served(b, broker', call.ch, Request("channel.close-ok", NoTag))
            /\ DOMAIN m_open_channels' = DOMAIN m_open_channels \ {call.ch}
            /\ \A d \in DOMAIN m_open_channels' : m_open_channels'[d] = m_open_channels[d]
  BY <1>1
<1> HIDE DEF r
<1>3. /\ c \in Ids \ {0} /\ b.consumers = broker.consumers /\ b.delivered = broker.delivered
      /\ \A d \in Ids \ {c} : b.out[d] = broker.out[d]
  BY <1>1, <1>2 DEF Left, Base, ChannelInv, TypeInv
<1>4. Served(b, broker', c, r)
  BY <1>2 DEF r
<1>5. broker'.delivered = broker.delivered
  BY <1>3, <1>4 DEF Served, OtherChannels
<1>6. ~Busy'
  BY <1>1, CallTypes DEF Busy
<1>7. UNCHANGED <<impl, envelopes>> /\ m_next_channel_id <= m_next_channel_id'
  BY <1>1 DEF Base, TypeInv, Ids, impl, history
<1> HIDE DEF c
<1>8. OnlyOn(c)
  <2>1. \A d \in DOMAIN m_open_channels' \ {0, c} : d \in DOMAIN m_open_channels /\ m_open_channels'[d] = m_open_channels[d]
    BY <1>2
  <2> QED BY <1>3, <1>4, <2>1, ServedOnly
<1>9. c \notin DOMAIN m_open_channels' /\ (Busy' => call'.ch = c)
  BY <1>1, <1>6 DEF c
<1> QED BY <1>1, <1>3, <1>5, <1>6, <1>7, <1>8, <1>9, DeliveredStep DEF impl, c

\* A step of a call on its own channel.
LEMMA CallDelivered ==
  ASSUME Base, Base', DeliveredInv, Busy, NEW c, c = call.ch, OnlyOn(c), Busy' => call'.ch = c,
         broker'.delivered = broker.delivered, envelopes \subseteq envelopes',
         UNCHANGED <<m_is_connected, m_next_channel_id>>,
         m_free_channels' \in {m_free_channels, Append(m_free_channels, c)},
         \A t \in DOMAIN m_consumer_channel_map' :
            \/ m_consumer_channel_map'[t] = c
            \/ t \in DOMAIN m_consumer_channel_map /\ m_consumer_channel_map'[t] = m_consumer_channel_map[t],
         m_is_connected' /\ c \in DOMAIN m_open_channels' =>
            \/ Kept(broker'.delivered[c], envelopes', call', c, Flow(m_open_channels', broker', c))
            \/ LostChannel(c)'
  PROVE  DeliveredInv'
<1> DEFINE n == Len(m_free_channels)
<1>1. c \in Ids \ {0} /\ m_free_channels \in Seq(Ids) /\ c \in DOMAIN m_open_channels
  BY DEF Base, ChannelInv, TypeInv
<1>2. \A i \in DOMAIN m_free_channels' :
         m_free_channels'[i] = c \/ \E j \in DOMAIN m_free_channels : m_free_channels'[i] = m_free_channels[j]
  <2>1. CASE m_free_channels' = m_free_channels
    BY <2>1
  <2>2. CASE m_free_channels' = Append(m_free_channels, c)
    <3>1. /\ m_free_channels' \in Seq(Ids) /\ Len(m_free_channels') = n + 1 /\ n \in Nat
          /\ \A i \in 1 .. n : m_free_channels'[i] = m_free_channels[i]
          /\ m_free_channels'[n + 1] = c
      BY <1>1, <2>2, AppendProperties, LenProperties
    <3>2. DOMAIN m_free_channels' = 1 .. n + 1 /\ DOMAIN m_free_channels = 1 .. n
      BY <1>1, <3>1, LenProperties
    <3>3. \A i \in 1 .. n + 1 : i = n + 1 \/ i \in 1 .. n
      BY <3>1
    <3> HIDE DEF n
    <3> QED BY <3>1, <3>2, <3>3
  <2> QED BY <2>1, <2>2
<1>3. m_next_channel_id <= m_next_channel_id'
  BY DEF Base, TypeInv, Ids
<1>4. (Busy => call.ch = c \/ call' = call) /\ (Busy' => call'.ch = c \/ call' = call)
  OBVIOUS
<1> QED BY <1>1, <1>2, <1>3, <1>4, DeliveredStep

\* The call has taken a method.
LEMMA MethodKept ==
  ASSUME Base, DeliveredInv, Busy, m_is_connected, call.stage \in MethodStages, NEW f, NEW q, NEW b, NEW p,
         Left(f, q, b, p), NEW k, f.type = "METHOD" /\ f.id = "basic.deliver" => Held(k, call.ch, f.msg)
  PROVE  Kept(broker.delivered[call.ch], envelopes, k, call.ch, Flow(q, b, call.ch))
<1> DEFINE c == call.ch
           s == Stream(c)
<1>1. s \in Seq(Wire) /\ p \in 1 .. Len(s) /\ f = s[p] /\ Flow(q, b, c) = RemoveAt(s, p)
  BY DEF Left
<1>2. \A m : ~Held(call, c, m)
  BY DEF Held, ContentStages, MethodStages, Prelude
<1>3. Kept(broker.delivered[c], envelopes, call, c, s)
  BY DEF DeliveredInv, Accounted, LostChannel, Base, ChannelInv
<1> HIDE DEF c, s
<1>4. Kept(broker.delivered[c], envelopes, k, c, RemoveAt(s, p))
  BY <1>1, <1>2, <1>3, KeptTaken DEF c
<1> QED BY <1>1, <1>4 DEF c

\* The call has taken a method and sends its next request (ChannelOpened, ConfirmSelected, QosSet).
LEMMA RequestsDelivered ==
  ASSUME Base, Base', DeliveredInv, Busy, call.stage \in MethodStages, NEW f, NEW q, NEW b, NEW p,
         Left(f, q, b, p), f.id # "basic.deliver", m_open_channels' = q, NEW r,
         Served(b, broker', call.ch, r), call'.ch = call.ch, UNCHANGED <<impl, envelopes>>
  PROVE  DeliveredInv'
<1>1. PICK c : c = call.ch
  OBVIOUS
<1>2. c \in DOMAIN m_open_channels /\ c \in Ids \ {0} /\ m_is_connected
  BY <1>1 DEF Base, ChannelInv, TypeInv, StageInv
<1>3. /\ b \in Brokers /\ b.consumers = broker.consumers /\ b.delivered = broker.delivered
      /\ q \in [DOMAIN m_open_channels -> Seq(Wire)]
      /\ \A d \in DOMAIN m_open_channels \ {c} : q[d] = m_open_channels[d]
      /\ \A d \in Ids \ {c} : b.out[d] = broker.out[d]
  BY <1>1 DEF Left
<1> DEFINE x == q[c]
<1>4. /\ x \in Seq(Wire) /\ b.out[c] \in Seq(Wire) /\ Served(b, broker', c, r)
      /\ Flow(q, b, c) = x \o b.out[c] /\ Flow(m_open_channels', broker', c) = x \o broker'.out[c]
  BY <1>1, <1>2, <1>3 DEF Flow, Brokers
<1>5. Kept(broker.delivered[c], envelopes, call', c, Flow(q, b, c))
  BY <1>1, <1>2, MethodKept
<1> HIDE DEF x
<1>6. Added(x \o b.out[c], x \o broker'.out[c]) /\ x \o b.out[c] \in Seq(Wire)
  BY <1>2, <1>3, <1>4, ServedAdds, ConcatProperties
<1>7. Kept(broker.delivered[c], envelopes', call', c, x \o broker'.out[c])
  <2> DEFINE s == x \o b.out[c]
             s2 == x \o broker'.out[c]
  <2>1. s \in Seq(Wire) /\ Added(s, s2) /\ Kept(broker.delivered[c], envelopes, call', c, s)
    BY <1>4, <1>5, <1>6
  <2>2. envelopes \subseteq envelopes' /\ \A m : Held(call', c, m) => Held(call', c, m)
    OBVIOUS
  <2> HIDE DEF s, s2
  <2>3. Kept(broker.delivered[c], envelopes', call', c, s2)
    BY <2>1, <2>2, KeptAdded
  <2> QED BY <2>3 DEF s2
<1>8. OnlyOn(c)
  <2>1. \A d \in DOMAIN m_open_channels' \ {0, c} : d \in DOMAIN m_open_channels /\ m_open_channels'[d] = m_open_channels[d]
    BY <1>3
  <2> QED BY <1>2, <1>3, <1>4, <2>1, ServedOnly
<1>9. broker'.delivered = broker.delivered
  BY <1>3, <1>4 DEF Served, OtherChannels
<1>10. Kept(broker'.delivered[c], envelopes', call', c, Flow(m_open_channels', broker', c))
  BY <1>4, <1>7, <1>9
<1> QED BY <1>1, <1>8, <1>9, <1>10, CallDelivered DEF impl

\* The call has taken a method and asks for nothing more.
LEMMA TakenDelivered ==
  ASSUME Base, Base', DeliveredInv, Busy, call.stage \in MethodStages, NEW f, NEW q, NEW b, NEW p,
         Left(f, q, b, p), m_open_channels' = q, broker' = b, Busy' => call'.ch = call.ch,
         f.type = "METHOD" /\ f.id = "basic.deliver" => Held(call', call.ch, f.msg),
         m_free_channels' \in {m_free_channels, Append(m_free_channels, call.ch)},
         \A t \in DOMAIN m_consumer_channel_map' :
            \/ m_consumer_channel_map'[t] = call.ch
            \/ t \in DOMAIN m_consumer_channel_map /\ m_consumer_channel_map'[t] = m_consumer_channel_map[t],
         UNCHANGED <<m_is_connected, m_next_channel_id, envelopes>>
  PROVE  DeliveredInv'
<1>1. PICK c : c = call.ch
  OBVIOUS
<1>2. m_is_connected
  BY DEF Base, StageInv
<1>3. OnlyOn(c) /\ Flow(m_open_channels', broker', c) = Flow(q, b, c)
  BY <1>1, TakenOnly
<1>4. broker'.delivered = broker.delivered
  BY DEF Left
<1>5. Kept(broker'.delivered[c], envelopes', call', c, Flow(m_open_channels', broker', c))
  BY <1>1, <1>2, <1>3, <1>4, MethodKept
<1> QED BY <1>1, <1>3, <1>4, <1>5, CallDelivered

\* A call that takes a frame it waits for (MethodTaken).
LEMMA MethodTakenDelivered ==
  ASSUME Base, DeliveredInv, MethodTaken
  PROVE  DeliveredInv'
<1>1. PICK f, q, b, p :
        /\ Left(f, q, b, p) /\ Remains(q, b) /\ m_open_channels' = q
        /\ call.stage \in MethodStages /\ Busy /\ f \in Wire
        /\ is_expected_method(f, call)
        /\ \A i \in 1 .. Len(Stream(call.ch)) : i < p => ~is_expected_method(Stream(call.ch)[i], call)
        /\ MethodArrived(f, q, b)
  BY MethodTakenBase
<1>2. Base'
  BY MethodTakenBase
<1>3. f.id \in Expected(call)
  BY <1>1 DEF is_expected_method
<1>4. CASE ChannelOpened(q, b) \/ ConfirmSelected(q, b) \/ QosSet(q, b)
  <2>1. call.stage \in {"open", "select", "qos"} /\ UNCHANGED <<impl, history>>
    BY <1>4 DEF ChannelOpened, ConfirmSelected, QosSet
  <2>2. f.id # "basic.deliver"
    BY <1>3, <2>1 DEF Expected, Prelude
  <2>3. UNCHANGED <<impl, envelopes>>
    BY <2>1 DEF history
  <2>4. ASSUME NEW id, NEW tag, NEW stage, Asks(q, b, id, tag, stage) PROVE DeliveredInv'
    <3>1. Served(b, broker', call.ch, Request(id, tag)) /\ call'.ch = call.ch
      BY <2>4 DEF Asks, CallRecords, Base, TypeInv
    <3> QED BY <1>1, <1>2, <2>2, <2>3, <3>1, RequestsDelivered
  <2>5. CASE ChannelOpened(q, b)
    <3>1. /\ Send(b, Request("confirm.select", NoTag), [call EXCEPT !.stage = "select"])
          /\ call.op \in Pooled
      BY <2>5 DEF ChannelOpened, Base, StageInv
    <3>2. Asks(q, b, "confirm.select", NoTag, "select")
      BY <1>1, <2>1, <3>1, AsksBase
    <3> QED BY <2>4, <3>2
  <2>6. CASE ConfirmSelected(q, b)
    <3>1. Enter(b, call) /\ call.op \in Pooled
      BY <2>6 DEF ConfirmSelected, Base, StageInv
    <3>2. Entered(b, call, q)
      BY <1>1, <2>1, <3>1, EnterBase
    <3>3. Served(b, broker', call.ch, FirstRequest(call.op, call.tag)) /\ call'.ch = call.ch
      BY <3>2 DEF Entered
    <3> QED BY <1>1, <1>2, <2>2, <2>3, <3>3, RequestsDelivered
  <2>7. CASE QosSet(q, b)
    <3>1. /\ Send(b, Request("basic.consume", call.tag), [call EXCEPT !.stage = "reply"])
          /\ call.tag \in Tags
      BY <2>7 DEF QosSet, Base, StageInv
    <3>2. Asks(q, b, "basic.consume", call.tag, "reply")
      BY <1>1, <2>1, <3>1, AsksBase
    <3> QED BY <2>4, <3>2
  <2> QED BY <1>4, <2>5, <2>6, <2>7
<1>5. CASE Answered(f, q, b) \/ Published(f, q, b) \/ Cancelled(f, q, b)
  <2>1. /\ broker' = b /\ call' = NoCall
        /\ m_free_channels' = Append(m_free_channels, call.ch)
        /\ UNCHANGED m_consumer_channel_map
           \/ m_consumer_channel_map' = Restrict(m_consumer_channel_map, DOMAIN m_consumer_channel_map \ {call.tag})
        /\ UNCHANGED <<m_is_connected, m_next_channel_id, envelopes>> /\ f.id # "basic.deliver"
    BY <1>5 DEF Answered, Published, Cancelled, ReturnChannel, EndCall, history
  <2>2. \A t \in DOMAIN m_consumer_channel_map' :
           t \in DOMAIN m_consumer_channel_map /\ m_consumer_channel_map'[t] = m_consumer_channel_map[t]
    BY <2>1 DEF Restrict
  <2>3. ~Busy'
    BY <2>1, CallTypes DEF Busy
  <2> QED BY <1>1, <1>2, <2>1, <2>2, <2>3, TakenDelivered
<1>6. CASE ContentFollows(f, q, b) \/ DeliveryFollows(f, q, b)
  <2>1. /\ broker' = b /\ call' = [call EXCEPT !.stage = "header", !.held = f] /\ UNCHANGED <<impl, history>>
    BY <1>1, <1>6 DEF ContentFollows, DeliveryFollows, GoOn, Remains
  <2>2. call'.op = call.op /\ call'.ch = call.ch /\ call'.stage = "header" /\ call'.held = f
    BY <2>1 DEF CallRecords, Base, TypeInv
  <2>3. f.id = "basic.deliver" => Held(call', call.ch, f.msg)
    BY <1>1, <2>2, Replying DEF Held, ContentStages
  <2>4. /\ m_free_channels' = m_free_channels
        /\ \A t \in DOMAIN m_consumer_channel_map' :
              t \in DOMAIN m_consumer_channel_map /\ m_consumer_channel_map'[t] = m_consumer_channel_map[t]
        /\ UNCHANGED <<m_is_connected, m_next_channel_id, envelopes>>
    BY <2>1 DEF impl, history
  <2> QED BY <1>1, <1>2, <2>1, <2>2, <2>3, <2>4, TakenDelivered
<1>7. CASE Adjusted(f, q, b) \/ Consuming(f, q, b)
  <2>1. /\ broker' = b /\ call' = NoCall
        /\ \/ UNCHANGED m_consumer_channel_map
           \/ m_consumer_channel_map' = Insert(m_consumer_channel_map, call.tag, call.ch)
        /\ UNCHANGED <<m_free_channels, m_is_connected, m_next_channel_id, envelopes>> /\ f.id # "basic.deliver"
    BY <1>7 DEF Adjusted, Consuming, EndCall, impl, history
  <2>2. \A t \in DOMAIN m_consumer_channel_map' :
           \/ m_consumer_channel_map'[t] = call.ch
           \/ t \in DOMAIN m_consumer_channel_map /\ m_consumer_channel_map'[t] = m_consumer_channel_map[t]
    BY <2>1 DEF Insert
  <2>3. ~Busy'
    BY <2>1, CallTypes DEF Busy
  <2> QED BY <1>1, <1>2, <2>1, <2>2, <2>3, TakenDelivered
<1> QED BY <1>1, <1>4, <1>5, <1>6, <1>7 DEF MethodArrived

\* The call has taken a frame of its content: the message stays in its hands, or goes to an envelope.
LEMMA ContentKept ==
  ASSUME Base, DeliveredInv, Busy, call.stage \in ContentStages, NEW f, NEW q, NEW b, Left(f, q, b, 1),
         f.type # "METHOD", NEW k, NEW E, envelopes \subseteq E, NEW c, c = call.ch, c \in DOMAIN m_open_channels,
         \A m : Held(call, c, m) => Held(k, c, m) \/ \E e \in E : e.msg = m
  PROVE  Kept(broker.delivered[c], E, k, c, Flow(q, b, c))
<1> DEFINE s == Stream(c)
<1>1. s \in Seq(Wire) /\ 1 \in 1 .. Len(s) /\ f = s[1] /\ Flow(q, b, c) = RemoveAt(s, 1)
  BY DEF Left
<1>2. Kept(broker.delivered[c], envelopes, call, c, s)
  BY DEF DeliveredInv, Accounted, LostChannel, Base, ChannelInv, StageInv
<1> HIDE DEF s
<1> QED BY <1>1, <1>2, KeptTaken

\* A call that reads a frame of a content (ContentTaken).
LEMMA ContentTakenDelivered ==
  ASSUME Base, AnswerInv, ContentInv, DeliveredInv, ContentTaken
  PROVE  DeliveredInv'
<1>1. PICK f, q, b :
         /\ Left(f, q, b, 1) /\ Remains(q, b) /\ m_open_channels' = q /\ broker' = b
         /\ call.stage \in ContentStages /\ Busy /\ f \in Wire
         /\ ReadContent(f, q, b)
  BY ContentTakenBase
<1>2. Base'
  BY ContentTakenBase
<1>3. PICK c : c = call.ch
  OBVIOUS
<1> DEFINE k == WithFrame(f)
<1>4. /\ k.op = call.op /\ k.ch = call.ch /\ k.held = call.held /\ k \in CallRecords
  BY <1>1, ContentBase
<1>5. /\ call.stage \in {"header", "body"} /\ call.op \in {"BasicPublish", "BasicGet", "BasicConsumeMessage"}
      /\ c \in DOMAIN m_open_channels \ {0} /\ c \in Ids \ {0}
  BY <1>1, <1>3 DEF ContentStages, Base, StageInv, ChannelInv, TypeInv
<1>6. OnlyOn(c) /\ Flow(m_open_channels', broker', c) = Flow(q, b, c) /\ broker'.consumers = broker.consumers
  BY <1>1, <1>3, TakenOnly
<1>7. broker'.delivered = broker.delivered
  BY <1>1 DEF Left
<1>8. ASSUME NEW E, envelopes \subseteq E, f.type # "METHOD",
             \A m : Held(call, c, m) => Held(call', c, m) \/ \E e \in E : e.msg = m
      PROVE  Kept(broker'.delivered[c], E, call', c, Flow(m_open_channels', broker', c))
  <2>1. Kept(broker.delivered[c], E, call', c, Flow(q, b, c))
    BY <1>1, <1>3, <1>5, <1>8, ContentKept
  <2> QED BY <1>6, <1>7, <2>1
<1>9. CASE /\ f.type # IF call.stage = "header" THEN "HEADER" ELSE "BODY"
           /\ EndCall(q, b)
           /\ UNCHANGED <<impl, history>>
  <2>1. call' = NoCall /\ UNCHANGED <<m_free_channels, m_consumer_channel_map, m_is_connected, m_next_channel_id, envelopes>>
    BY <1>9 DEF EndCall, impl, history
  <2>2. Misplaced(Stream(call.ch), call)
    <3> DEFINE s == Stream(call.ch)
    <3>1. Reads(s, call) /\ s \in Seq(Wire) /\ f = s[1]
      BY <1>1 DEF ContentInv, Left
    <3> HIDE DEF s
    <3>2. ASSUME NEW r \in 1 .. Len(s), RestOf(s, call, r) PROVE FALSE
      <4>1. 1 \in 1 .. r
        BY <3>1, LenProperties
      <4>2. CASE call.stage = "header"
        BY <1>9, <3>1, <3>2, <4>2, FrameKinds DEF RestOf
      <4>3. CASE call.stage = "body"
        BY <1>9, <3>1, <3>2, <4>1, <4>3, FrameKinds DEF RestOf
      <4> QED BY <1>5, <4>2, <4>3
    <3> QED BY <1>1, <3>1, <3>2 DEF Reads, s
  <2>3. call.op \in {"BasicPublish", "BasicGet"} /\ call.op \in Pooled
    BY <2>2 DEF Misplaced, Pooled
  <2>4. broker.consumers[c] = {}
    BY <1>1, <1>3, <2>3 DEF AnswerInv, Awaits
  <2>5. /\ \A i \in DOMAIN m_free_channels : m_free_channels[i] # c
        /\ \A t \in DOMAIN m_consumer_channel_map : m_consumer_channel_map[t] # c
    BY <1>1, <1>3, <2>3 DEF Base, ChannelInv
  <2>6. ~Busy'
    BY <2>1, CallTypes DEF Busy
  <2>7. LostChannel(c)'
    BY <1>6, <2>1, <2>4, <2>5, <2>6 DEF LostChannel
  <2> QED BY <1>1, <1>2, <1>3, <1>6, <1>7, <2>1, <2>6, <2>7, CallDelivered
<1>10. ASSUME f.type # "METHOD", ContentRead(k, q, b) PROVE DeliveredInv'
  <2> HIDE DEF k
  <2>1. ASSUME NEW stage \in {"body", "confirm"}, call' = [k EXCEPT !.stage = stage], UNCHANGED <<impl, history>>,
               stage = "confirm" => k.op # "BasicConsumeMessage"
        PROVE  DeliveredInv'
    <3>1. call'.op = call.op /\ call'.ch = c /\ call'.held = call.held /\ call'.stage = stage
      BY <1>3, <1>4, <2>1 DEF CallRecords
    <3>2. \A m : Held(call, c, m) => Held(call', c, m)
      BY <1>4, <2>1, <3>1 DEF Held, ContentStages
    <3>3. UNCHANGED <<m_free_channels, m_consumer_channel_map, m_is_connected, m_next_channel_id, envelopes>>
      BY <2>1 DEF impl, history
    <3>4. Kept(broker'.delivered[c], envelopes, call', c, Flow(m_open_channels', broker', c))
      BY <1>8, <1>10, <3>2
    <3> QED BY <1>1, <1>2, <1>3, <1>6, <1>7, <3>1, <3>3, <3>4, CallDelivered
  <2>2. ASSUME envelopes' = envelopes \cup {Envelope(k)}, call' = NoCall,
               m_free_channels' \in {m_free_channels, Append(m_free_channels, c)},
               UNCHANGED <<m_consumer_channel_map, m_is_connected, m_next_channel_id>>
        PROVE  DeliveredInv'
    <3>1. Envelope(k) \in envelopes' /\ Envelope(k).msg = call.held.msg /\ envelopes \subseteq envelopes'
      BY <1>4, <2>2 DEF Envelope
    <3>2. \A m : Held(call, c, m) => \E e \in envelopes' : e.msg = m
      BY <3>1 DEF Held
    <3>3. Kept(broker'.delivered[c], envelopes', call', c, Flow(m_open_channels', broker', c))
      BY <1>8, <1>10, <3>1, <3>2
    <3>4. ~Busy'
      BY <2>2, CallTypes DEF Busy
    <3> QED BY <1>1, <1>2, <1>3, <1>6, <1>7, <2>2, <3>1, <3>3, <3>4, CallDelivered
  <2>3. CASE GoOn(q, b, [k EXCEPT !.stage = "body"]) /\ UNCHANGED <<impl, history>>
    <3>1. call' = [k EXCEPT !.stage = "body"]
      BY <2>3 DEF GoOn
    <3> QED BY <2>1, <2>3, <3>1
  <2>4. CASE k.op = "BasicPublish" /\ GoOn(q, b, [k EXCEPT !.stage = "confirm"]) /\ UNCHANGED <<impl, history>>
    <3>1. call' = [k EXCEPT !.stage = "confirm"]
      BY <2>4 DEF GoOn
    <3> QED BY <2>1, <2>4, <3>1
  <2>5. CASE /\ k.op = "BasicGet"
             /\ envelopes' = envelopes \cup {Envelope(k)}
             /\ ReturnChannel(q, b)
             /\ UNCHANGED <<m_consumer_channel_map, m_next_channel_id, m_is_connected, calls, outcomes>>
    <3>1. call' = NoCall /\ m_free_channels' = Append(m_free_channels, call.ch)
      BY <2>5 DEF ReturnChannel, EndCall
    <3> QED BY <1>3, <2>2, <2>5, <3>1
  <2>6. CASE /\ k.op = "BasicConsumeMessage"
             /\ envelopes' = envelopes \cup {Envelope(k)}
             /\ EndCall(MaybeReleaseBuffers(q), b)
             /\ UNCHANGED <<impl, calls, outcomes>>
    <3>1. call' = NoCall /\ UNCHANGED <<m_free_channels, m_consumer_channel_map, m_is_connected, m_next_channel_id>>
      BY <2>6 DEF EndCall, impl
    <3> QED BY <2>2, <2>6, <3>1
  <2> QED BY <1>10, <2>3, <2>4, <2>5, <2>6 DEF ContentRead, ContentComplete
<1> QED BY <1>1, <1>9, <1>10 DEF ReadContent, WithFrame

\* DeclareQueue and the like, BasicPublish, BasicGet and BasicConsume start (PooledCall).
LEMMA PooledCallDelivered ==
  ASSUME FewCalls, Base, DeliveredInv, NEW op \in Pooled, NEW tag \in Tags \cup {NoTag},
         op = "BasicConsume" => tag \in Tags, PooledCall(op, tag)
  PROVE  DeliveredInv'
<1> DEFINE k == [NoCall EXCEPT !.op = op, !.tag = tag]
<1>0. /\ Idle /\ Called /\ GetChannel(k)
      /\ UNCHANGED <<m_consumer_channel_map, m_is_connected, envelopes, outcomes>>
  BY DEF PooledCall
<1>1. \A x, stage : /\ [k EXCEPT !.ch = x] = [NoCall EXCEPT !.op = op, !.tag = tag, !.ch = x]
                    /\ [k EXCEPT !.ch = x, !.stage = stage]
                          = [NoCall EXCEPT !.op = op, !.tag = tag, !.ch = x, !.stage = stage]
  BY DEF NoCall
<1> HIDE DEF k
<1>2. CASE m_free_channels # <<>>
  <2>1. /\ m_free_channels' = Tail(m_free_channels)
        /\ Enter(broker, [NoCall EXCEPT !.op = op, !.tag = tag, !.ch = Head(m_free_channels)])
        /\ UNCHANGED <<m_open_channels, m_next_channel_id>>
    BY <1>0, <1>1, <1>2 DEF GetChannel
  <2>2. /\ Base'
        /\ Entered(broker, [NoCall EXCEPT !.op = op, !.tag = tag, !.ch = Head(m_free_channels)], m_open_channels)
    BY <1>0, <1>2, <2>1, FreeChannelTaken
  <2> QED BY <1>0, <1>2, <2>1, <2>2, FreeChannelDelivered
<1>3. CASE m_free_channels = <<>>
  <2>1. /\ m_next_channel_id' = GetNextChannelId
        /\ m_open_channels' = Insert(m_open_channels, GetNextChannelId, <<>>)
        /\ Send(broker, Request("channel.open", NoTag),
                [NoCall EXCEPT !.op = op, !.tag = tag, !.ch = GetNextChannelId, !.stage = "open"])
        /\ UNCHANGED m_free_channels
    BY <1>0, <1>1, <1>3 DEF GetChannel
  <2>2. /\ Base'
        /\ call' = [NoCall EXCEPT !.op = op, !.tag = tag, !.ch = m_next_channel_id + 1, !.stage = "open"]
        /\ m_open_channels' \in [DOMAIN m_open_channels \cup {m_next_channel_id + 1} -> Seq(Wire)]
        /\ \A d \in DOMAIN m_open_channels : m_open_channels'[d] = m_open_channels[d]
        /\ Served(broker, broker', m_next_channel_id + 1, Request("channel.open", NoTag))
    BY <1>0, <1>3, <2>1, ChannelCreated
  <2> QED BY <1>0, <2>1, <2>2, NewChannelDelivered
<1> QED BY <1>2, <1>3

\* Nothing has been delivered yet.
LEMMA InitDelivered ==
  ASSUME Init
  PROVE  DeliveredInv
<1>1. DOMAIN m_open_channels = {0} /\ \A c \in Ids : broker.delivered[c] = {}
  BY DEF Init, NewBroker
<1> QED BY <1>1 DEF DeliveredInv

\* Every step keeps what was delivered.
LEMMA NextDelivered ==
  ASSUME FewCalls, Base, AnswerInv, ContentInv, DeliveredInv, [Next]_vars
  PROVE  DeliveredInv'
<1>0. Base'
  BY NextBase
<1>1. CASE DoRpc \/ BasicPublish \/ BasicGet \/ \E tag \in Tags : BasicConsume(tag)
  <2>1. {"DoRpc", "BasicPublish", "BasicGet", "BasicConsume"} \subseteq Pooled
    BY DEF Pooled
  <2> QED BY <1>1, <2>1, PooledCallDelivered DEF DoRpc, BasicPublish, BasicGet, BasicConsume
<1>2. ASSUME NEW tag \in Tags, BasicRecover(tag) \/ BasicQos(tag) \/ BasicCancel(tag) PROVE DeliveredInv'
  BY <1>2, ConsumerCallDelivered DEF BasicRecover, BasicQos, BasicCancel
<1>3. ASSUME NEW tag \in Tags, BasicConsumeMessage(tag) PROVE DeliveredInv'
  BY <1>0, <1>3, ConsumeMessageDelivered
<1>4. ASSUME NEW e \in envelopes, BasicAck(e) PROVE DeliveredInv'
  BY <1>4, AckDelivered
<1>5. CASE CallStep
  BY <1>5, CallSteps, MethodTakenDelivered, ContentTakenDelivered, CloseDelivered, QueuedDelivered, LostDelivered
<1>6. CASE Timeout
  BY <1>6, TimeoutDelivered
<1>7. ASSUME NEW c \in Ids, NEW tag \in Tags, Deliver(c, tag) PROVE DeliveredInv'
  BY <1>7, DeliverDelivered
<1>8. CASE ForceClose
  BY <1>8, ForceCloseDelivered
<1>9. CASE UNCHANGED vars
  <2>1. UNCHANGED <<m_open_channels, impl, call, broker, envelopes>>
    BY <1>9 DEF vars, history
  <2> QED BY <1>0, <2>1, SameDelivered DEF Stream
<1> QED BY <1>1, <1>2, <1>3, <1>4, <1>5, <1>6, <1>7, <1>8, <1>9 DEF Next

\* A message delivered on a channel whose consumer is still there has come to an envelope,
\* is in the hands of the call in progress, or is on its way: reading for another call
\* drops none (GetNextFrameFromBrokerOnChannel, GetMethodOnChannel, ReadContent).
THEOREM DeliveriesKept == FewCalls => (Spec => []NothingDropped)
<1> SUFFICES ASSUME FewCalls PROVE Spec => []NothingDropped
  OBVIOUS
<1> DEFINE All == Base /\ AnswerInv /\ PublishInv /\ ContentInv /\ RecordInv /\ DeliveredInv
<1>1. Init => All
  BY InitBase, InitAnswers, InitContent, InitDelivered
<1>2. All /\ [Next]_vars => All'
  BY NextBase, NextAnswers, NextContent, NextDelivered
<1>3. All => NothingDropped
  <2> SUFFICES ASSUME Base, DeliveredInv, m_is_connected, NEW c \in DOMAIN m_open_channels,
                      broker.consumers[c] # {}, NEW m \in broker.delivered[c]
               PROVE  \/ \E e \in envelopes : e.msg = m
                      \/ call.held.msg = m
                      \/ \E f \in Range(m_open_channels[c] \o broker.out[c]) : f.id = "basic.deliver" /\ f.msg = m
    BY DEF NothingDropped
  <2>1. c # 0
    BY DEF Base, CloseInv, Tidy
  <2>2. Accounted(c)
    BY <2>1 DEF DeliveredInv, LostChannel
  <2>3. CASE Held(call, c, m)
    BY <2>3 DEF Held
  <2>4. CASE OnWay(Stream(c), m)
    <3> DEFINE s == Stream(c)
    <3>1. s \in Seq(Wire) /\ s = m_open_channels[c] \o broker.out[c]
      BY StreamTypes
    <3>2. PICK i \in 1 .. Len(s) : s[i].id = "basic.deliver" /\ s[i].msg = m
      BY <2>4 DEF OnWay
    <3> HIDE DEF s
    <3>3. s[i] \in Range(s)
      BY <3>1, LenProperties DEF Range
    <3> QED BY <3>1, <3>2, <3>3
  <2> QED BY <2>2, <2>3, <2>4 DEF Accounted, Kept
<1> HIDE DEF All
<1> QED BY <1>1, <1>2, <1>3, PTL DEF Spec

=============================================================================
