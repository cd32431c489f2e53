------------------------ MODULE RabbitRpcServerProofs ------------------------
(***************************************************************************)
(* Proofs about RabbitRpcServer, for any set of requests and any number of *)
(* worker threads.                                                         *)
(***************************************************************************)
EXTENDS RabbitRpcServer, SequenceTheorems, FiniteSetTheorems, TLAPS

-----------------------------------------------------------------------------
(* Facts about the set of elements of a sequence.                          *)

\* The empty queue holds nothing.
LEMMA NoElements == ToSet(<<>>) = {} /\ IsInjective(<<>>)
<1>1. DOMAIN <<>> = {} OBVIOUS
<1> QED BY <1>1 DEF ToSet, IsInjective

\* Appending adds one element, and keeps the elements distinct if it is new.
LEMMA AppendSeq ==
  ASSUME NEW S, NEW s \in Seq(S), NEW e \in S
  PROVE  /\ Append(s, e) \in Seq(S)
         /\ Len(Append(s, e)) = Len(s) + 1
         /\ ToSet(Append(s, e)) = ToSet(s) \cup {e}
         /\ IsInjective(s) /\ e \notin ToSet(s) => IsInjective(Append(s, e))
<1> DEFINE a == Append(s, e)
<1>1. /\ a \in Seq(S)
      /\ Len(a) = Len(s) + 1
      /\ \A i \in 1..Len(s) : a[i] = s[i]
      /\ a[Len(s) + 1] = e
  BY AppendProperties
<1>2. DOMAIN s = 1..Len(s) /\ DOMAIN a = 1..(Len(s) + 1) /\ Len(s) \in Nat
  BY <1>1
<1> HIDE DEF a
<1>3. ToSet(a) = ToSet(s) \cup {e}
  BY <1>1, <1>2 DEF ToSet
<1>4. ASSUME IsInjective(s), e \notin ToSet(s) PROVE IsInjective(a)
  BY <1>1, <1>2, <1>4 DEF ToSet, IsInjective
<1> QED BY <1>1, <1>3, <1>4 DEF a

\* Removing the head of a sequence of distinct elements removes that element.
LEMMA TailSeq ==
  ASSUME NEW S, NEW s \in Seq(S), s # <<>>
  PROVE  /\ Head(s) \in S
         /\ Head(s) \in ToSet(s)
         /\ Tail(s) \in Seq(S)
         /\ IsInjective(s) => IsInjective(Tail(s))
         /\ IsInjective(s) => ToSet(Tail(s)) = ToSet(s) \ {Head(s)}
<1> DEFINE t == Tail(s)
<1>1. /\ Head(s) \in S
      /\ t \in Seq(S)
      /\ Len(t) = Len(s) - 1
      /\ \A i \in 1..Len(t) : t[i] = s[i + 1]
  BY HeadTailProperties
<1>2. DOMAIN s = 1..Len(s) /\ DOMAIN t = 1..(Len(s) - 1) /\ Len(s) \in Nat \ {0} /\ Head(s) = s[1]
  BY <1>1
<1> HIDE DEF t
<1>3. Head(s) \in ToSet(s)
  BY <1>2 DEF ToSet
<1>4. ASSUME IsInjective(s) PROVE IsInjective(t)
  <2> SUFFICES ASSUME NEW i \in 1..Len(t), NEW j \in 1..Len(t), t[i] = t[j]
               PROVE  i = j
    BY <1>1, <1>2 DEF IsInjective
  <2>1. i + 1 \in DOMAIN s /\ j + 1 \in DOMAIN s /\ s[i + 1] = s[j + 1]
    BY <1>1, <1>2
  <2>2. i + 1 = j + 1
    BY <1>4, <2>1 DEF IsInjective
  <2> QED BY <2>2
<1>5. ASSUME IsInjective(s) PROVE ToSet(t) = ToSet(s) \ {Head(s)}
  <2>1. ASSUME NEW i \in 1..Len(t) PROVE t[i] \in ToSet(s) /\ t[i] # s[1]
    <3>1. i + 1 \in DOMAIN s /\ 1 \in DOMAIN s /\ t[i] = s[i + 1] /\ i + 1 # 1
      BY <1>1, <1>2
    <3> QED BY <1>5, <3>1 DEF ToSet, IsInjective
  <2>2. ASSUME NEW x \in ToSet(s), x # Head(s) PROVE x \in ToSet(t)
    <3>1. PICK i \in 1..Len(s) : x = s[i] BY <1>2 DEF ToSet
    <3>2. i # 1 BY <1>2, <2>2, <3>1
    <3>3. i - 1 \in 1..Len(t) /\ t[i - 1] = x BY <1>1, <1>2, <3>1, <3>2
    <3>4. i - 1 \in DOMAIN t BY <1>1, <1>2, <3>3
    <3> QED BY <3>3, <3>4 DEF ToSet
  <2>3. ToSet(t) = {t[i] : i \in 1..Len(t)} BY <1>1, <1>2 DEF ToSet
  <2>4. ToSet(t) \subseteq ToSet(s) \ {Head(s)} BY <1>2, <2>1, <2>3
  <2> QED BY <2>2, <2>4
<1> QED BY <1>1, <1>3, <1>4, <1>5 DEF t

-----------------------------------------------------------------------------
(* Type correctness.                                                       *)

\* A step of the callers, of the broker, of a worker thread, or a broken
\* connection keeps every variable in its type.
LEMMA TypeStep == TypeOK /\ [Next]_vars => TypeOK'
<1> SUFFICES ASSUME TypeOK, [Next]_vars PROVE TypeOK'
  OBVIOUS
<1> DEFINE R == {Rpc!Reply(c) : c \in Calls}
<1>t. /\ call \in [Calls -> Rpc!CallStates]
      /\ answer \in [Calls -> {Rpc!NoReply} \cup R]
      /\ replies \in [Calls -> Seq(R)]
      /\ queue \in Seq(Calls)
      /\ pc \in [Workers -> PcStates]
      /\ channel \in [Workers -> Seq(Calls)]
      /\ env \in [Workers -> Calls \cup {None}]
      /\ handled \in [Calls -> Nat]
      /\ server \in {"running", "exited", "aborted"}
      /\ faults \in 0..MaxFaults
  BY DEF TypeOK
<1>e. <<>> \in Seq(Calls) /\ <<>> \in Seq(R)
  OBVIOUS
<1>r. ASSUME NEW w \in Workers,
             replies' = [replies EXCEPT ![env[w]] = Append(@, Response(w))]
      PROVE  replies' \in [Calls -> Seq(R)]
  <2>1. CASE env[w] \in Calls
    <3>1. Response(w) \in R BY <2>1 DEF Response
    <3>2. Append(replies[env[w]], Response(w)) \in Seq(R)
      BY <1>t, <2>1, <3>1, AppendProperties
    <3> QED BY <1>t, <1>r, <2>1, <3>2
  <2>2. CASE env[w] \notin Calls
    BY <1>t, <1>r, <2>2
  <2> QED BY <2>1, <2>2
<1>f. ASSUME faults < MaxFaults, faults' = faults + 1
      PROVE  faults' \in 0..MaxFaults
  BY <1>f, <1>t, ServerAssumption
<1> HIDE DEF R
<1>1. ASSUME NEW c \in Calls, Send(c) PROVE TypeOK'
  BY <1>1, <1>t, <1>e DEF Send, Rpc!Submit, Rpc!CallStates, TypeOK, R
<1>2. ASSUME NEW c \in Calls, ReceiveReply(c) PROVE TypeOK'
  <2>1. Head(replies[c]) \in R
    BY <1>2, <1>t, HeadTailProperties DEF ReceiveReply
  <2> QED BY <1>2, <1>t, <1>e, <2>1 DEF ReceiveReply, Rpc!CallStates, TypeOK, R
<1>3. ASSUME NEW c \in Calls, Timeout(c) PROVE TypeOK'
  BY <1>3, <1>t, <1>e DEF Timeout, Rpc!GiveUp, Rpc!CallStates, TypeOK, R
<1>4. ASSUME NEW w \in Workers, Push(w) PROVE TypeOK'
  <2>1. Head(queue) \in Calls /\ Tail(queue) \in Seq(Calls)
    BY <1>4, <1>t, TailSeq DEF Push
  <2>2. channel' \in [Workers -> Seq(Calls)]
    BY <1>4, <1>t, <2>1 DEF Push
  <2> QED BY <1>4, <1>t, <2>1, <2>2 DEF Push, TypeOK, R
<1>5. ASSUME NEW w \in Workers, OpenChannel(w) PROVE TypeOK'
  BY <1>5, <1>t, <1>e DEF OpenChannel, PcStates, TypeOK, R
<1>6. ASSUME NEW w \in Workers, OpenChannelThrows(w) PROVE TypeOK'
  BY <1>6, <1>t, <1>e, <1>f DEF OpenChannelThrows, PcStates, TypeOK, R
<1>7. ASSUME NEW w \in Workers, BasicConsumeMessage(w) PROVE TypeOK'
  BY <1>7, <1>t, <1>e, SMTT(20) DEF BasicConsumeMessage, PcStates, TypeOK, R
<1>8. ASSUME NEW w \in Workers, HandleMessage(w) PROVE TypeOK'
  <2>1. handled' \in [Calls -> Nat]
    <3>1. CASE env[w] \in Calls
      <4>1. handled[env[w]] + 1 \in Nat BY <1>t, <3>1
      <4> QED BY <1>8, <1>t, <3>1, <4>1 DEF HandleMessage
    <3>2. CASE env[w] \notin Calls
      BY <1>8, <1>t, <3>2 DEF HandleMessage
    <3> QED BY <3>1, <3>2
  <2> QED BY <1>8, <1>t, <2>1 DEF HandleMessage, PcStates, TypeOK, R
<1>9. ASSUME NEW w \in Workers, PublishReply(w) PROVE TypeOK'
  BY <1>9, <1>t, <1>e, <1>r DEF PublishReply, PcStates, TypeOK, R
<1>10. ASSUME NEW w \in Workers, ReplyReturned(w) PROVE TypeOK'
  BY <1>10, <1>t, <1>e DEF ReplyReturned, BreakLoop, PcStates, TypeOK, R
<1>11. ASSUME NEW w \in Workers, ConsumeThrows(w) PROVE TypeOK'
  BY <1>11, <1>t, <1>e, <1>f DEF ConsumeThrows, BreakLoop, PcStates, TypeOK, R
<1>12. ASSUME NEW w \in Workers, PublishThrows(w) PROVE TypeOK'
  BY <1>12, <1>t, <1>e, <1>r, <1>f DEF PublishThrows, BreakLoop, PcStates, TypeOK, R
<1>13. ASSUME NEW w \in Workers, CloseChannel(w) PROVE TypeOK'
  BY <1>13, <1>t, <1>e DEF CloseChannel, PcStates, TypeOK, R
<1>14. CASE JoinAll
  BY <1>14, <1>t, <1>e DEF JoinAll, TypeOK, R
<1>15. CASE UNCHANGED vars
  BY <1>15, <1>t, <1>e DEF vars, TypeOK, R
<1> QED
  BY <1>1, <1>2, <1>3, <1>4, <1>5, <1>6, <1>7, <1>8, <1>9, <1>10, <1>11, <1>12,
     <1>13, <1>14, <1>15 DEF Next, WorkerStep, Fault


\* Type correctness: every variable of the server, the broker and the callers
\* stays in its type, whatever the threads do.
THEOREM TypeCorrect == Spec => []TypeOK
<1>1. Init => TypeOK
  BY ServerAssumption DEF Init, TypeOK, Rpc!RpcInit, Rpc!CallStates, PcStates
<1> QED BY <1>1, TypeStep, PTL DEF Spec


-----------------------------------------------------------------------------
(* The inductive invariant.  Each step first says how the action moves      *)
(* requests between the queue, the channels and the workers' hands; the     *)
(* invariant then follows without looking into the sequences again.         *)

\* A new request enters the queue, and is nowhere else.
LEMMA SendInv == \A c \in Calls : Inv /\ TypeOK' /\ Send(c) => Inv'
<1> SUFFICES ASSUME NEW c \in Calls, Inv, TypeOK', Send(c) PROVE Inv'
  OBVIOUS
<1> USE DEF Inv
<1>1. /\ call[c] = "new"
      /\ call' = [call EXCEPT ![c] = "pending"]
      /\ queue' = Append(queue, c)
      /\ UNCHANGED <<answer, replies, pc, channel, env, handled>>
      /\ call \in [Calls -> Rpc!CallStates]
  BY DEF Send, Rpc!Submit, TypeOK
<1>2. ~InFlight(c)
  BY <1>1 DEF CountsMatch
<1>3. ToSet(queue') = ToSet(queue) \cup {c} /\ IsInjective(queue')
  BY <1>1, <1>2, AppendSeq DEF TypeOK, SinglePlace, InFlight, Queued
<1>4. \A x \in Calls : Queued(x)' <=> Queued(x) \/ x = c
  BY <1>3 DEF Queued
<1>5. \A x \in Calls, w \in Workers : Pushed(x, w)' <=> Pushed(x, w)
  BY <1>1 DEF Pushed
<1>6. \A x \in Calls, w \in Workers : InHand(x, w)' <=> InHand(x, w)
  BY <1>1 DEF InHand
<1>7. SinglePlace'
  BY <1>1, <1>2, <1>3, <1>4, <1>5, <1>6 DEF SinglePlace, InFlight, ConsumerRegistered
<1>8. CountsMatch'
  BY <1>1, <1>2, <1>4, <1>5, <1>6 DEF CountsMatch, InFlight
<1>9. RepliesMatch' /\ HandledAtMostOnce' /\ AnswersOwnFrame'
  BY <1>1 DEF RepliesMatch, HandledAtMostOnce, AnswersOwnFrame
<1> QED BY <1>7, <1>8, <1>9

\* Receiving a reply and timing out only change the calls and the replies.
LEMMA CallEndInv ==
  \A c \in Calls : Inv /\ TypeOK' /\ (ReceiveReply(c) \/ Timeout(c)) => Inv'
<1> SUFFICES ASSUME NEW c \in Calls, Inv, TypeOK', ReceiveReply(c) \/ Timeout(c)
             PROVE  Inv'
  OBVIOUS
<1> USE DEF Inv
<1>1. /\ call[c] = "pending"
      /\ call' \in {[call EXCEPT ![c] = "answered"], [call EXCEPT ![c] = "timedOut"]}
      /\ replies' = [replies EXCEPT ![c] = <<>>]
      /\ UNCHANGED <<queue, pc, channel, env, handled>>
      /\ call \in [Calls -> Rpc!CallStates]
      /\ replies \in [Calls -> Seq({Rpc!Reply(x) : x \in Calls})]
      /\ handled \in [Calls -> Nat]
  BY DEF ReceiveReply, Timeout, ReplyQueueExists, Rpc!GiveUp, TypeOK
<1>2. \A x \in Calls : Queued(x)' <=> Queued(x)
  BY <1>1 DEF Queued
<1>3. \A x \in Calls, w \in Workers : Pushed(x, w)' <=> Pushed(x, w)
  BY <1>1 DEF Pushed
<1>4. \A x \in Calls, w \in Workers : InHand(x, w)' <=> InHand(x, w)
  BY <1>1 DEF InHand
<1>5. SinglePlace'
  BY <1>1, <1>2, <1>3, <1>4 DEF SinglePlace, ConsumerRegistered
<1>6. CountsMatch'
  BY <1>1, <1>2, <1>3, <1>4 DEF CountsMatch, InFlight
<1>7. RepliesMatch' /\ HandledAtMostOnce'
  BY <1>1 DEF RepliesMatch, HandledAtMostOnce
<1>8. AnswersOwnFrame'
  <2>1. CASE ReceiveReply(c)
    <3>1. Head(replies[c]) = Rpc!Reply(c)
      BY <1>1, <2>1 DEF ReceiveReply, RepliesMatch
    <3> QED BY <1>1, <2>1, <3>1 DEF ReceiveReply, AnswersOwnFrame, TypeOK
  <2>2. CASE Timeout(c)
    BY <1>1, <2>2 DEF Timeout, Rpc!GiveUp, AnswersOwnFrame
  <2> QED BY <2>1, <2>2
<1> QED BY <1>5, <1>6, <1>7, <1>8

\* The broker moves the oldest request from the queue to one channel.
LEMMA PushInv == \A w \in Workers : Inv /\ TypeOK' /\ Push(w) => Inv'
<1> SUFFICES ASSUME NEW w \in Workers, Inv, TypeOK', Push(w) PROVE Inv'
  OBVIOUS
<1> USE DEF Inv
<1> DEFINE c == Head(queue)
<1>1. /\ queue # <<>>
      /\ ConsumerRegistered(w)
      /\ channel' = [channel EXCEPT ![w] = Append(channel[w], c)]
      /\ queue' = Tail(queue)
      /\ UNCHANGED <<call, answer, replies, pc, env, handled>>
      /\ queue \in Seq(Calls)
      /\ channel \in [Workers -> Seq(Calls)]
  BY DEF Push, TypeOK
<1>2. /\ c \in Calls
      /\ Queued(c)
      /\ IsInjective(queue')
      /\ ToSet(queue') = ToSet(queue) \ {c}
  BY <1>1, TailSeq DEF Queued, SinglePlace
<1> HIDE DEF c
<1>3. \A v \in Workers : ~Pushed(c, v) /\ ~InHand(c, v)
  BY <1>2 DEF SinglePlace
<1>4. /\ ToSet(channel'[w]) = ToSet(channel[w]) \cup {c}
      /\ IsInjective(channel'[w])
      /\ \A v \in Workers \ {w} : channel'[v] = channel[v]
  BY <1>1, <1>2, <1>3, AppendSeq DEF Pushed, SinglePlace
<1>5. \A x \in Calls : Queued(x)' <=> Queued(x) /\ x # c
  BY <1>2 DEF Queued
<1>6. \A x \in Calls, v \in Workers : Pushed(x, v)' <=> Pushed(x, v) \/ (x = c /\ v = w)
  BY <1>4 DEF Pushed
<1>7. \A x \in Calls, v \in Workers : InHand(x, v)' <=> InHand(x, v)
  BY <1>1 DEF InHand
<1>8. SinglePlace'
  <2>1. \A v \in Workers :
          /\ IsInjective(channel'[v])
          /\ ~ConsumerRegistered(v)' => channel'[v] = <<>>
          /\ pc'[v] \in {"handle", "publish"} => env'[v] \in Calls
    BY <1>1, <1>4 DEF SinglePlace, ConsumerRegistered
  <2> QED BY <1>2, <1>3, <1>5, <1>6, <1>7, <2>1 DEF SinglePlace
<1>9. CountsMatch'
  BY <1>1, <1>2, <1>3, <1>5, <1>6, <1>7 DEF CountsMatch, InFlight
<1>10. RepliesMatch' /\ HandledAtMostOnce' /\ AnswersOwnFrame'
  BY <1>1 DEF RepliesMatch, HandledAtMostOnce, AnswersOwnFrame
<1> QED BY <1>8, <1>9, <1>10


\* The worker takes the first request of its channel into its hands.
LEMMA ConsumeInv == \A w \in Workers : Inv /\ TypeOK' /\ BasicConsumeMessage(w) => Inv'
<1> SUFFICES ASSUME NEW w \in Workers, Inv, TypeOK', BasicConsumeMessage(w) PROVE Inv'
  OBVIOUS
<1> USE DEF Inv
<1> DEFINE c == Head(channel[w])
<1>1. /\ channel[w] # <<>>
      /\ pc[w] = "receive"
      /\ pc' = [pc EXCEPT ![w] = "handle"]
      /\ env' = [env EXCEPT ![w] = c]
      /\ channel' = [channel EXCEPT ![w] = Tail(channel[w])]
      /\ UNCHANGED <<call, answer, replies, queue, handled>>
      /\ pc \in [Workers -> PcStates]
      /\ env \in [Workers -> Calls \cup {None}]
      /\ channel \in [Workers -> Seq(Calls)]
  BY DEF BasicConsumeMessage, TypeOK
<1>2. /\ c \in Calls
      /\ Pushed(c, w)
      /\ IsInjective(channel'[w])
      /\ ToSet(channel'[w]) = ToSet(channel[w]) \ {c}
      /\ \A v \in Workers \ {w} : channel'[v] = channel[v]
  BY <1>1, TailSeq DEF Pushed, SinglePlace
<1> HIDE DEF c
<1>3. \A x \in Calls : Queued(x)' <=> Queued(x)
  BY <1>1 DEF Queued
<1>4. \A x \in Calls, v \in Workers : Pushed(x, v)' <=> Pushed(x, v) /\ ~(x = c /\ v = w)
  BY <1>2 DEF Pushed
<1>5. \A x \in Calls, v \in Workers :
         InHand(x, v)' <=> (InHand(x, v) /\ v # w) \/ (x = c /\ v = w)
  BY <1>1, <1>2 DEF InHand
<1>6. ~Queued(c) /\ (\A v \in Workers : ~InHand(c, v)) /\ handled[c] = 0
  BY <1>2 DEF SinglePlace, CountsMatch
<1>7. SinglePlace'
  <2>1. \A v \in Workers :
          /\ IsInjective(channel'[v])
          /\ ~ConsumerRegistered(v)' => channel'[v] = <<>>
          /\ pc'[v] \in {"handle", "publish"} => env'[v] \in Calls
    BY <1>1, <1>2 DEF SinglePlace, ConsumerRegistered
  <2> QED BY <1>1, <1>2, <1>3, <1>4, <1>5, <1>6, <2>1 DEF SinglePlace
<1>8. CountsMatch'
  BY <1>1, <1>2, <1>3, <1>4, <1>5, <1>6 DEF CountsMatch, InFlight
<1>9. RepliesMatch' /\ HandledAtMostOnce' /\ AnswersOwnFrame'
  BY <1>1 DEF RepliesMatch, HandledAtMostOnce, AnswersOwnFrame
<1> QED BY <1>7, <1>8, <1>9

\* Handling counts the request, which had not been handled before.
LEMMA HandleInv == \A w \in Workers : Inv /\ TypeOK' /\ HandleMessage(w) => Inv'
<1> SUFFICES ASSUME NEW w \in Workers, Inv, TypeOK', HandleMessage(w) PROVE Inv'
  OBVIOUS
<1> USE DEF Inv
<1> DEFINE c == env[w]
<1>1. /\ pc[w] = "handle"
      /\ handled' = [handled EXCEPT ![c] = handled[c] + 1]
      /\ pc' = [pc EXCEPT ![w] = "publish"]
      /\ UNCHANGED <<call, answer, replies, queue, channel, env>>
      /\ pc \in [Workers -> PcStates]
      /\ handled \in [Calls -> Nat]
      /\ replies \in [Calls -> Seq({Rpc!Reply(x) : x \in Calls})]
  BY DEF HandleMessage, TypeOK
<1>2. c \in Calls /\ InHand(c, w) /\ handled[c] = 0
  BY <1>1 DEF SinglePlace, CountsMatch, InHand
<1>3. replies[c] = <<>>
  BY <1>1, <1>2 DEF HandledAtMostOnce
<1> HIDE DEF c
<1>4. handled'[c] = 1 /\ \A x \in Calls \ {c} : handled'[x] = handled[x]
  BY <1>1, <1>2
<1>5. \A x \in Calls : Queued(x)' <=> Queued(x)
  BY <1>1 DEF Queued
<1>6. \A x \in Calls, v \in Workers : Pushed(x, v)' <=> Pushed(x, v)
  BY <1>1 DEF Pushed
<1>7. \A x \in Calls, v \in Workers : InHand(x, v)' <=> InHand(x, v)
  BY <1>1 DEF InHand
<1>8. SinglePlace'
  <2>1. \A v \in Workers :
          /\ IsInjective(channel'[v])
          /\ ~ConsumerRegistered(v)' => channel'[v] = <<>>
          /\ pc'[v] \in {"handle", "publish"} => env'[v] \in Calls
    BY <1>1 DEF SinglePlace, ConsumerRegistered
  <2> QED BY <1>1, <1>5, <1>6, <1>7, <2>1 DEF SinglePlace
<1>9. ~Queued(c) /\ \A v \in Workers : ~Pushed(c, v) /\ (InHand(c, v) => v = w)
  BY <1>2 DEF SinglePlace
<1>10. \A x \in Calls : call[x] = "new" => x # c
  BY <1>2 DEF CountsMatch, InFlight
<1>11. CountsMatch'
  <2> SUFFICES ASSUME NEW x \in Calls
               PROVE  /\ call'[x] = "new" => ~InFlight(x)' /\ handled'[x] = 0
                      /\ Queued(x)' => handled'[x] = 0
                      /\ \A v \in Workers :
                           /\ Pushed(x, v)' => handled'[x] = 0
                           /\ InHand(x, v)' /\ pc'[v] = "handle" => handled'[x] = 0
                           /\ InHand(x, v)' /\ pc'[v] = "publish"
                                 => handled'[x] = 1 /\ replies'[x] = <<>>
    BY DEF CountsMatch
  <2>1. CASE x = c
    BY <1>1, <1>2, <1>3, <1>4, <1>5, <1>6, <1>7, <1>9, <1>10, <2>1
  <2>2. CASE x # c
    BY <1>1, <1>2, <1>4, <1>5, <1>6, <1>7, <2>2 DEF CountsMatch, InFlight, InHand, c
  <2> QED BY <2>1, <2>2
<1>12. HandledAtMostOnce'
  BY <1>1, <1>2, <1>3, <1>4 DEF HandledAtMostOnce
<1>13. RepliesMatch' /\ AnswersOwnFrame'
  BY <1>1 DEF RepliesMatch, AnswersOwnFrame
<1> QED BY <1>8, <1>11, <1>12, <1>13


\* A worker whose hands are empty after the step, and which keeps its channel or
\* loses it, leaves every other request where it is.
LEMMA HandsEmpty ==
  ASSUME NEW w \in Workers, Inv, TypeOK',
         pc'[w] \in {"open", "receive", "close", "ended"},
         \A v \in Workers \ {w} : pc'[v] = pc[v] /\ env'[v] = env[v] /\ channel'[v] = channel[v],
         \/ channel'[w] = <<>>
         \/ channel'[w] = channel[w] /\ ConsumerRegistered(w)',
         queue' = queue, call' = call, handled' = handled,
         \/ replies' = replies
         \/ pc[w] = "publish" /\ \A x \in Calls \ {env[w]} : replies'[x] = replies[x]
  PROVE  SinglePlace' /\ CountsMatch'
<1> USE DEF Inv
<1>1. \A x \in Calls : Queued(x)' <=> Queued(x)
  BY DEF Queued
<1>2. \A x \in Calls, v \in Workers : Pushed(x, v)' => Pushed(x, v)
  <2>1. \A x \in Calls : Pushed(x, w)' => Pushed(x, w)
    BY NoElements DEF Pushed
  <2> QED BY <2>1 DEF Pushed
<1>3. \A x \in Calls, v \in Workers : InHand(x, v)' <=> InHand(x, v) /\ v # w
  BY DEF InHand
<1>4. SinglePlace'
  <2>1. \A v \in Workers :
          /\ IsInjective(channel'[v])
          /\ ~ConsumerRegistered(v)' => channel'[v] = <<>>
          /\ pc'[v] \in {"handle", "publish"} => env'[v] \in Calls
    <3>1. ASSUME NEW v \in Workers, v # w
          PROVE  /\ IsInjective(channel'[v])
                 /\ ~ConsumerRegistered(v)' => channel'[v] = <<>>
                 /\ pc'[v] \in {"handle", "publish"} => env'[v] \in Calls
      BY <3>1 DEF SinglePlace, ConsumerRegistered
    <3>2. IsInjective(channel'[w]) /\ (~ConsumerRegistered(w)' => channel'[w] = <<>>)
      BY NoElements DEF SinglePlace
    <3> QED BY <3>1, <3>2
  <2> QED BY <1>1, <1>2, <1>3, <2>1 DEF SinglePlace
<1>5. CountsMatch'
  <2>1. \A x \in Calls, v \in Workers :
           InHand(x, v)' /\ pc'[v] = "publish" => handled'[x] = 1 /\ replies'[x] = <<>>
    <3> SUFFICES ASSUME NEW x \in Calls, NEW v \in Workers, InHand(x, v)', pc'[v] = "publish"
                 PROVE  handled'[x] = 1 /\ replies'[x] = <<>>
      OBVIOUS
    <3>1. v # w /\ InHand(x, v) /\ pc[v] = "publish"
      BY <1>3
    <3>2. handled[x] = 1 /\ replies[x] = <<>>
      BY <3>1 DEF CountsMatch
    <3>3. pc[w] = "publish" => x # env[w]
      BY <3>1 DEF SinglePlace, InHand
    <3> QED BY <3>2, <3>3
  <2>2. \A x \in Calls, v \in Workers :
           InHand(x, v)' /\ pc'[v] = "handle" => handled'[x] = 0
    BY <1>3 DEF CountsMatch
  <2>3. \A x \in Calls : InFlight(x)' => InFlight(x)
    BY <1>1, <1>2, <1>3 DEF InFlight
  <2>4. \A x \in Calls : call'[x] = "new" => ~InFlight(x)' /\ handled'[x] = 0
    BY <2>3 DEF CountsMatch
  <2> QED BY <1>1, <1>2, <2>1, <2>2, <2>4 DEF CountsMatch
<1> QED BY <1>4, <1>5

\* Publishing adds the first reply to the reply queue of the request in hand.
LEMMA ReplyAdded ==
  ASSUME NEW w \in Workers, Inv, pc[w] = "publish", handled' = handled,
         replies' = [replies EXCEPT ![env[w]] = Append(@, Response(w))]
  PROVE  /\ RepliesMatch'
         /\ HandledAtMostOnce'
         /\ \A x \in Calls \ {env[w]} : replies'[x] = replies[x]
<1> DEFINE c == env[w]
           R == {Rpc!Reply(x) : x \in Calls}
<1>1. c \in Calls /\ handled[c] = 1 /\ replies[c] = <<>> /\ replies \in [Calls -> Seq(R)]
  BY DEF Inv, TypeOK, SinglePlace, CountsMatch, InHand
<1>2. replies'[c] = <<Rpc!Reply(c)>> /\ \A x \in Calls \ {c} : replies'[x] = replies[x]
  BY <1>1 DEF Response
<1> HIDE DEF c, R
<1>3. Len(replies'[c]) = 1 /\ replies'[c][1] = Rpc!Reply(c)
  <2> DEFINE r == Rpc!Reply(c)
  <2> HIDE DEF r
  <2>1. Len(<<r>>) = 1 /\ <<r>>[1] = r OBVIOUS
  <2> QED BY <1>2, <2>1 DEF r
<1>4. RepliesMatch'
  <2> SUFFICES ASSUME NEW x \in Calls, NEW i \in 1..Len(replies'[x])
               PROVE  replies'[x][i] = Rpc!Reply(x)
    BY DEF RepliesMatch
  <2>1. CASE x = c
    <3>1. Len(replies'[x]) = 1 BY <1>3, <2>1
    <3>2. i \in 1..1 BY <3>1, Zenon
    <3>3. i = 1 BY <3>2
    <3> QED BY <1>3, <2>1, <3>3
  <2>2. CASE x # c
    <3>1. replies'[x] = replies[x] BY <1>2, <2>2
    <3> QED BY <3>1 DEF Inv, RepliesMatch
  <2> QED BY <2>1, <2>2
<1>5. HandledAtMostOnce'
  BY <1>1, <1>2, <1>3 DEF Inv, HandledAtMostOnce
<1> QED BY <1>2, <1>4, <1>5 DEF c

\* The remaining steps of a worker empty its hands.
LEMMA WorkerInv ==
  \A w \in Workers :
     Inv /\ TypeOK' /\ (\/ OpenChannel(w) \/ PublishReply(w) \/ CloseChannel(w)
                        \/ ReplyReturned(w) \/ ConsumeThrows(w) \/ PublishThrows(w)) => Inv'
<1> SUFFICES ASSUME NEW w \in Workers, Inv, TypeOK',
                    \/ OpenChannel(w) \/ PublishReply(w) \/ CloseChannel(w)
                    \/ ReplyReturned(w) \/ ConsumeThrows(w) \/ PublishThrows(w)
             PROVE  Inv'
  OBVIOUS
<1>t. /\ pc \in [Workers -> PcStates]
      /\ channel \in [Workers -> Seq(Calls)]
      /\ env \in [Workers -> Calls \cup {None}]
  BY DEF Inv, TypeOK
<1>1. CASE OpenChannel(w)
  <2>1. channel[w] = <<>>
    BY <1>1 DEF Inv, SinglePlace, ConsumerRegistered, OpenChannel
  <2>2. SinglePlace' /\ CountsMatch'
    BY <1>1, <1>t, <2>1, HandsEmpty DEF OpenChannel, ConsumerRegistered
  <2> QED BY <1>1, <2>2 DEF OpenChannel, Inv, RepliesMatch, HandledAtMostOnce, AnswersOwnFrame
<1>2. CASE PublishReply(w)
  <2>1. RepliesMatch' /\ HandledAtMostOnce'
    BY <1>2, ReplyAdded DEF PublishReply
  <2>2. SinglePlace' /\ CountsMatch'
    BY <1>2, <1>t, ReplyAdded, HandsEmpty DEF PublishReply, ConsumerRegistered
  <2> QED BY <1>2, <2>1, <2>2 DEF PublishReply, Inv, AnswersOwnFrame
<1>3. CASE CloseChannel(w)
  <2>1. SinglePlace' /\ CountsMatch'
    BY <1>3, <1>t, HandsEmpty DEF CloseChannel
  <2> QED BY <1>3, <2>1 DEF CloseChannel, Inv, RepliesMatch, HandledAtMostOnce, AnswersOwnFrame
<1>4. CASE ReplyReturned(w)
  <2>1. SinglePlace' /\ CountsMatch'
    BY <1>4, <1>t, HandsEmpty DEF ReplyReturned, BreakLoop
  <2> QED BY <1>4, <2>1 DEF ReplyReturned, Inv, RepliesMatch, HandledAtMostOnce, AnswersOwnFrame
<1>5. CASE ConsumeThrows(w)
  <2>1. SinglePlace' /\ CountsMatch'
    BY <1>5, <1>t, HandsEmpty DEF ConsumeThrows, BreakLoop
  <2> QED BY <1>5, <2>1 DEF ConsumeThrows, Inv, RepliesMatch, HandledAtMostOnce, AnswersOwnFrame
<1>6. CASE PublishThrows(w)
  <2>1. RepliesMatch' /\ HandledAtMostOnce'
    <3>1. CASE UNCHANGED replies
      BY <1>6, <3>1 DEF PublishThrows, Inv, RepliesMatch, HandledAtMostOnce
    <3> QED BY <1>6, <3>1, ReplyAdded DEF PublishThrows
  <2>2. SinglePlace' /\ CountsMatch'
    <3>1. CASE UNCHANGED replies
      BY <1>6, <1>t, <3>1, HandsEmpty DEF PublishThrows, BreakLoop
    <3>2. CASE replies' = [replies EXCEPT ![env[w]] = Append(@, Response(w))]
      BY <1>6, <1>t, <3>2, ReplyAdded, HandsEmpty DEF PublishThrows, BreakLoop
    <3> QED BY <1>6, <3>1, <3>2 DEF PublishThrows
  <2> QED BY <1>6, <2>1, <2>2 DEF PublishThrows, Inv, AnswersOwnFrame
<1> QED BY <1>1, <1>2, <1>3, <1>4, <1>5, <1>6


\* std::terminate empties every worker's hands and channel.
LEMMA AbortInv == \A w \in Workers : Inv /\ TypeOK' /\ OpenChannelThrows(w) => Inv'
<1> SUFFICES ASSUME NEW w \in Workers, Inv, TypeOK', OpenChannelThrows(w) PROVE Inv'
  OBVIOUS
<1> USE DEF Inv
<1>1. /\ \A v \in Workers : pc'[v] = "ended" /\ channel'[v] = <<>>
      /\ UNCHANGED <<call, answer, replies, queue, handled>>
  BY DEF OpenChannelThrows
<1>2. \A x \in Calls : Queued(x)' <=> Queued(x)
  BY <1>1 DEF Queued
<1>3. \A x \in Calls, v \in Workers : ~Pushed(x, v)' /\ ~InHand(x, v)'
  BY <1>1, NoElements DEF Pushed, InHand
<1>4. SinglePlace'
  BY <1>1, <1>2, <1>3, NoElements DEF SinglePlace
<1>5. CountsMatch'
  BY <1>1, <1>2, <1>3 DEF CountsMatch, InFlight
<1> QED
  BY <1>1, <1>4, <1>5 DEF RepliesMatch, HandledAtMostOnce, AnswersOwnFrame

\* Initially nothing has been sent, pushed or handled.
LEMMA InvInit == Init => Inv
<1> SUFFICES ASSUME Init PROVE Inv
  OBVIOUS
<1>1. TypeOK
  BY ServerAssumption DEF Init, TypeOK, Rpc!RpcInit, Rpc!CallStates, PcStates
<1>2. /\ call = [c \in Calls |-> "new"]
      /\ replies = [c \in Calls |-> <<>>]
      /\ queue = <<>>
      /\ pc = [w \in Workers |-> "open"]
      /\ channel = [w \in Workers |-> <<>>]
      /\ handled = [c \in Calls |-> 0]
  BY DEF Init, Rpc!RpcInit
<1>3. /\ \A c \in Calls : ~Queued(c)
      /\ \A c \in Calls, w \in Workers : ~Pushed(c, w) /\ ~InHand(c, w)
  BY <1>2, NoElements DEF Queued, Pushed, InHand
<1>4. SinglePlace
  BY <1>2, <1>3, NoElements DEF SinglePlace
<1>5. CountsMatch
  BY <1>2, <1>3 DEF CountsMatch, InFlight
<1>6. RepliesMatch /\ HandledAtMostOnce /\ AnswersOwnFrame
  BY <1>2 DEF RepliesMatch, HandledAtMostOnce, AnswersOwnFrame
<1> QED BY <1>1, <1>4, <1>5, <1>6 DEF Inv

\* Every step of the system preserves the invariant.
LEMMA InvStep == Inv /\ [Next]_vars => Inv'
<1> SUFFICES ASSUME Inv, [Next]_vars PROVE Inv'
  OBVIOUS
<1>t. TypeOK'
  BY TypeStep DEF Inv
<1>1. ASSUME NEW c \in Calls, Send(c) \/ ReceiveReply(c) \/ Timeout(c) PROVE Inv'
  BY <1>1, <1>t, SendInv, CallEndInv
<1>2. ASSUME NEW w \in Workers, Push(w) \/ WorkerStep(w) \/ Fault(w) PROVE Inv'
  BY <1>2, <1>t, PushInv, ConsumeInv, HandleInv, WorkerInv, AbortInv DEF WorkerStep, Fault
<1>3. CASE JoinAll \/ UNCHANGED vars
  <2>1. UNCHANGED <<call, answer, replies, queue, pc, channel, env, handled>>
    BY <1>3 DEF JoinAll, vars
  <2>2. SinglePlace' /\ CountsMatch'
    BY <2>1 DEF Inv, SinglePlace, CountsMatch, InFlight, Queued, Pushed, InHand,
                ConsumerRegistered
  <2> QED
    BY <1>t, <2>1, <2>2 DEF Inv, RepliesMatch, HandledAtMostOnce, AnswersOwnFrame
<1> QED BY <1>1, <1>2, <1>3 DEF Next

\* However the threads interleave, whichever connections break and whichever
\* calls time out, no request is handled twice and none is answered twice.
THEOREM AtMostOnce == Spec => []HandledAtMostOnce
<1>1. Inv => HandledAtMostOnce
  BY DEF Inv
<1> QED BY <1>1, InvInit, InvStep, PTL DEF Spec

\* The reply a caller receives is the one to its own request.
THEOREM OwnAnswer == Spec => []AnswersOwnFrame
<1>1. Inv => AnswersOwnFrame
  BY DEF Inv
<1> QED BY <1>1, InvInit, InvStep, PTL DEF Spec

\* The server implements the safety part of the contract in RecogRpc: every step
\* of server, broker and callers is a step of the contract or leaves it alone.
THEOREM Refinement == Spec => Rpc!RpcSafety
<1>1. Init => Rpc!RpcInit
  BY DEF Init
<1>2. Inv /\ [Next]_vars => [Rpc!RpcNext]_<<call, answer>>
  <2> SUFFICES ASSUME Inv, [Next]_vars
               PROVE  (\E c \in Calls : Rpc!Submit(c) \/ Rpc!Answer(c) \/ Rpc!GiveUp(c))
                        \/ UNCHANGED <<call, answer>>
    BY DEF Rpc!RpcNext
  <2>1. ASSUME NEW c \in Calls, Send(c) PROVE Rpc!Submit(c)
    BY <2>1 DEF Send
  <2>2. ASSUME NEW c \in Calls, ReceiveReply(c) PROVE Rpc!Answer(c)
    <3>1. Head(replies[c]) = Rpc!Reply(c)
      BY <2>2 DEF ReceiveReply, Inv, TypeOK, RepliesMatch
    <3> QED BY <2>2, <3>1 DEF ReceiveReply, ReplyQueueExists, Rpc!Answer
  <2>3. ASSUME NEW c \in Calls, Timeout(c) PROVE Rpc!GiveUp(c)
    BY <2>3 DEF Timeout
  <2>4. ASSUME NEW w \in Workers, Push(w) \/ WorkerStep(w) \/ Fault(w)
        PROVE  UNCHANGED <<call, answer>>
    BY <2>4 DEF Push, WorkerStep, Fault, OpenChannel, BasicConsumeMessage, HandleMessage,
                PublishReply, ReplyReturned, CloseChannel, OpenChannelThrows,
                ConsumeThrows, PublishThrows
  <2>5. CASE JoinAll \/ UNCHANGED vars
    BY <2>5 DEF JoinAll, vars
  <2> QED BY <2>1, <2>2, <2>3, <2>4, <2>5 DEF Next
<1> QED BY <1>1, <1>2, InvInit, InvStep, PTL DEF Spec, Rpc!RpcSafety, Rpc!rpcVars

-----------------------------------------------------------------------------
(* Where the lost threads went.  A thread that a late reply ended had its    *)
(* request in hand until then, so the requests that paid for a thread are    *)
(* the ones no thread holds any more: each of them is charged once.          *)

Ended == {w \in Workers : pc[w] = "ended"}
Sent == {c \in Calls : call[c] # "new"}
Late == {c \in Calls : call[c] = "timedOut" /\ handled[c] = 1}
Charged == {c \in Late : \A w \in Workers : ~InHand(c, w)}

\* A request whose reply has arrived is in nobody's hands, and while the process
\* has not been aborted the threads that ended are paid for by broken connections
\* and by late requests that have left their thread.  Both sets are finite
\* because they grow by one element a step, whatever Calls and Workers are.
LossInv ==
    /\ IsFiniteSet(Sent)
    /\ \A c \in Calls : call[c] = "answered" => ~InFlight(c)
    /\ server # "aborted" => IsFiniteSet(Ended) /\ Cardinality(Ended) <= faults + Cardinality(Charged)

\* The charged requests are finitely many.
LEMMA ChargedFinite == IsFiniteSet(Sent) =>
                          /\ IsFiniteSet(Charged) /\ IsFiniteSet(Late)
                          /\ Cardinality(Charged) \in Nat
                          /\ Cardinality(Charged) <= Cardinality(Late)
<1>1. Charged \subseteq Late /\ Late \subseteq Sent
  BY DEF Charged, Late, Sent
<1> QED BY <1>1, FS_Subset, FS_CardinalityType

\* A step that ends no thread and takes back no charge keeps the account.
LEMMA NoLoss ==
  ASSUME LossInv, TypeOK, IsFiniteSet(Sent'), server' # "aborted" => server # "aborted",
         Ended' \subseteq Ended, Charged \subseteq Charged', faults' = faults
  PROVE  server' # "aborted" =>
            IsFiniteSet(Ended') /\ Cardinality(Ended') <= faults' + Cardinality(Charged')
<1> SUFFICES ASSUME server' # "aborted"
             PROVE  IsFiniteSet(Ended') /\ Cardinality(Ended') <= faults' + Cardinality(Charged')
  OBVIOUS
<1>1. IsFiniteSet(Charged') /\ Cardinality(Charged') \in Nat
  <2>1. Charged' \subseteq Sent' BY DEF Charged, Late, Sent
  <2> QED BY <2>1, FS_Subset, FS_CardinalityType
<1>2. IsFiniteSet(Charged) /\ Cardinality(Charged) \in Nat
  BY ChargedFinite DEF LossInv
<1>3. Cardinality(Charged) <= Cardinality(Charged')
  BY <1>1, FS_Subset
<1>4. IsFiniteSet(Ended) /\ Cardinality(Ended) \in Nat
       /\ Cardinality(Ended) <= faults + Cardinality(Charged)
  BY FS_CardinalityType DEF LossInv
<1>5. IsFiniteSet(Ended') /\ Cardinality(Ended') \in Nat /\ Cardinality(Ended') <= Cardinality(Ended)
  BY <1>4, FS_Subset, FS_CardinalityType
<1>6. faults \in Nat BY DEF TypeOK
<1> QED BY <1>1, <1>2, <1>3, <1>4, <1>5, <1>6

\* A step that ends one thread keeps the account if it counts a broken connection
\* or charges one more request.
LEMMA OneLoss ==
  ASSUME NEW w \in Workers, LossInv, TypeOK, Sent' = Sent, server' = server,
         Ended' \subseteq Ended \cup {w},
         \/ faults' = faults + 1 /\ Charged \subseteq Charged'
         \/ faults' = faults /\ \E c \in Calls : c \notin Charged /\ Charged \cup {c} \subseteq Charged'
  PROVE  server' # "aborted" =>
            IsFiniteSet(Ended') /\ Cardinality(Ended') <= faults' + Cardinality(Charged')
<1> SUFFICES ASSUME server' # "aborted"
             PROVE  IsFiniteSet(Ended') /\ Cardinality(Ended') <= faults' + Cardinality(Charged')
  OBVIOUS
<1>1. IsFiniteSet(Charged') /\ Cardinality(Charged') \in Nat
  <2>1. Charged' \subseteq Sent' BY DEF Charged, Late, Sent
  <2> QED BY <2>1, FS_Subset, FS_CardinalityType DEF LossInv
<1>2. IsFiniteSet(Charged) /\ Cardinality(Charged) \in Nat
  BY ChargedFinite DEF LossInv
<1>3. IsFiniteSet(Ended) /\ Cardinality(Ended) \in Nat
       /\ Cardinality(Ended) <= faults + Cardinality(Charged)
  BY FS_CardinalityType DEF LossInv
<1>4. IsFiniteSet(Ended \cup {w}) /\ Cardinality(Ended \cup {w}) \in Nat
       /\ Cardinality(Ended \cup {w}) <= Cardinality(Ended) + 1
  <2>1. /\ IsFiniteSet(Ended \cup {w})
        /\ Cardinality(Ended \cup {w}) =
             IF w \in Ended THEN Cardinality(Ended) ELSE Cardinality(Ended) + 1
    BY <1>3, FS_AddElement, ZenonT(30)
  <2> QED BY <1>3, <2>1
<1>5. IsFiniteSet(Ended') /\ Cardinality(Ended') \in Nat /\ Cardinality(Ended') <= Cardinality(Ended) + 1
  BY <1>3, <1>4, FS_Subset, FS_CardinalityType
<1>6. faults \in Nat BY DEF TypeOK
<1>7. CASE faults' = faults + 1 /\ Charged \subseteq Charged'
  <2>1. Cardinality(Charged) <= Cardinality(Charged')
    BY <1>1, <1>7, FS_Subset
  <2> QED BY <1>1, <1>2, <1>3, <1>5, <1>6, <1>7, <2>1
<1>8. CASE faults' = faults /\ \E c \in Calls : c \notin Charged /\ Charged \cup {c} \subseteq Charged'
  <2>1. PICK c \in Calls : c \notin Charged /\ Charged \cup {c} \subseteq Charged'
    BY <1>8
  <2>2. IsFiniteSet(Charged \cup {c}) /\ Cardinality(Charged \cup {c}) = Cardinality(Charged) + 1
    BY <1>2, <2>1, FS_AddElement
  <2>3. Cardinality(Charged) + 1 <= Cardinality(Charged')
    BY <1>1, <2>1, <2>2, FS_Subset
  <2> QED BY <1>1, <1>2, <1>3, <1>5, <1>6, <1>8, <2>3
<1> QED BY <1>7, <1>8

\* The callers' steps end no thread; a reply is only received once the request has
\* left the hands of the thread that published it.
LEMMA CallerLoss ==
  \A c \in Calls : Inv /\ Inv' /\ LossInv /\ (Send(c) \/ ReceiveReply(c) \/ Timeout(c)) => LossInv'
<1> SUFFICES ASSUME NEW c \in Calls, Inv, Inv', LossInv, Send(c) \/ ReceiveReply(c) \/ Timeout(c)
             PROVE  LossInv'
  OBVIOUS
<1>1. /\ call \in [Calls -> Rpc!CallStates]
      /\ call[c] \in {"new", "pending"}
      /\ \E s \in {"pending", "answered", "timedOut"} : call' = [call EXCEPT ![c] = s]
      /\ UNCHANGED <<pc, channel, env, handled, server, faults>>
  BY DEF Send, ReceiveReply, Timeout, ReplyQueueExists, Rpc!Submit, Rpc!GiveUp, Inv, TypeOK
<1>2. Ended' = Ended
  BY <1>1 DEF Ended
<1>3. Sent' \subseteq Sent \cup {c}
  BY <1>1 DEF Sent
<1>4. IsFiniteSet(Sent')
  BY <1>3, FS_AddElement, FS_Subset DEF LossInv
<1>5. \A x \in Calls, w \in Workers : (InHand(x, w)' <=> InHand(x, w)) /\ (Pushed(x, w)' <=> Pushed(x, w))
  BY <1>1 DEF InHand, Pushed
<1>6. Charged \subseteq Charged'
  BY <1>1, <1>5 DEF Charged, Late
<1>7. \A x \in Calls : call'[x] = "answered" => ~InFlight(x)'
  <2> SUFFICES ASSUME NEW x \in Calls, call'[x] = "answered" PROVE ~InFlight(x)'
    OBVIOUS
  <2>1. CASE Send(c)
    <3>1. x # c /\ call[x] = "answered" /\ ~InFlight(x)
      BY <1>1, <2>1 DEF Send, Rpc!Submit, LossInv
    <3>2. Queued(x)' <=> Queued(x)
      BY <2>1, <3>1, AppendSeq DEF Send, Queued, Inv, TypeOK
    <3> QED BY <1>5, <3>1, <3>2 DEF InFlight
  <2>2. CASE Timeout(c)
    <3>1. x # c /\ call[x] = "answered" /\ ~InFlight(x) /\ UNCHANGED queue
      BY <1>1, <2>2 DEF Timeout, Rpc!GiveUp, LossInv
    <3> QED BY <1>5, <3>1 DEF InFlight, Queued
  <2>3. CASE ReceiveReply(c)
    <3>1. UNCHANGED queue /\ (x # c => ~InFlight(x))
      BY <1>1, <2>3 DEF ReceiveReply, LossInv
    <3>2. x = c => handled[x] = 1 /\ replies[x] # <<>>
      BY <2>3 DEF ReceiveReply, Inv, TypeOK, HandledAtMostOnce
    <3>3. x = c => ~InFlight(x)
      BY <3>2 DEF Inv, CountsMatch, InFlight, InHand
    <3> QED BY <1>5, <3>1, <3>3 DEF InFlight, Queued
  <2> QED BY <2>1, <2>2, <2>3
<1> QED BY <1>1, <1>2, <1>4, <1>6, <1>7, NoLoss DEF LossInv, Inv

\* A step of the broker or of a thread moves requests towards their end: none that
\* was not in flight is in flight afterwards.
LEMMA NoNewFlight ==
  \A w \in Workers : Inv /\ Inv' /\ (Push(w) \/ WorkerStep(w) \/ Fault(w)) =>
      \A c \in Calls : InFlight(c)' => InFlight(c)
<1> SUFFICES ASSUME NEW w \in Workers, Inv, Inv', Push(w) \/ WorkerStep(w) \/ Fault(w),
                    NEW c \in Calls, InFlight(c)'
             PROVE  InFlight(c)
  OBVIOUS
<1>t. /\ queue \in Seq(Calls)
      /\ pc \in [Workers -> PcStates]
      /\ channel \in [Workers -> Seq(Calls)]
      /\ env \in [Workers -> Calls \cup {None}]
      /\ IsInjective(queue) /\ \A v \in Workers : IsInjective(channel[v])
  BY DEF Inv, TypeOK, SinglePlace
<1>1. CASE Push(w)
  <2>1. /\ ToSet(queue') = ToSet(queue) \ {Head(queue)} /\ Head(queue) \in ToSet(queue)
        /\ Head(queue) \in Calls
    BY <1>1, <1>t, TailSeq DEF Push
  <2>2. ToSet(channel'[w]) = ToSet(channel[w]) \cup {Head(queue)}
    BY <1>1, <1>t, <2>1, AppendSeq DEF Push
  <2> QED BY <1>1, <1>t, <2>1, <2>2 DEF Push, InFlight, Queued, Pushed, InHand
<1>2. CASE BasicConsumeMessage(w)
  <2>1. /\ ToSet(channel'[w]) = ToSet(channel[w]) \ {Head(channel[w])}
        /\ Head(channel[w]) \in ToSet(channel[w])
    BY <1>2, <1>t, TailSeq DEF BasicConsumeMessage
  <2> QED BY <1>2, <1>t, <2>1 DEF BasicConsumeMessage, InFlight, Queued, Pushed, InHand
<1>3. CASE OpenChannel(w) \/ HandleMessage(w)
  BY <1>3, <1>t DEF OpenChannel, HandleMessage, InFlight, Queued, Pushed, InHand
<1>4. CASE PublishReply(w) \/ ReplyReturned(w) \/ CloseChannel(w) \/ ConsumeThrows(w) \/ PublishThrows(w)
  <2>1. /\ queue' = queue
        /\ channel'[w] \in {channel[w], <<>>}
        /\ pc'[w] \in {"open", "close", "ended"}
        /\ \A v \in Workers \ {w} : pc'[v] = pc[v] /\ env'[v] = env[v] /\ channel'[v] = channel[v]
    BY <1>4, <1>t DEF PublishReply, ReplyReturned, CloseChannel, ConsumeThrows, PublishThrows, BreakLoop
  <2> QED BY <2>1, NoElements DEF InFlight, Queued, Pushed, InHand
<1>5. CASE OpenChannelThrows(w)
  BY <1>5, NoElements DEF OpenChannelThrows, InFlight, Queued, Pushed, InHand
<1> QED BY <1>1, <1>2, <1>3, <1>4, <1>5 DEF WorkerStep, Fault

\* Each thread that ends is paid for: by the broken connection that ended it, or by
\* the request it held, whose caller had given up.
LEMMA ServerLoss ==
  \A w \in Workers : Inv /\ Inv' /\ LossInv /\ (Push(w) \/ WorkerStep(w) \/ Fault(w)) => LossInv'
<1> SUFFICES ASSUME NEW w \in Workers, Inv, Inv', LossInv, Push(w) \/ WorkerStep(w) \/ Fault(w)
             PROVE  LossInv'
  OBVIOUS
<1>t. /\ pc \in [Workers -> PcStates]
      /\ env \in [Workers -> Calls \cup {None}]
      /\ handled \in [Calls -> Nat]
      /\ call \in [Calls -> Rpc!CallStates]
      /\ TypeOK
  BY DEF Inv, TypeOK
<1>1. call' = call
  BY DEF Push, WorkerStep, Fault, OpenChannel, BasicConsumeMessage, HandleMessage,
         PublishReply, ReplyReturned, CloseChannel, OpenChannelThrows, ConsumeThrows, PublishThrows
<1>2. Sent' = Sent /\ IsFiniteSet(Sent')
  BY <1>1 DEF Sent, LossInv
<1>3. \A c \in Calls : call'[c] = "answered" => ~InFlight(c)'
  BY <1>1, NoNewFlight DEF LossInv
<1> SUFFICES server' # "aborted" =>
                IsFiniteSet(Ended') /\ Cardinality(Ended') <= faults' + Cardinality(Charged')
  BY <1>2, <1>3 DEF LossInv
<1>4. CASE Push(w) \/ OpenChannel(w) \/ BasicConsumeMessage(w) \/ HandleMessage(w)
             \/ PublishReply(w) \/ CloseChannel(w)
  <2>1. server' = server /\ faults' = faults /\ Ended' \subseteq Ended
    BY <1>4, <1>t DEF Push, OpenChannel, BasicConsumeMessage, HandleMessage, PublishReply,
                      CloseChannel, Ended
  <2>2. Charged \subseteq Charged'
    <3> SUFFICES ASSUME NEW c \in Charged PROVE c \in Charged'
      OBVIOUS
    <3>1. c \in Calls /\ call'[c] = "timedOut" /\ handled[c] = 1 /\ \A v \in Workers : ~InHand(c, v)
      BY <1>1 DEF Charged, Late
    <3>2. CASE BasicConsumeMessage(w)
      <4>1. Pushed(Head(channel[w]), w) /\ Head(channel[w]) \in Calls
        BY <3>2, TailSeq DEF BasicConsumeMessage, Pushed, Inv, TypeOK
      <4>2. Head(channel[w]) # c
        BY <3>1, <4>1 DEF Inv, CountsMatch
      <4> QED BY <1>t, <3>1, <3>2, <4>2 DEF BasicConsumeMessage, Charged, Late, InHand
    <3>3. CASE HandleMessage(w)
      <4>1. env[w] # c
        BY <3>1, <3>3 DEF HandleMessage, InHand
      <4> QED BY <1>t, <3>1, <3>3, <4>1 DEF HandleMessage, Charged, Late, InHand
    <3>4. CASE Push(w) \/ OpenChannel(w) \/ PublishReply(w) \/ CloseChannel(w)
      BY <1>t, <3>1, <3>4 DEF Push, OpenChannel, PublishReply, CloseChannel, Charged, Late, InHand
    <3> QED BY <1>4, <3>2, <3>3, <3>4
  <2> QED BY <1>2, <1>t, <2>1, <2>2, NoLoss
<1>5. CASE ReplyReturned(w)
  <2> DEFINE c == env[w]
  <2>1. c \in Calls /\ InHand(c, w) /\ handled[c] = 1
    BY <1>5 DEF ReplyReturned, Inv, SinglePlace, CountsMatch, InHand
  <2>2. call[c] = "timedOut"
    BY <1>5, <1>t, <2>1 DEF ReplyReturned, ReplyQueueExists, Inv, CountsMatch, LossInv, InFlight,
                            Rpc!CallStates
  <2>3. /\ server' = server /\ faults' = faults /\ handled' = handled
        /\ pc' = [pc EXCEPT ![w] = "ended"]
        /\ env' = [env EXCEPT ![w] = None]
    BY <1>5 DEF ReplyReturned, BreakLoop
  <2>4. \A x \in Calls, v \in Workers : InHand(x, v)' <=> InHand(x, v) /\ v # w
    BY <1>t, <2>3 DEF InHand
  <2>5. \A v \in Workers : InHand(c, v) => v = w
    BY <2>1 DEF Inv, SinglePlace
  <2>6. c \notin Charged /\ Charged \cup {c} \subseteq Charged'
    BY <1>1, <2>1, <2>2, <2>3, <2>4, <2>5 DEF Charged, Late
  <2>7. Ended' \subseteq Ended \cup {w}
    BY <1>t, <2>3 DEF Ended
  <2> QED BY <1>2, <1>t, <2>1, <2>3, <2>6, <2>7, OneLoss
<1>6. CASE ConsumeThrows(w) \/ PublishThrows(w)
  <2>1. /\ server' = server /\ faults' = faults + 1 /\ handled' = handled
        /\ pc' = [pc EXCEPT ![w] = "ended"]
        /\ env' = [env EXCEPT ![w] = None]
    BY <1>6 DEF ConsumeThrows, PublishThrows, BreakLoop
  <2>2. Charged \subseteq Charged' /\ Ended' \subseteq Ended \cup {w}
    BY <1>1, <1>t, <2>1 DEF Charged, Late, InHand, Ended
  <2> QED BY <1>2, <1>t, <2>1, <2>2, OneLoss
<1>7. CASE OpenChannelThrows(w)
  BY <1>7 DEF OpenChannelThrows
<1> QED BY <1>4, <1>5, <1>6, <1>7 DEF WorkerStep, Fault

\* Unless the process was aborted, the threads that ended are no more than the
\* broken connections and the handled requests whose callers gave up: nothing else
\* in runBlocking ends a thread, and no late reply ends two.
THEOREM LossAccounted == Spec => []WorkerLossAccounted
<1>1. Init => LossInv
  <2> SUFFICES ASSUME Init PROVE LossInv
    OBVIOUS
  <2>1. Sent = {} /\ Ended = {} /\ Charged = {} /\ faults = 0
    BY DEF Init, Rpc!RpcInit, Sent, Ended, Charged, Late
  <2>2. \A c \in Calls : call[c] = "new"
    BY DEF Init, Rpc!RpcInit
  <2> QED BY <2>1, <2>2, FS_EmptySet DEF LossInv
<1>2. Inv /\ Inv' /\ LossInv /\ [Next]_vars => LossInv'
  <2> SUFFICES ASSUME Inv, Inv', LossInv, [Next]_vars PROVE LossInv'
    OBVIOUS
  <2>1. CASE JoinAll \/ UNCHANGED vars
    <3>1. /\ UNCHANGED <<call, queue, pc, channel, env, handled, faults>>
          /\ server' = "aborted" <=> server = "aborted"
      BY <2>1 DEF JoinAll, vars
    <3>2. Sent' = Sent /\ Ended' = Ended /\ Charged' = Charged
      BY <3>1 DEF Sent, Ended, Charged, Late, InHand
    <3>3. \A c \in Calls : InFlight(c)' <=> InFlight(c)
      BY <3>1 DEF InFlight, Queued, Pushed, InHand
    <3> QED BY <3>1, <3>2, <3>3 DEF LossInv
  <2> QED BY <2>1, CallerLoss, ServerLoss DEF Next
<1>3. Inv /\ LossInv => WorkerLossAccounted
  <2> SUFFICES ASSUME Inv, LossInv, server # "aborted"
               PROVE  Cardinality(Ended) <= faults + Cardinality(Late)
    BY DEF WorkerLossAccounted, Ended, Late
  <2>1. Cardinality(Ended) \in Nat /\ Cardinality(Late) \in Nat /\ faults \in Nat
    BY ChargedFinite, FS_CardinalityType DEF LossInv, Inv, TypeOK
  <2> QED BY <2>1, ChargedFinite DEF LossInv
<1> QED BY <1>1, <1>2, <1>3, InvInit, InvStep, PTL DEF Spec

=============================================================================
