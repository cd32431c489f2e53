------------------------------ MODULE RecogRpc ------------------------------
(***************************************************************************)
(* What the web application may rely on when it asks the native server to  *)
(* recognise one frame: the contract of the AMQP outbound gateway in       *)
(* jvm/src/main/resources/META-INF/spring/integration/module-context.xml.  *)
(*                                                                         *)
(* A call is made at most once; it ends with the reply computed from its   *)
(* own frame, under its own correlation id, or with no reply at all; and   *)
(* it always ends.  RabbitRpcServer implements this contract;              *)
(* RecogPipeline is built on it.                                           *)
(***************************************************************************)

CONSTANTS
    Calls,          \* the frames that are sent to the recognition queue
    CorrelationId,  \* CorrelationId[c]: the session on whose behalf c is sent
    Decodable       \* the frames the vision code processes without throwing

VARIABLES
    call,    \* call[c]: how far the blocking call for frame c has got
    answer   \* answer[c]: the reply the caller holds, NoReply if there is none

rpcVars == <<call, answer>>

NoReply == [kind |-> "noReply"]

\* What the caller finds in the reply to c.  handleMessage always produces a
\* body: when decoding or counting throws, one that says "succeeded": false.
Reply(c) == [kind          |-> "reply",
             correlationId |-> CorrelationId[c],
             frame         |-> c,
             succeeded     |-> c \in Decodable]

CallStates == {"new", "pending", "answered", "timedOut"}

RpcTypeOK ==
    /\ call \in [Calls -> CallStates]
    /\ answer \in [Calls -> {NoReply} \cup {Reply(c) : c \in Calls}]

RpcInit ==
    /\ call = [c \in Calls |-> "new"]
    /\ answer = [c \in Calls |-> NoReply]

Submit(c) ==
    /\ call[c] = "new"
    /\ call' = [call EXCEPT ![c] = "pending"]
    /\ UNCHANGED answer

Answer(c) ==
    /\ call[c] = "pending"
    /\ call' = [call EXCEPT ![c] = "answered"]
    /\ answer' = [answer EXCEPT ![c] = Reply(c)]

GiveUp(c) ==
    /\ call[c] = "pending"
    /\ call' = [call EXCEPT ![c] = "timedOut"]
    /\ UNCHANGED answer

RpcNext == \E c \in Calls : Submit(c) \/ Answer(c) \/ GiveUp(c)

\* The safety part of the contract, and the promise that no call stays pending.
RpcSafety == RpcInit /\ [][RpcNext]_rpcVars

RpcSpec == RpcSafety /\ \A c \in Calls : WF_rpcVars(Answer(c) \/ GiveUp(c))

=============================================================================
