-------------------------- MODULE RecogPipelineProofs --------------------------
(***************************************************************************)
(* Proofs about RecogPipeline, for any number of sessions, frames and      *)
(* executor threads.                                                       *)
(***************************************************************************)
EXTENDS RecogPipeline, SequenceTheorems, TLAPS

-----------------------------------------------------------------------------
(* Types, and what a thread works on.                                       *)

FrameTasks == {FrameTask(f) : f \in Frames}
Messages == [kind : {"topic", "out"}, values : SUBSET Responses]
EntryRecords == [session : Sessions, response : Responses]

\* An answered call has the reply to its own frame.
RpcInv == \A f \in Frames : call[f] = "answered" => answer[f] = Rpc!Reply(f)

\* A thread in a call carries a frame, one that serves the topic a message.
CarryInv ==
    \A t \in Threads :
      /\ pc[t] \in {"rpc", "inserting"} => job[t] \in FrameTasks
      /\ pc[t] = "inserting" => call[job[t].frame] = "answered"
      /\ pc[t] \in {"broker", "out"} => job[t] \in Messages

TypeInv == TypeOK /\ RpcInv /\ CarryInv

\* The two kinds of tasks.
LEMMA TaskFacts ==
  /\ Tasks = FrameTasks \cup Messages
  /\ \A x \in FrameTasks : x.kind = "frame" /\ x.frame \in Frames /\ x = FrameTask(x.frame)
  /\ \A x \in Messages : x.kind \in {"topic", "out"} /\ x.values \in SUBSET Responses
  /\ \A v \in SUBSET Responses : TopicTask(v) \in Messages /\ OutTask(v) \in Messages
<1>1. Tasks = FrameTasks \cup Messages BY DEF Tasks, FrameTasks, Messages
<1>2. \A x \in FrameTasks : x.kind = "frame" /\ x.frame \in Frames /\ x = FrameTask(x.frame)
  BY DEF FrameTasks, FrameTask
<1>3. \A x \in Messages : x.kind \in {"topic", "out"} /\ x.values \in SUBSET Responses
  BY DEF Messages
<1>4. \A v \in SUBSET Responses : TopicTask(v) \in Messages /\ OutTask(v) \in Messages
  BY DEF TopicTask, OutTask, Messages
<1> QED BY <1>1, <1>2, <1>3, <1>4

\* A frame is a session and a number.
LEMMA FrameFacts ==
  /\ \A f \in Frames : /\ SessionOf(f) = f[1] /\ f[1] \in Sessions /\ f[2] \in Nat /\ Corr[f] = f[1]
                       /\ f = <<f[1], f[2]>>
  /\ \A s \in Sessions : \A n \in Nat : n < MaxFrames[s] => <<s, n + 1>> \in Frames
<1>1. \A s \in Sessions : MaxFrames[s] \in Nat BY PipelineAssumption
<1>2. ASSUME NEW f \in Frames
      PROVE  /\ SessionOf(f) = f[1] /\ f[1] \in Sessions /\ f[2] \in Nat /\ Corr[f] = f[1]
             /\ f = <<f[1], f[2]>>
  <2>1. PICK s \in Sessions : f \in {s} \X (1..MaxFrames[s]) BY DEF Frames
  <2>2. f[1] = s /\ f[2] \in 1..MaxFrames[s] /\ f = <<f[1], f[2]>> BY <2>1
  <2>3. f[2] \in Nat BY <1>1, <2>2
  <2> QED BY <2>2, <2>3 DEF SessionOf, Corr
<1>3. ASSUME NEW s \in Sessions, NEW n \in Nat, n < MaxFrames[s] PROVE <<s, n + 1>> \in Frames
  <2>1. n + 1 \in 1..MaxFrames[s] BY <1>1, <1>3
  <2>2. <<s, n + 1>> \in {s} \X (1..MaxFrames[s]) BY <2>1
  <2> QED BY <2>2 DEF Frames
<1> QED BY <1>2, <1>3

\* The entry a thread is going to store is the reply to the frame it carries, under the
\* session of that frame.
LEMMA EntryFacts ==
  ASSUME TypeInv, NEW t \in Threads, pc[t] \in {"rpc", "inserting"},
         call[job[t].frame] = "answered"
  PROVE  /\ job[t].frame \in Frames /\ Key(t) = job[t].frame[1] /\ Key(t) \in Sessions
         /\ NewEntry(t) \in EntryRecords
         /\ NewEntry(t).session = Key(t) /\ NewEntry(t).response.frame = job[t].frame
<1>1. job[t] \in FrameTasks BY DEF TypeInv, CarryInv
<1>2. PICK f \in Frames : f = job[t].frame BY <1>1, TaskFacts
<1>3. answer[f] = Rpc!Reply(f) BY <1>2 DEF TypeInv, RpcInv
<1>4. answer[f].correlationId = f[1] /\ answer[f].frame = f
  BY <1>3, FrameFacts DEF Rpc!Reply
<1>5. f[1] \in Sessions /\ answer[f] \in Responses BY <1>3, FrameFacts DEF Responses
<1>6. Key(t) = f[1] BY <1>2, <1>4 DEF Key
<1>7. NewEntry(t) = [session |-> f[1], response |-> answer[f]]
  BY <1>2, <1>6 DEF NewEntry, Entry
<1>8. /\ NewEntry(t) \in EntryRecords /\ NewEntry(t).session = f[1]
      /\ NewEntry(t).response = answer[f]
  BY <1>5, <1>7 DEF EntryRecords
<1> QED BY <1>2, <1>4, <1>5, <1>6, <1>8

\* Where a thread goes when a call returns or throws.
LEMMA ReturnFacts ==
  ASSUME TypeOK, NEW t \in Threads, Throw(t) \/ Return(t)
  PROVE  /\ pc' \in [Threads -> PcStates] /\ conn' \in [Sessions -> {"open", "ending", "ended"}]
         /\ job' \in [Threads -> Tasks \cup {NoJob}]
         /\ \A u \in Threads : u # t => pc'[u] = pc[u] /\ job'[u] = job[u]
         /\ \A s \in Sessions : s # t => conn'[s] = conn[s]
         /\ t \in Executors => pc'[t] = "idle" /\ conn' = conn
         /\ t \in Sessions /\ conn[t] = "open" =>
               (pc'[t] = "remove" /\ conn'[t] = "ending") \/ (pc'[t] = "next" /\ conn'[t] = "open")
         /\ t \in Sessions /\ conn[t] # "open" => pc'[t] = "done" /\ conn'[t] = "ended"
<1>1. /\ conn \in [Sessions -> {"open", "ending", "ended"}] /\ pc \in [Threads -> PcStates]
      /\ job \in [Threads -> Tasks \cup {NoJob}]
  BY DEF TypeOK
<1>2. job' = [job EXCEPT ![t] = NoJob] BY DEF Throw, Return
<1>3. job' \in [Threads -> Tasks \cup {NoJob}] /\ \A u \in Threads : u # t => job'[u] = job[u]
  BY <1>1, <1>2
<1>4. \E l \in {"idle", "remove", "next", "done"} : pc' = [pc EXCEPT ![t] = l]
  BY DEF Throw, Return, Goto
<1>5. pc' \in [Threads -> PcStates] /\ \A u \in Threads : u # t => pc'[u] = pc[u]
  BY <1>1, <1>4 DEF PcStates
<1>6. CASE t \in Executors
  <2>1. pc' = [pc EXCEPT ![t] = "idle"] /\ conn' = conn BY <1>6 DEF Throw, Return, Goto
  <2>2. t \notin Sessions BY <1>6, PipelineAssumption
  <2> QED BY <1>1, <1>3, <1>5, <2>1, <2>2
<1>7. CASE t \notin Executors /\ conn[t] = "open"
  <2>1. t \in Sessions BY <1>7 DEF Threads
  <2>2. \/ pc' = [pc EXCEPT ![t] = "remove"] /\ conn' = [conn EXCEPT ![t] = "ending"]
        \/ pc' = [pc EXCEPT ![t] = "next"] /\ conn' = conn
    BY <1>7 DEF Throw, Return, Goto
  <2>3. \/ pc'[t] = "remove" /\ conn'[t] = "ending"
        \/ pc'[t] = "next" /\ conn'[t] = "open"
    BY <1>1, <1>7, <2>1, <2>2
  <2>4. conn' \in [Sessions -> {"open", "ending", "ended"}]
        /\ \A s \in Sessions : s # t => conn'[s] = conn[s]
    BY <1>1, <2>2
  <2> QED BY <1>3, <1>5, <1>7, <2>3, <2>4
<1>8. CASE t \notin Executors /\ conn[t] # "open"
  <2>1. t \in Sessions BY <1>8 DEF Threads
  <2>2. pc' = [pc EXCEPT ![t] = "done"] /\ conn' = [conn EXCEPT ![t] = "ended"]
    BY <1>8 DEF Throw, Return, Goto
  <2>3. pc'[t] = "done" /\ conn'[t] = "ended" BY <1>1, <2>1, <2>2
  <2>4. conn' \in [Sessions -> {"open", "ending", "ended"}]
        /\ \A s \in Sessions : s # t => conn'[s] = conn[s]
    BY <1>1, <2>2
  <2> QED BY <1>3, <1>5, <1>8, <2>3, <2>4
<1> QED BY <1>6, <1>7, <1>8

\* What a step of the application is.
LEMMA StepCases ==
  ASSUME [Next]_vars
  PROVE  \/ UNCHANGED vars
         \/ \E f \in Frames : RpcStep(f)
         \/ \E s \in WsSessions : handleMessage(s) \/ afterConnectionClosed(s)
         \/ \E s \in HttpSessions : HttpStart(s) \/ HttpNextChunk(s) \/ HttpStreamEnds(s)
         \/ \E e \in Executors : TakeFrame(e) \/ TakeMessage(e) \/ Broker(e) \/ Deliver(e)
         \/ \E t \in HttpSessions \cup Executors : OnCoinResponse(t)
         \/ \E s \in Sessions : SessionEnded(s)
         \/ \E t \in Threads : Iteration(t)
<1>1. CASE \E s \in WsSessions : handleMessage(s) \/ afterConnectionClosed(s) \/ WsCloseStep(s)
  BY <1>1 DEF WsCloseStep, Sessions, Threads
<1>2. CASE \E s \in HttpSessions : HttpStart(s) \/ HttpStep(s)
  BY <1>2 DEF HttpStep, Sessions, Threads
<1>3. CASE \E e \in Executors : ExecutorStep(e)
  BY <1>3 DEF ExecutorStep, Threads
<1> QED BY <1>1, <1>2, <1>3 DEF Next

\* Sessions and executors are threads, and no thread is two of these.
LEMMA ThreadFacts ==
  /\ \A s \in Sessions : s \in Threads /\ s \notin Executors
  /\ \A e \in Executors : e \in Threads /\ e \notin Sessions
  /\ \A s \in WsSessions : s \in Sessions /\ s \notin HttpSessions
  /\ \A s \in HttpSessions : s \in Sessions /\ s \notin WsSessions
  /\ \A t \in HttpSessions \cup Executors : t \in Threads /\ t \notin WsSessions
BY PipelineAssumption DEF Sessions, Threads

\* Only the thread that takes a step moves, and a frame that was answered stays so: the
\* threads still carry what they should.
LEMMA CarryStep ==
  ASSUME TypeInv, NEW t \in Threads,
         \A u \in Threads : u # t => pc'[u] = pc[u] /\ job'[u] = job[u],
         \A f \in Frames : call[f] = "answered" => call'[f] = "answered",
         pc'[t] \in {"rpc", "inserting"} => job'[t] \in FrameTasks,
         pc'[t] = "inserting" => call'[job'[t].frame] = "answered",
         pc'[t] \in {"broker", "out"} => job'[t] \in Messages
  PROVE  CarryInv'
<1> SUFFICES ASSUME NEW u \in Threads
             PROVE  /\ pc'[u] \in {"rpc", "inserting"} => job'[u] \in FrameTasks
                    /\ pc'[u] = "inserting" => call'[job'[u].frame] = "answered"
                    /\ pc'[u] \in {"broker", "out"} => job'[u] \in Messages
  BY DEF CarryInv
<1>1. CASE u = t BY <1>1
<1>2. CASE u # t
  <2>1. pc'[u] = pc[u] /\ job'[u] = job[u] BY <1>2
  <2>2. /\ pc[u] \in {"rpc", "inserting"} => job[u] \in FrameTasks
        /\ pc[u] = "inserting" => call[job[u].frame] = "answered"
        /\ pc[u] \in {"broker", "out"} => job[u] \in Messages
    BY DEF TypeInv, CarryInv
  <2>3. pc[u] = "inserting" => job[u].frame \in Frames BY <2>2, TaskFacts
  <2> QED BY <2>1, <2>2, <2>3
<1> QED BY <1>1, <1>2

\* The bookkeeping of the HashMap keeps its types.
LEMMA MapFacts ==
  ASSUME TypeOK, NEW t \in Threads
  PROVE  /\ StartWriting(t) => raced' \subseteq Threads
         /\ StopWriting(t) => raced' \subseteq Threads /\ stale' \subseteq Threads
         /\ \A entries \in SUBSET EntryRecords : BeginIteration(t, entries) =>
              iter' \in [Threads -> [left : SUBSET Sessions, values : SUBSET Responses]]
         /\ StopIterating(t) =>
              /\ iter' \in [Threads -> [left : SUBSET Sessions, values : SUBSET Responses]]
              /\ stale' \subseteq Threads
<1> DEFINE Iterations == [left : SUBSET Sessions, values : SUBSET Responses]
<1>1. raced \subseteq Threads /\ stale \subseteq Threads /\ iter \in [Threads -> Iterations]
  BY DEF TypeOK
<1>2. StartWriting(t) => raced' \subseteq Threads BY <1>1 DEF StartWriting, Writers
<1>3. StopWriting(t) => raced' \subseteq Threads /\ stale' \subseteq Threads
  BY <1>1 DEF StopWriting, Iterators
<1>4. ASSUME NEW entries \in SUBSET EntryRecords, BeginIteration(t, entries)
      PROVE  iter' \in [Threads -> Iterations]
  <2>1. [left |-> {e.session : e \in entries}, values |-> {}] \in Iterations
    BY DEF EntryRecords
  <2> QED BY <1>1, <1>4, <2>1 DEF BeginIteration
<1>5. ASSUME StopIterating(t) PROVE iter' \in [Threads -> Iterations] /\ stale' \subseteq Threads
  <2>1. NoIter \in Iterations BY DEF NoIter
  <2> QED BY <1>1, <1>5, <2>1 DEF StopIterating
<1> QED BY <1>2, <1>3, <1>4, <1>5

\* A call made, answered or given up leaves the types, and every answer that was there.
LEMMA RpcFacts ==
  ASSUME TypeInv, NEW f \in Frames,
         Rpc!Submit(f) \/ Rpc!Answer(f) \/ Rpc!GiveUp(f)
  PROVE  /\ Rpc!RpcTypeOK' /\ RpcInv'
         /\ \A g \in Frames : call[g] = "answered" => call'[g] = "answered" /\ answer'[g] = answer[g]
<1>1. /\ call \in [Frames -> Rpc!CallStates]
      /\ answer \in [Frames -> {Rpc!NoReply} \cup {Rpc!Reply(c) : c \in Frames}]
  BY DEF TypeInv, TypeOK, Rpc!RpcTypeOK
<1>2. \A g \in Frames : call[g] = "answered" => answer[g] = Rpc!Reply(g) BY DEF TypeInv, RpcInv
<1>3. CASE Rpc!Submit(f)
  <2>1. call[f] = "new" /\ call' = [call EXCEPT ![f] = "pending"] /\ answer' = answer
    BY <1>3 DEF Rpc!Submit
  <2> QED BY <1>1, <1>2, <2>1 DEF Rpc!RpcTypeOK, Rpc!CallStates, RpcInv
<1>4. CASE Rpc!Answer(f)
  <2>1. /\ call[f] = "pending" /\ call' = [call EXCEPT ![f] = "answered"]
        /\ answer' = [answer EXCEPT ![f] = Rpc!Reply(f)]
    BY <1>4 DEF Rpc!Answer
  <2>2. Rpc!RpcTypeOK' BY <1>1, <2>1 DEF Rpc!RpcTypeOK, Rpc!CallStates
  <2>3. \A g \in Frames : call'[g] = IF g = f THEN "answered" ELSE call[g] BY <1>1, <2>1
  <2>4. \A g \in Frames : answer'[g] = IF g = f THEN Rpc!Reply(f) ELSE answer[g] BY <1>1, <2>1
  <2>5. RpcInv' BY <1>2, <2>3, <2>4 DEF RpcInv
  <2> QED BY <2>1, <2>2, <2>3, <2>4, <2>5
<1>5. CASE Rpc!GiveUp(f)
  <2>1. call[f] = "pending" /\ call' = [call EXCEPT ![f] = "timedOut"] /\ answer' = answer
    BY <1>5 DEF Rpc!GiveUp
  <2> QED BY <1>1, <1>2, <2>1 DEF Rpc!RpcTypeOK, Rpc!CallStates, RpcInv
<1> QED BY <1>3, <1>4, <1>5

\* At first the variables have their types.
LEMMA TypeInit == Init => TypeInv
<1> SUFFICES ASSUME Init PROVE TypeInv
  OBVIOUS
<1>1. Rpc!RpcTypeOK /\ RpcInv
  BY DEF Init, Rpc!RpcInit, Rpc!RpcTypeOK, Rpc!CallStates, RpcInv
<1>2. conn \in [Sessions -> {"open", "ending", "ended"}] /\ sent \in [Sessions -> Nat]
  BY DEF Init
<1>3. tasks \in Seq(Tasks) BY DEF Init
<1>4. pc \in [Threads -> PcStates] /\ job \in [Threads -> Tasks \cup {NoJob}]
  BY DEF Init, PcStates
<1>5. NoIter \in [left : SUBSET Sessions, values : SUBSET Responses] BY DEF NoIter
<1>6. iter \in [Threads -> [left : SUBSET Sessions, values : SUBSET Responses]]
  BY <1>5 DEF Init
<1>7. /\ store \subseteq [session : Sessions, response : Responses]
      /\ raced \subseteq Threads /\ stale \subseteq Threads /\ shown \subseteq Responses
  BY DEF Init
<1>8. CarryInv BY DEF Init, CarryInv
<1> QED BY <1>1, <1>2, <1>3, <1>4, <1>6, <1>7, <1>8 DEF TypeInv, TypeOK

\* Every step keeps the types, and what the threads carry.
LEMMA TypeStep == TypeInv /\ [Next]_vars => TypeInv'
<1> SUFFICES ASSUME TypeInv, [Next]_vars PROVE TypeInv'
  OBVIOUS
<1> DEFINE Iterations == [left : SUBSET Sessions, values : SUBSET Responses]
<1> DEFINE MapTypes == /\ store \subseteq EntryRecords /\ raced \subseteq Threads
                       /\ iter \in [Threads -> Iterations] /\ stale \subseteq Threads
<1> DEFINE ThreadTypes == /\ conn \in [Sessions -> {"open", "ending", "ended"}]
                          /\ pc \in [Threads -> PcStates]
                          /\ job \in [Threads -> Tasks \cup {NoJob}]
<1> DEFINE OtherTypes == sent \in [Sessions -> Nat] /\ tasks \in Seq(Tasks) /\ shown \subseteq Responses
<1> DEFINE RpcKept == /\ Rpc!RpcTypeOK' /\ RpcInv'
                      /\ \A f \in Frames : call[f] = "answered" => call'[f] = "answered"
<1>1. Rpc!RpcTypeOK /\ RpcInv /\ CarryInv /\ MapTypes /\ ThreadTypes /\ OtherTypes
  BY DEF TypeInv, TypeOK, EntryRecords
<1>2. (RpcKept /\ CarryInv' /\ MapTypes' /\ ThreadTypes' /\ OtherTypes') => TypeInv'
  BY DEF TypeInv, TypeOK, EntryRecords
<1>3. UNCHANGED rpcVars => RpcKept
  BY <1>1 DEF rpcVars, Rpc!RpcTypeOK, RpcInv
<1>4. UNCHANGED mapVars => MapTypes'
  BY <1>1 DEF mapVars
<1>5. ASSUME NEW t \in Threads, NEW l \in PcStates, Goto(t, l)
      PROVE  pc' \in [Threads -> PcStates] /\ pc'[t] = l /\ \A u \in Threads : u # t => pc'[u] = pc[u]
  BY <1>1, <1>5 DEF Goto
<1>6. ASSUME NEW t \in Threads, NEW j \in Tasks \cup {NoJob}, job' = [job EXCEPT ![t] = j]
      PROVE  /\ job' \in [Threads -> Tasks \cup {NoJob}] /\ job'[t] = j
             /\ \A u \in Threads : u # t => job'[u] = job[u]
  BY <1>1, <1>6
<1>7. ASSUME NEW x \in Tasks, tasks' = Append(tasks, x) PROVE tasks' \in Seq(Tasks)
  BY <1>1, <1>7, AppendProperties
<1>8. ASSUME UNCHANGED <<pc, job>>, RpcKept PROVE CarryInv'
  <2> SUFFICES ASSUME NEW t \in Threads
               PROVE  /\ pc'[t] \in {"rpc", "inserting"} => job'[t] \in FrameTasks
                      /\ pc'[t] = "inserting" => call'[job'[t].frame] = "answered"
                      /\ pc'[t] \in {"broker", "out"} => job'[t] \in Messages
    BY DEF CarryInv
  <2>1. /\ pc[t] \in {"rpc", "inserting"} => job[t] \in FrameTasks
        /\ pc[t] = "inserting" => call[job[t].frame] = "answered"
        /\ pc[t] \in {"broker", "out"} => job[t] \in Messages
    BY <1>1 DEF CarryInv
  <2>2. pc[t] = "inserting" => job[t].frame \in Frames BY <2>1, TaskFacts
  <2>3. pc'[t] = pc[t] /\ job'[t] = job[t] BY <1>8
  <2> QED BY <1>8, <2>1, <2>2, <2>3
<1>9. ASSUME NEW s \in Sessions, conn' = [conn EXCEPT ![s] = "ending"]
      PROVE  conn' \in [Sessions -> {"open", "ending", "ended"}]
  BY <1>1, <1>9
<1>10. ASSUME NEW s \in Sessions, sent' = [sent EXCEPT ![s] = @ + 1], sent[s] < MaxFrames[s]
       PROVE  sent' \in [Sessions -> Nat] /\ <<s, sent[s] + 1>> \in Frames
              /\ FrameTask(<<s, sent[s] + 1>>) \in Tasks
  <2>1. sent[s] \in Nat BY <1>1
  <2>2. <<s, sent[s] + 1>> \in Frames BY <1>10, <2>1, FrameFacts
  <2>3. FrameTask(<<s, sent[s] + 1>>) \in Tasks BY <2>2 DEF Tasks
  <2>4. sent' \in [Sessions -> Nat] BY <1>1, <1>10, <2>1
  <2> QED BY <2>2, <2>3, <2>4
<1>11. {"idle", "next", "rpc", "inserting", "remove", "removing", "iterate", "broker", "out", "done"}
          = PcStates
  BY DEF PcStates
<1>12. NoJob \in Tasks \cup {NoJob} OBVIOUS
<1> HIDE DEF Iterations, MapTypes, ThreadTypes, OtherTypes, RpcKept
<1>20. CASE UNCHANGED vars
  <2>1. UNCHANGED <<rpcVars, mapVars, conn, sent, tasks, pc, job, shown>>
    BY <1>20 DEF vars, rpcVars, mapVars
  <2>2. RpcKept /\ MapTypes' BY <1>3, <1>4, <2>1
  <2>3. ThreadTypes' /\ OtherTypes' BY <1>1, <2>1 DEF ThreadTypes, OtherTypes
  <2> QED BY <1>2, <1>8, <2>1, <2>2, <2>3
<1>21. ASSUME NEW f \in Frames, RpcStep(f) PROVE TypeInv'
  <2>1. (Rpc!Answer(f) \/ Rpc!GiveUp(f)) /\ UNCHANGED <<conn, sent, tasks, pc, job, mapVars, shown>>
    BY <1>21 DEF RpcStep
  <2>2. RpcKept BY <2>1, RpcFacts DEF RpcKept
  <2>3. MapTypes' /\ ThreadTypes' /\ OtherTypes'
    BY <1>1, <1>4, <2>1 DEF ThreadTypes, OtherTypes
  <2> QED BY <1>2, <1>8, <2>1, <2>2, <2>3
<1>22. ASSUME NEW s \in WsSessions, handleMessage(s) PROVE TypeInv'
  <2>1. /\ s \in Sessions /\ sent[s] < MaxFrames[s] /\ sent' = [sent EXCEPT ![s] = @ + 1]
        /\ tasks' = Append(tasks, FrameTask(<<s, sent[s] + 1>>))
        /\ UNCHANGED <<rpcVars, conn, pc, job, mapVars, shown>>
    BY <1>22, ThreadFacts DEF handleMessage
  <2>2. sent' \in [Sessions -> Nat] /\ tasks' \in Seq(Tasks) BY <1>7, <1>10, <2>1
  <2>3. RpcKept /\ MapTypes' /\ ThreadTypes' /\ OtherTypes'
    BY <1>1, <1>3, <1>4, <2>1, <2>2 DEF ThreadTypes, OtherTypes
  <2> QED BY <1>2, <1>8, <2>1, <2>3
<1>23. ASSUME NEW s \in Sessions,
              afterConnectionClosed(s) \/ HttpStart(s) \/ HttpStreamEnds(s)
       PROVE  TypeInv'
  <2>1. /\ s \in Threads
        /\ (Goto(s, "remove") \/ Goto(s, "next"))
        /\ (conn' = conn \/ conn' = [conn EXCEPT ![s] = "ending"])
        /\ UNCHANGED <<rpcVars, sent, tasks, job, mapVars, shown>>
    BY <1>23, ThreadFacts DEF afterConnectionClosed, HttpStart, HttpStreamEnds
  <2>2. /\ pc' \in [Threads -> PcStates] /\ pc'[s] \in {"remove", "next"}
        /\ \A u \in Threads : u # s => pc'[u] = pc[u]
    BY <1>5, <1>11, <2>1
  <2>3. RpcKept BY <1>3, <2>1
  <2>4. CarryInv' BY <2>1, <2>2, <2>3, CarryStep DEF RpcKept
  <2>5. conn' \in [Sessions -> {"open", "ending", "ended"}] BY <1>1, <1>9, <2>1 DEF ThreadTypes
  <2>6. MapTypes' /\ ThreadTypes' /\ OtherTypes'
    BY <1>1, <1>4, <2>1, <2>2, <2>5 DEF ThreadTypes, OtherTypes
  <2> QED BY <1>2, <2>3, <2>4, <2>6
<1>24. ASSUME NEW s \in HttpSessions, HttpNextChunk(s) PROVE TypeInv'
  <2> DEFINE f == <<s, sent[s] + 1>>
  <2>1. /\ s \in Sessions /\ s \in Threads /\ sent[s] < MaxFrames[s]
        /\ sent' = [sent EXCEPT ![s] = @ + 1]
        /\ Rpc!Submit(f) /\ job' = [job EXCEPT ![s] = FrameTask(f)] /\ Goto(s, "rpc")
        /\ UNCHANGED <<conn, tasks, mapVars, shown>>
    BY <1>24, ThreadFacts DEF HttpNextChunk
  <2>2. sent' \in [Sessions -> Nat] /\ f \in Frames /\ FrameTask(f) \in Tasks BY <1>10, <2>1
  <2>3. RpcKept BY <2>1, <2>2, RpcFacts DEF RpcKept
  <2>4. /\ job' \in [Threads -> Tasks \cup {NoJob}] /\ job'[s] = FrameTask(f)
        /\ \A u \in Threads : u # s => job'[u] = job[u]
    BY <1>6, <2>1, <2>2
  <2>5. /\ pc' \in [Threads -> PcStates] /\ pc'[s] = "rpc"
        /\ \A u \in Threads : u # s => pc'[u] = pc[u]
    BY <1>5, <1>11, <2>1
  <2>6. FrameTask(f) \in FrameTasks BY <2>2 DEF FrameTasks
  <2>7. CarryInv' BY <2>1, <2>3, <2>4, <2>5, <2>6, CarryStep DEF RpcKept
  <2>8. MapTypes' /\ ThreadTypes' /\ OtherTypes'
    BY <1>1, <1>4, <2>1, <2>2, <2>4, <2>5 DEF ThreadTypes, OtherTypes
  <2> QED BY <1>2, <2>3, <2>7, <2>8
<1>25. ASSUME NEW e \in Executors, TakeFrame(e) \/ TakeMessage(e) PROVE TypeInv'
  <2>1. e \in Threads BY ThreadFacts
  <2>2. tasks # <<>> /\ tasks \in Seq(Tasks) BY <1>1, <1>25 DEF TakeFrame, TakeMessage, OtherTypes
  <2>3. Head(tasks) \in Tasks /\ Tail(tasks) \in Seq(Tasks) BY <2>2, HeadTailProperties
  <2>4. /\ job' = [job EXCEPT ![e] = Head(tasks)] /\ tasks' = Tail(tasks)
        /\ UNCHANGED <<conn, sent, mapVars, shown>>
    BY <1>25 DEF TakeFrame, TakeMessage
  <2>5. /\ job' \in [Threads -> Tasks \cup {NoJob}] /\ job'[e] = Head(tasks)
        /\ \A u \in Threads : u # e => job'[u] = job[u]
    BY <1>6, <2>1, <2>3, <2>4
  <2>6. CASE TakeFrame(e)
    <3>1. Head(tasks).kind = "frame" /\ Rpc!Submit(Head(tasks).frame) /\ Goto(e, "rpc")
      BY <2>6 DEF TakeFrame
    <3>2. Head(tasks) \in FrameTasks /\ Head(tasks).frame \in Frames BY <2>3, <3>1, TaskFacts
    <3>3. RpcKept BY <3>1, <3>2, RpcFacts DEF RpcKept
    <3>4. /\ pc' \in [Threads -> PcStates] /\ pc'[e] = "rpc"
          /\ \A u \in Threads : u # e => pc'[u] = pc[u]
      BY <1>5, <1>11, <2>1, <3>1
    <3>5. CarryInv' BY <2>1, <2>5, <3>2, <3>3, <3>4, CarryStep DEF RpcKept
    <3>6. MapTypes' /\ ThreadTypes' /\ OtherTypes'
      BY <1>1, <1>4, <2>3, <2>4, <2>5, <3>4 DEF ThreadTypes, OtherTypes
    <3> QED BY <1>2, <3>3, <3>5, <3>6
  <2>7. CASE TakeMessage(e)
    <3>1. /\ Head(tasks).kind \in {"topic", "out"} /\ UNCHANGED rpcVars
          /\ (Goto(e, "broker") \/ Goto(e, "out"))
      BY <2>7 DEF TakeMessage
    <3>2. Head(tasks) \in Messages BY <2>3, <3>1, TaskFacts
    <3>3. RpcKept BY <1>3, <3>1
    <3>4. /\ pc' \in [Threads -> PcStates] /\ pc'[e] \in {"broker", "out"}
          /\ \A u \in Threads : u # e => pc'[u] = pc[u]
      BY <1>5, <1>11, <2>1, <3>1
    <3>5. CarryInv' BY <2>1, <2>5, <3>2, <3>3, <3>4, CarryStep DEF RpcKept
    <3>6. MapTypes' /\ ThreadTypes' /\ OtherTypes'
      BY <1>1, <1>4, <2>3, <2>4, <2>5, <3>4 DEF ThreadTypes, OtherTypes
    <3> QED BY <1>2, <3>3, <3>5, <3>6
  <2> QED BY <1>25, <2>6, <2>7
<1>26. ASSUME NEW e \in Executors, Broker(e) \/ Deliver(e) PROVE TypeInv'
  <2>1. e \in Threads BY ThreadFacts
  <2>2. pc[e] \in {"broker", "out"} BY <1>26 DEF Broker, Deliver
  <2>3. job[e].values \in SUBSET Responses BY <1>1, <2>1, <2>2, TaskFacts DEF CarryInv
  <2>4. OutTask(job[e].values) \in Tasks BY <2>3, TaskFacts
  <2>5. /\ job' = [job EXCEPT ![e] = NoJob] /\ Goto(e, "idle")
        /\ UNCHANGED <<rpcVars, conn, sent, mapVars>>
    BY <1>26 DEF Broker, Deliver
  <2>6. \/ tasks' = Append(tasks, OutTask(job[e].values)) /\ shown' = shown
        \/ tasks' = tasks /\ shown' = job[e].values
    BY <1>26 DEF Broker, Deliver
  <2>7. tasks' \in Seq(Tasks) /\ shown' \subseteq Responses
    BY <1>1, <1>7, <2>3, <2>4, <2>6 DEF OtherTypes
  <2>8. /\ job' \in [Threads -> Tasks \cup {NoJob}]
        /\ \A u \in Threads : u # e => job'[u] = job[u]
    BY <1>6, <1>12, <2>1, <2>5
  <2>9. /\ pc' \in [Threads -> PcStates] /\ pc'[e] = "idle"
        /\ \A u \in Threads : u # e => pc'[u] = pc[u]
    BY <1>5, <1>11, <2>1, <2>5
  <2>10. RpcKept BY <1>3, <2>5
  <2>11. CarryInv' BY <2>1, <2>8, <2>9, <2>10, CarryStep DEF RpcKept
  <2>12. MapTypes' /\ ThreadTypes' /\ OtherTypes'
    BY <1>1, <1>4, <2>5, <2>7, <2>8, <2>9 DEF ThreadTypes, OtherTypes
  <2> QED BY <1>2, <2>10, <2>11, <2>12
<1>27. ASSUME NEW t \in Threads, Throw(t) \/ Return(t), UNCHANGED <<rpcVars, sent, shown>>,
              tasks' \in Seq(Tasks), MapTypes'
       PROVE  TypeInv'
  <2>1. /\ ThreadTypes' /\ \A u \in Threads : u # t => pc'[u] = pc[u] /\ job'[u] = job[u]
        /\ pc'[t] \in {"idle", "remove", "next", "done"}
    <3>1. /\ pc' \in [Threads -> PcStates] /\ conn' \in [Sessions -> {"open", "ending", "ended"}]
          /\ job' \in [Threads -> Tasks \cup {NoJob}]
          /\ \A u \in Threads : u # t => pc'[u] = pc[u] /\ job'[u] = job[u]
      BY <1>27, ReturnFacts DEF TypeInv
    <3>2. /\ t \in Executors => pc'[t] = "idle"
          /\ t \in Sessions /\ conn[t] = "open" => pc'[t] \in {"remove", "next"}
          /\ t \in Sessions /\ conn[t] # "open" => pc'[t] = "done"
      BY <1>27, ReturnFacts DEF TypeInv
    <3> QED BY <3>1, <3>2 DEF ThreadTypes, Threads
  <2>2. RpcKept BY <1>3, <1>27
  <2>3. CarryInv' BY <2>1, <2>2, CarryStep DEF RpcKept
  <2>4. OtherTypes' BY <1>1, <1>27 DEF OtherTypes
  <2> QED BY <1>2, <1>27, <2>1, <2>2, <2>3, <2>4
<1>28. ASSUME NEW t \in Threads, Goto(t, "iterate"), UNCHANGED <<rpcVars, conn, sent, tasks, job, shown>>,
              MapTypes'
       PROVE  TypeInv'
  <2>1. /\ pc' \in [Threads -> PcStates] /\ pc'[t] = "iterate"
        /\ \A u \in Threads : u # t => pc'[u] = pc[u]
    BY <1>5, <1>11, <1>28
  <2>2. RpcKept BY <1>3, <1>28
  <2>3. CarryInv' BY <1>28, <2>1, <2>2, CarryStep DEF RpcKept
  <2>4. ThreadTypes' /\ OtherTypes' BY <1>1, <1>28, <2>1 DEF ThreadTypes, OtherTypes
  <2> QED BY <1>2, <1>28, <2>2, <2>3, <2>4
<1>29. ASSUME NEW t \in Threads, BeginIteration(t, store'), store' \subseteq EntryRecords
       PROVE  iter' \in [Threads -> Iterations]
  BY <1>29, MapFacts DEF Iterations, TypeInv
<1>30. ASSUME NEW t \in HttpSessions \cup Executors, OnCoinResponse(t) PROVE TypeInv'
  <2>1. t \in Threads BY ThreadFacts
  <2>2. CASE GatewayTimesOut(t)
    <3>1. (Throw(t) \/ Return(t)) /\ UNCHANGED <<rpcVars, sent, tasks, mapVars, shown>>
      BY <2>2 DEF GatewayTimesOut
    <3>2. tasks' \in Seq(Tasks) /\ MapTypes' BY <1>1, <1>4, <3>1 DEF OtherTypes
    <3> QED BY <1>27, <2>1, <3>1, <3>2
  <2>3. CASE PutReplaces(t)
    <3>1. /\ pc[t] = "rpc" /\ call[job[t].frame] = "answered" /\ BeginIteration(t, store')
          /\ Goto(t, "iterate") /\ UNCHANGED <<rpcVars, conn, sent, tasks, job, raced, stale, shown>>
      BY <2>3 DEF PutReplaces, GatewayReplied
    <3>2. NewEntry(t) \in EntryRecords BY <2>1, <3>1, EntryFacts
    <3>3. PICK e \in store : store' = (store \ {e}) \cup {NewEntry(t)}
      BY <2>3 DEF PutReplaces, EntriesOf
    <3>4. store' \subseteq EntryRecords BY <1>1, <3>2, <3>3 DEF MapTypes
    <3>5. MapTypes' BY <1>1, <1>29, <2>1, <3>1, <3>4 DEF MapTypes
    <3> QED BY <1>28, <2>1, <3>1, <3>5
  <2>4. CASE PutStartsInsert(t)
    <3>1. /\ pc[t] = "rpc" /\ call[job[t].frame] = "answered" /\ StartWriting(t)
          /\ Goto(t, "inserting")
          /\ UNCHANGED <<rpcVars, conn, sent, tasks, job, store, iter, stale, shown>>
      BY <2>4 DEF PutStartsInsert, GatewayReplied
    <3>2. raced' \subseteq Threads BY <2>1, <3>1, MapFacts DEF TypeInv
    <3>3. MapTypes' BY <1>1, <3>1, <3>2 DEF MapTypes
    <3>4. /\ pc' \in [Threads -> PcStates] /\ pc'[t] = "inserting"
          /\ \A u \in Threads : u # t => pc'[u] = pc[u]
      BY <1>5, <1>11, <2>1, <3>1
    <3>5. RpcKept BY <1>3, <3>1
    <3>6. job[t] \in FrameTasks BY <1>1, <2>1, <3>1 DEF CarryInv
    <3>7. job' = job /\ call' = call BY <3>1 DEF rpcVars
    <3>8. CarryInv' BY <2>1, <3>1, <3>4, <3>5, <3>6, <3>7, CarryStep DEF RpcKept
    <3>9. ThreadTypes' /\ OtherTypes' BY <1>1, <3>1, <3>4 DEF ThreadTypes, OtherTypes
    <3> QED BY <1>2, <3>3, <3>5, <3>8, <3>9
  <2>5. CASE PutEndsInsert(t)
    <3>1. /\ pc[t] = "inserting" /\ StopWriting(t) /\ BeginIteration(t, store')
          /\ Goto(t, "iterate") /\ UNCHANGED <<rpcVars, conn, sent, tasks, job, shown>>
      BY <2>5 DEF PutEndsInsert
    <3>2. call[job[t].frame] = "answered" BY <1>1, <2>1, <3>1 DEF CarryInv
    <3>3. NewEntry(t) \in EntryRecords BY <2>1, <3>1, <3>2, EntryFacts
    <3>4. store' = store \cup {NewEntry(t)} \/ store' = store BY <2>5 DEF PutEndsInsert
    <3>5. store' \subseteq EntryRecords BY <1>1, <3>3, <3>4 DEF MapTypes
    <3>6. raced' \subseteq Threads /\ stale' \subseteq Threads BY <2>1, <3>1, MapFacts DEF TypeInv
    <3>7. MapTypes' BY <1>29, <2>1, <3>1, <3>5, <3>6 DEF MapTypes
    <3> QED BY <1>28, <2>1, <3>1, <3>7
  <2> QED BY <1>30, <2>2, <2>3, <2>4, <2>5 DEF OnCoinResponse
<1>31. ASSUME NEW s \in Sessions, SessionEnded(s) PROVE TypeInv'
  <2>1. s \in Threads BY ThreadFacts
  <2>2. CASE RemoveFindsNothing(s)
    <3>1. /\ BeginIteration(s, store) /\ Goto(s, "iterate")
          /\ UNCHANGED <<rpcVars, conn, sent, tasks, job, store, raced, stale, shown>>
      BY <2>2 DEF RemoveFindsNothing
    <3>2. MapTypes' BY <1>1, <2>1, <3>1, MapFacts DEF MapTypes, Iterations, TypeInv
    <3> QED BY <1>28, <2>1, <3>1, <3>2
  <2>3. CASE RemoveStarts(s)
    <3>1. /\ StartWriting(s) /\ Goto(s, "removing")
          /\ UNCHANGED <<rpcVars, conn, sent, tasks, job, store, iter, stale, shown>>
      BY <2>3 DEF RemoveStarts
    <3>2. raced' \subseteq Threads BY <2>1, <3>1, MapFacts DEF TypeInv
    <3>3. MapTypes' BY <1>1, <3>1, <3>2 DEF MapTypes
    <3>4. /\ pc' \in [Threads -> PcStates] /\ pc'[s] = "removing"
          /\ \A u \in Threads : u # s => pc'[u] = pc[u]
      BY <1>5, <1>11, <2>1, <3>1
    <3>5. RpcKept BY <1>3, <3>1
    <3>6. CarryInv' BY <2>1, <3>1, <3>4, <3>5, CarryStep DEF RpcKept
    <3>7. ThreadTypes' /\ OtherTypes' BY <1>1, <3>1, <3>4 DEF ThreadTypes, OtherTypes
    <3> QED BY <1>2, <3>3, <3>5, <3>6, <3>7
  <2>4. CASE RemoveEnds(s)
    <3>1. /\ StopWriting(s) /\ BeginIteration(s, store') /\ Goto(s, "iterate")
          /\ UNCHANGED <<rpcVars, conn, sent, tasks, job, shown>>
      BY <2>4 DEF RemoveEnds
    <3>2. store' \subseteq EntryRecords BY <1>1, <2>4 DEF RemoveEnds, MapTypes
    <3>3. raced' \subseteq Threads /\ stale' \subseteq Threads BY <2>1, <3>1, MapFacts DEF TypeInv
    <3>4. MapTypes' BY <1>29, <2>1, <3>1, <3>2, <3>3 DEF MapTypes
    <3> QED BY <1>28, <2>1, <3>1, <3>4
  <2> QED BY <1>31, <2>2, <2>3, <2>4 DEF SessionEnded
<1>32. ASSUME NEW t \in Threads, Iteration(t) PROVE TypeInv'
  <2>1. iter \in [Threads -> Iterations] BY <1>1 DEF MapTypes
  <2>2. PICK L \in SUBSET Sessions, V \in SUBSET Responses : iter[t] = [left |-> L, values |-> V]
    BY <2>1 DEF Iterations
  <2>3. CASE Visit(t)
    <3>1. UNCHANGED <<rpcVars, conn, sent, tasks, pc, job, store, raced, stale, shown>>
      BY <2>3 DEF Visit
    <3>2. PICK s \in iter[t].left : iter' = [iter EXCEPT ![t].left = @ \ {s},
                                                        ![t].values = @ \cup Values(EntriesOf(s))]
      BY <2>3 DEF Visit
    <3>3. Values(EntriesOf(s)) \in SUBSET Responses
      BY <1>1 DEF Values, EntriesOf, MapTypes, EntryRecords
    <3>4. PICK W \in SUBSET Responses : W = V \cup Values(EntriesOf(s)) BY <3>3
    <3>5. iter' = [iter EXCEPT ![t].left = L \ {s}, ![t].values = W]
      BY <2>2, <3>2, <3>4
    <3>6. iter' \in [Threads -> Iterations] BY <2>1, <2>2, <3>5 DEF Iterations
    <3>7. MapTypes' BY <1>1, <3>1, <3>6 DEF MapTypes
    <3>8. RpcKept /\ ThreadTypes' /\ OtherTypes'
      BY <1>1, <1>3, <3>1 DEF ThreadTypes, OtherTypes
    <3> QED BY <1>2, <1>8, <3>1, <3>7, <3>8
  <2>4. ASSUME StopIterating(t), UNCHANGED <<store, raced>> PROVE MapTypes'
    BY <1>1, <2>4, MapFacts DEF MapTypes, Iterations, TypeInv
  <2>5. CASE VisitThrows(t)
    <3>1. StopIterating(t) /\ Throw(t) /\ UNCHANGED <<rpcVars, sent, tasks, store, raced, shown>>
      BY <2>5 DEF VisitThrows
    <3>2. tasks' \in Seq(Tasks) BY <1>1, <3>1 DEF OtherTypes
    <3> QED BY <1>27, <2>4, <3>1, <3>2
  <2>6. CASE SendSessions(t)
    <3>1. /\ tasks' = Append(tasks, TopicTask(iter[t].values)) /\ StopIterating(t) /\ Return(t)
          /\ UNCHANGED <<rpcVars, sent, store, raced, shown>>
      BY <2>6 DEF SendSessions
    <3>2. TopicTask(iter[t].values) \in Tasks BY <2>2, TaskFacts
    <3>3. tasks' \in Seq(Tasks) BY <1>7, <3>1, <3>2
    <3> QED BY <1>27, <2>4, <3>1, <3>3
  <2> QED BY <1>32, <2>3, <2>5, <2>6 DEF Iteration
<1>33. CASE \E s \in WsSessions : handleMessage(s) \/ afterConnectionClosed(s)
  BY <1>22, <1>23, <1>33, ThreadFacts
<1>34. CASE \E s \in HttpSessions : HttpStart(s) \/ HttpNextChunk(s) \/ HttpStreamEnds(s)
  BY <1>23, <1>24, <1>34, ThreadFacts
<1>35. CASE \E e \in Executors : TakeFrame(e) \/ TakeMessage(e) \/ Broker(e) \/ Deliver(e)
  BY <1>25, <1>26, <1>35
<1> QED BY <1>20, <1>21, <1>30, <1>31, <1>32, <1>33, <1>34, <1>35, StepCases

\* The state of the web application keeps its types, whatever the threads do to each other;
\* an answered call keeps the reply to its own frame.
THEOREM TypeCorrect == Spec => []TypeOK
<1>1. TypeInv => TypeOK BY DEF TypeInv
<1> QED BY TypeInit, TypeStep, <1>1, PTL DEF Spec

-----------------------------------------------------------------------------
(* Who can still store a response for an HTTP session.                      *)

\* Where the threads can be: an executor thread carries frames of WebSocket sessions only,
\* the thread of a WebSocket session, which runs only once its socket is closed, none at all,
\* and the thread of an HTTP request the frame it read last, and only as long as its session
\* is open.
ThreadInv ==
    /\ \A e \in Executors :
         /\ pc[e] \in {"idle", "rpc", "inserting", "iterate", "broker", "out"}
         /\ pc[e] \in {"rpc", "inserting"} => job[e].frame[1] \in WsSessions
    /\ \A s \in WsSessions :
         /\ pc[s] \in {"idle", "remove", "removing", "iterate", "done"}
         /\ pc[s] # "idle" => conn[s] # "open"
    /\ \A s \in HttpSessions :
         /\ pc[s] \in {"idle", "next", "rpc", "inserting", "remove", "removing", "iterate", "done"}
         /\ pc[s] \in {"idle", "next", "rpc", "inserting"} => conn[s] = "open"
         /\ pc[s] \in {"rpc", "inserting"} => job[s].frame = <<s, sent[s]>>

\* The frames waiting for an executor thread came over WebSockets.
QueueInv ==
    \A i \in 1..Len(tasks) : tasks[i].kind = "frame" => tasks[i].frame[1] \in WsSessions

BusyInv == ThreadInv /\ QueueInv

\* At first every thread is idle and no task waits.
LEMMA BusyInit == Init => BusyInv
<1> SUFFICES ASSUME Init PROVE BusyInv
  OBVIOUS
<1>1. \A t \in Threads : pc[t] = "idle" BY DEF Init
<1>2. \A s \in Sessions : conn[s] = "open" BY DEF Init
<1>3. ThreadInv BY <1>1, <1>2, ThreadFacts DEF ThreadInv
<1>4. QueueInv BY DEF Init, QueueInv
<1> QED BY <1>3, <1>4 DEF BusyInv

\* Every step keeps the frames apart that threads and queues carry.
LEMMA BusyStep == TypeInv /\ BusyInv /\ [Next]_vars => BusyInv'
<1> SUFFICES ASSUME TypeInv, BusyInv, [Next]_vars PROVE BusyInv'
  OBVIOUS
<1> DEFINE ExecutorAt(e) ==
             /\ pc[e] \in {"idle", "rpc", "inserting", "iterate", "broker", "out"}
             /\ pc[e] \in {"rpc", "inserting"} => job[e].frame[1] \in WsSessions
           WsAt(s) == /\ pc[s] \in {"idle", "remove", "removing", "iterate", "done"}
                      /\ pc[s] # "idle" => conn[s] # "open"
           HttpAt(s) ==
             /\ pc[s] \in {"idle", "next", "rpc", "inserting", "remove", "removing", "iterate", "done"}
             /\ pc[s] \in {"idle", "next", "rpc", "inserting"} => conn[s] = "open"
             /\ pc[s] \in {"rpc", "inserting"} => job[s].frame = <<s, sent[s]>>
           At(t) == /\ t \in Executors => ExecutorAt(t)
                    /\ t \in WsSessions => WsAt(t)
                    /\ t \in HttpSessions => HttpAt(t)
<1>1. /\ conn \in [Sessions -> {"open", "ending", "ended"}] /\ sent \in [Sessions -> Nat]
      /\ tasks \in Seq(Tasks) /\ pc \in [Threads -> PcStates]
      /\ job \in [Threads -> Tasks \cup {NoJob}] /\ CarryInv
  BY DEF TypeInv, TypeOK
<1>2. \A t \in Threads : At(t) BY DEF BusyInv, ThreadInv
<1>3. QueueInv BY DEF BusyInv
<1>4. ASSUME \A t \in Threads : At(t)', QueueInv' PROVE BusyInv'
  <2>1. ThreadInv' BY <1>4, ThreadFacts DEF ThreadInv
  <2> QED BY <1>4, <2>1 DEF BusyInv
<1>5. ASSUME NEW t \in Threads, pc'[t] = pc[t], job'[t] = job[t],
             t \in Sessions => conn'[t] = conn[t] /\ sent'[t] = sent[t]
      PROVE  At(t)'
  BY <1>2, <1>5, ThreadFacts
<1>6. ASSUME NEW t \in Threads, NEW l \in PcStates, Goto(t, l)
      PROVE  pc'[t] = l /\ \A u \in Threads : u # t => pc'[u] = pc[u]
  BY <1>1, <1>6 DEF Goto
<1>7. ASSUME NEW t \in Threads, NEW j, job' = [job EXCEPT ![t] = j]
      PROVE  job'[t] = j /\ \A u \in Threads : u # t => job'[u] = job[u]
  BY <1>1, <1>7
<1>8. ASSUME NEW x \in Tasks, tasks' = Append(tasks, x),
             x.kind = "frame" => x.frame[1] \in WsSessions
      PROVE  QueueInv'
  <2>1. /\ Len(tasks') = Len(tasks) + 1 /\ tasks'[Len(tasks) + 1] = x
        /\ \A i \in 1..Len(tasks) : tasks'[i] = tasks[i]
    BY <1>1, <1>8, AppendProperties
  <2>2. Len(tasks) \in Nat BY <1>1
  <2>3. \A i \in 1..Len(tasks') : i \in 1..Len(tasks) \/ i = Len(tasks) + 1 BY <2>1, <2>2
  <2> QED BY <1>3, <1>8, <2>1, <2>3 DEF QueueInv
<1>9. tasks' = tasks => QueueInv' BY <1>3 DEF QueueInv
<1>10. {"idle", "next", "rpc", "inserting", "remove", "removing", "iterate", "broker", "out", "done"}
          = PcStates
  BY DEF PcStates
<1> HIDE DEF At
<1>20. CASE UNCHANGED vars
  <2>1. UNCHANGED <<conn, sent, tasks, pc, job>> BY <1>20 DEF vars
  <2> QED BY <1>4, <1>5, <1>9, <2>1
<1>21. ASSUME NEW f \in Frames, RpcStep(f) PROVE BusyInv'
  <2>1. UNCHANGED <<conn, sent, tasks, pc, job>> BY <1>21 DEF RpcStep
  <2> QED BY <1>4, <1>5, <1>9, <2>1
<1>22. ASSUME NEW s \in WsSessions, handleMessage(s) PROVE BusyInv'
  <2> DEFINE f == <<s, sent[s] + 1>>
  <2>1. /\ s \in Sessions /\ s \in Threads /\ sent[s] < MaxFrames[s]
        /\ sent' = [sent EXCEPT ![s] = @ + 1] /\ tasks' = Append(tasks, FrameTask(f))
        /\ UNCHANGED <<conn, pc, job>>
    BY <1>22, ThreadFacts DEF handleMessage
  <2>2. f \in Frames BY <1>1, <2>1, FrameFacts
  <2>3. FrameTask(f) \in Tasks /\ FrameTask(f).frame[1] = s
    BY <2>2 DEF Tasks, FrameTask
  <2>4. QueueInv' BY <1>8, <2>1, <2>3
  <2>5. \A u \in Sessions : u # s => sent'[u] = sent[u] BY <1>1, <2>1
  <2>6. At(s)' BY <1>2, <2>1, ThreadFacts DEF At
  <2>7. \A u \in Threads : u # s => At(u)' BY <1>5, <2>1, <2>5
  <2> QED BY <1>4, <2>4, <2>6, <2>7
<1>23. ASSUME NEW s \in WsSessions, afterConnectionClosed(s) PROVE BusyInv'
  <2>1. /\ s \in Sessions /\ s \in Threads /\ Goto(s, "remove")
        /\ conn' = [conn EXCEPT ![s] = "ending"] /\ UNCHANGED <<sent, tasks, job>>
    BY <1>23, ThreadFacts DEF afterConnectionClosed
  <2>2. pc'[s] = "remove" /\ \A u \in Threads : u # s => pc'[u] = pc[u] BY <1>6, <1>10, <2>1
  <2>3. \A u \in Sessions : u # s => conn'[u] = conn[u] BY <1>1, <2>1
  <2>4. conn'[s] = "ending" BY <1>1, <2>1
  <2>5. At(s)' BY <2>2, <2>4, ThreadFacts DEF At
  <2>6. \A u \in Threads : u # s => At(u)' BY <1>5, <2>1, <2>2, <2>3
  <2> QED BY <1>4, <1>9, <2>1, <2>5, <2>6
<1>24. ASSUME NEW s \in HttpSessions, HttpStart(s) \/ HttpStreamEnds(s) PROVE BusyInv'
  <2>1. s \in Sessions /\ s \in Threads /\ UNCHANGED <<sent, tasks, job>>
    BY <1>24, ThreadFacts DEF HttpStart, HttpStreamEnds
  <2>2. \/ pc[s] = "idle" /\ Goto(s, "next") /\ conn' = conn
        \/ Goto(s, "remove") /\ conn' = [conn EXCEPT ![s] = "ending"]
    BY <1>24 DEF HttpStart, HttpStreamEnds
  <2>3. \A u \in Threads : u # s => pc'[u] = pc[u] BY <1>6, <1>10, <2>1, <2>2
  <2>4. \/ pc[s] = "idle" /\ pc'[s] = "next" /\ conn'[s] = conn[s]
        \/ pc'[s] = "remove"
    BY <1>6, <1>10, <2>1, <2>2
  <2>5. \A u \in Sessions : u # s => conn'[u] = conn[u] BY <1>1, <2>2
  <2>6. At(s)' BY <1>2, <2>1, <2>4, ThreadFacts DEF At
  <2>7. \A u \in Threads : u # s => At(u)' BY <1>5, <2>1, <2>3, <2>5
  <2> QED BY <1>4, <1>9, <2>1, <2>6, <2>7
<1>25. ASSUME NEW s \in HttpSessions, HttpNextChunk(s) PROVE BusyInv'
  <2> DEFINE f == <<s, sent[s] + 1>>
  <2>1. /\ s \in Sessions /\ s \in Threads /\ pc[s] = "next"
        /\ sent' = [sent EXCEPT ![s] = @ + 1] /\ job' = [job EXCEPT ![s] = FrameTask(f)]
        /\ Goto(s, "rpc") /\ UNCHANGED <<conn, tasks>>
    BY <1>25, ThreadFacts DEF HttpNextChunk
  <2>2. pc'[s] = "rpc" /\ \A u \in Threads : u # s => pc'[u] = pc[u] BY <1>6, <1>10, <2>1
  <2>3. job'[s] = FrameTask(f) /\ \A u \in Threads : u # s => job'[u] = job[u] BY <1>7, <2>1
  <2>4. sent'[s] = sent[s] + 1 /\ \A u \in Sessions : u # s => sent'[u] = sent[u] BY <1>1, <2>1
  <2>5. job'[s].frame = <<s, sent'[s]>> BY <2>3, <2>4 DEF FrameTask
  <2>6. conn'[s] = "open" BY <1>2, <2>1 DEF At
  <2>7. At(s)' BY <2>2, <2>5, <2>6, ThreadFacts DEF At
  <2>8. \A u \in Threads : u # s => At(u)' BY <1>5, <2>1, <2>2, <2>3, <2>4
  <2> QED BY <1>4, <1>9, <2>1, <2>7, <2>8
<1>26. ASSUME NEW e \in Executors, TakeFrame(e) \/ TakeMessage(e) PROVE BusyInv'
  <2>1. /\ e \in Threads /\ tasks # <<>> /\ tasks' = Tail(tasks)
        /\ job' = [job EXCEPT ![e] = Head(tasks)] /\ UNCHANGED <<conn, sent>>
    BY <1>26, ThreadFacts DEF TakeFrame, TakeMessage
  <2>2. /\ Len(tasks') = Len(tasks) - 1 /\ \A i \in 1..Len(tasks') : tasks'[i] = tasks[i + 1]
    BY <1>1, <2>1, HeadTailProperties
  <2>3. Len(tasks) \in Nat /\ \A i \in 1..Len(tasks') : i + 1 \in 1..Len(tasks)
    BY <1>1, <2>2
  <2>4. QueueInv' BY <1>3, <2>2, <2>3 DEF QueueInv
  <2>5. Head(tasks) = tasks[1] /\ 1 \in 1..Len(tasks) BY <1>1, <2>1, <2>3
  <2>6. Head(tasks).kind = "frame" => Head(tasks).frame[1] \in WsSessions
    BY <1>3, <2>5 DEF QueueInv
  <2>7. job'[e] = Head(tasks) /\ \A u \in Threads : u # e => job'[u] = job[u] BY <1>7, <2>1
  <2>8. \/ Head(tasks).kind = "frame" /\ Goto(e, "rpc")
        \/ Goto(e, "broker") \/ Goto(e, "out")
    BY <1>26 DEF TakeFrame, TakeMessage
  <2>9. \A u \in Threads : u # e => pc'[u] = pc[u] BY <1>6, <1>10, <2>1, <2>8
  <2>10. (Head(tasks).kind = "frame" /\ pc'[e] = "rpc") \/ pc'[e] \in {"broker", "out"}
    BY <1>6, <1>10, <2>1, <2>8
  <2>11. At(e)' BY <2>6, <2>7, <2>10, ThreadFacts DEF At
  <2>12. \A u \in Threads : u # e => At(u)' BY <1>5, <2>1, <2>7, <2>9
  <2> QED BY <1>4, <2>4, <2>11, <2>12
<1>27. ASSUME NEW e \in Executors, Broker(e) \/ Deliver(e) PROVE BusyInv'
  <2>1. /\ e \in Threads /\ job' = [job EXCEPT ![e] = NoJob] /\ Goto(e, "idle")
        /\ UNCHANGED <<conn, sent>>
    BY <1>27, ThreadFacts DEF Broker, Deliver
  <2>2. pc[e] \in {"broker", "out"} BY <1>27 DEF Broker, Deliver
  <2>3. OutTask(job[e].values) \in Tasks /\ OutTask(job[e].values).kind # "frame"
    BY <1>1, <2>1, <2>2, TaskFacts DEF CarryInv, OutTask
  <2>4. tasks' = Append(tasks, OutTask(job[e].values)) \/ tasks' = tasks
    BY <1>27 DEF Broker, Deliver
  <2>5. QueueInv' BY <1>8, <1>9, <2>3, <2>4
  <2>6. pc'[e] = "idle" /\ \A u \in Threads : u # e => pc'[u] = pc[u] BY <1>6, <1>10, <2>1
  <2>7. \A u \in Threads : u # e => job'[u] = job[u] BY <1>7, <2>1
  <2>8. At(e)' BY <2>6, ThreadFacts DEF At
  <2>9. \A u \in Threads : u # e => At(u)' BY <1>5, <2>1, <2>6, <2>7
  <2> QED BY <1>4, <2>5, <2>8, <2>9
<1>28. ASSUME NEW t \in Threads, Throw(t) \/ Return(t), sent' = sent, QueueInv',
              t \in WsSessions => pc[t] # "idle"
       PROVE  BusyInv'
  <2>1. /\ \A u \in Threads : u # t => pc'[u] = pc[u] /\ job'[u] = job[u]
        /\ \A s \in Sessions : s # t => conn'[s] = conn[s]
        /\ t \in Executors => pc'[t] = "idle"
        /\ t \in Sessions /\ conn[t] = "open" =>
             (pc'[t] = "remove" /\ conn'[t] = "ending") \/ (pc'[t] = "next" /\ conn'[t] = "open")
        /\ t \in Sessions /\ conn[t] # "open" => pc'[t] = "done" /\ conn'[t] = "ended"
    BY <1>28, ReturnFacts DEF TypeInv
  <2>2. t \in WsSessions => conn[t] # "open" BY <1>2, <1>28 DEF At
  <2>3. t \in Executors \/ t \in WsSessions \/ t \in HttpSessions BY DEF Threads, Sessions
  <2>4. At(t)' BY <2>1, <2>2, <2>3, ThreadFacts DEF At
  <2>5. \A u \in Threads : u # t => At(u)' BY <1>5, <1>28, <2>1
  <2> QED BY <1>4, <1>28, <2>4, <2>5
<1>29. ASSUME NEW t \in Threads, NEW l \in {"inserting", "removing", "iterate"}, Goto(t, l),
              UNCHANGED <<conn, sent, tasks, job>>,
              l = "inserting" => pc[t] = "rpc",
              l = "removing" => pc[t] = "remove",
              t \in WsSessions => pc[t] # "idle"
       PROVE  BusyInv'
  <2>1. pc'[t] = l /\ \A u \in Threads : u # t => pc'[u] = pc[u] BY <1>6, <1>10, <1>29
  <2>2. At(t) BY <1>2
  <2>3. ASSUME t \in Executors PROVE At(t)'
    <3>1. l # "removing" BY <1>29, <2>2, <2>3 DEF At
    <3> QED BY <1>29, <2>1, <2>2, <2>3, <3>1, ThreadFacts DEF At
  <2>4. ASSUME t \in WsSessions PROVE At(t)'
    <3>1. l # "inserting" BY <1>29, <2>2, <2>4 DEF At
    <3> QED BY <1>29, <2>1, <2>2, <2>4, <3>1, ThreadFacts DEF At
  <2>5. ASSUME t \in HttpSessions PROVE At(t)' BY <1>29, <2>1, <2>2, <2>5, ThreadFacts DEF At
  <2>6. At(t)' BY <2>3, <2>4, <2>5 DEF Threads, Sessions
  <2>7. \A u \in Threads : u # t => At(u)' BY <1>5, <1>29, <2>1
  <2> QED BY <1>4, <1>9, <1>29, <2>6, <2>7
<1>30. ASSUME NEW t \in HttpSessions \cup Executors, OnCoinResponse(t) PROVE BusyInv'
  <2>1. t \in Threads /\ t \notin WsSessions BY ThreadFacts
  <2>2. CASE GatewayTimesOut(t)
    <3>1. (Throw(t) \/ Return(t)) /\ UNCHANGED <<sent, tasks>> BY <2>2 DEF GatewayTimesOut
    <3> QED BY <1>9, <1>28, <2>1, <3>1
  <2>3. CASE PutReplaces(t) \/ PutEndsInsert(t)
    <3>1. Goto(t, "iterate") /\ UNCHANGED <<conn, sent, tasks, job>>
      BY <2>3 DEF PutReplaces, PutEndsInsert
    <3> QED BY <1>29, <2>1, <3>1
  <2>4. CASE PutStartsInsert(t)
    <3>1. pc[t] = "rpc" /\ Goto(t, "inserting") /\ UNCHANGED <<conn, sent, tasks, job>>
      BY <2>4 DEF PutStartsInsert, GatewayReplied
    <3> QED BY <1>29, <2>1, <3>1
  <2> QED BY <1>30, <2>2, <2>3, <2>4 DEF OnCoinResponse
<1>31. ASSUME NEW s \in Sessions, SessionEnded(s) PROVE BusyInv'
  <2>1. s \in Threads /\ pc[s] \in {"remove", "removing"} /\ UNCHANGED <<conn, sent, tasks, job>>
    BY <1>31, ThreadFacts DEF SessionEnded, RemoveFindsNothing, RemoveStarts, RemoveEnds
  <2>2. Goto(s, "iterate") \/ (pc[s] = "remove" /\ Goto(s, "removing"))
    BY <1>31 DEF SessionEnded, RemoveFindsNothing, RemoveStarts, RemoveEnds
  <2> QED BY <1>29, <2>1, <2>2
<1>32. ASSUME NEW t \in Threads, Iteration(t) PROVE BusyInv'
  <2>1. pc[t] = "iterate" BY <1>32 DEF Iteration, Visit, VisitThrows, SendSessions
  <2>2. CASE Visit(t)
    <3>1. UNCHANGED <<conn, sent, tasks, pc, job>> BY <2>2 DEF Visit
    <3> QED BY <1>4, <1>5, <1>9, <3>1
  <2>3. CASE VisitThrows(t)
    <3>1. Throw(t) /\ UNCHANGED <<sent, tasks>> BY <2>3 DEF VisitThrows
    <3> QED BY <1>9, <1>28, <2>1, <3>1
  <2>4. CASE SendSessions(t)
    <3>1. Return(t) /\ sent' = sent /\ tasks' = Append(tasks, TopicTask(iter[t].values))
      BY <2>4 DEF SendSessions
    <3>2. iter[t].values \in SUBSET Responses BY DEF TypeInv, TypeOK
    <3>3. TopicTask(iter[t].values) \in Tasks /\ TopicTask(iter[t].values).kind # "frame"
      BY <3>2, TaskFacts DEF TopicTask
    <3>4. QueueInv' BY <1>8, <3>1, <3>3
    <3> QED BY <1>28, <2>1, <3>1, <3>4
  <2> QED BY <1>32, <2>2, <2>3, <2>4 DEF Iteration
<1>33. CASE \E s \in WsSessions : handleMessage(s) \/ afterConnectionClosed(s)
  BY <1>22, <1>23, <1>33
<1>34. CASE \E s \in HttpSessions : HttpStart(s) \/ HttpNextChunk(s) \/ HttpStreamEnds(s)
  BY <1>24, <1>25, <1>34
<1>35. CASE \E e \in Executors : TakeFrame(e) \/ TakeMessage(e) \/ Broker(e) \/ Deliver(e)
  BY <1>26, <1>27, <1>35
<1> QED BY <1>20, <1>21, <1>30, <1>31, <1>32, <1>33, <1>34, <1>35, StepCases

\* Once foo or bar has called sessionEnded, no thread holds a frame of that session and none
\* waits in the queue of asyncExecutor: nothing can store a response for it any more.
THEOREM HttpEndHolds == Spec => []HttpEndIsFinal
<1>1. ASSUME TypeInv, BusyInv PROVE HttpEndIsFinal
  <2> SUFFICES ASSUME NEW s \in HttpSessions, conn[s] # "open", NEW n \in 1..MaxFrames[s],
                      Busy(<<s, n>>)
               PROVE  FALSE
    BY DEF HttpEndIsFinal
  <2> DEFINE f == <<s, n>>
  <2>1. f[1] = s /\ s \notin WsSessions BY ThreadFacts
  <2>2. CASE FrameTask(f) \in ToSet(tasks)
    <3>1. tasks \in Seq(Tasks) BY <1>1 DEF TypeInv, TypeOK
    <3>2. PICK i \in 1..Len(tasks) : tasks[i] = FrameTask(f) BY <2>2, <3>1 DEF ToSet
    <3>3. tasks[i].kind = "frame" /\ tasks[i].frame = f BY <3>2 DEF FrameTask
    <3> QED BY <1>1, <2>1, <3>3 DEF BusyInv, QueueInv
  <2>3. ASSUME NEW t \in Threads, Carries(t, f) PROVE FALSE
    <3>1. pc[t] \in {"rpc", "inserting"} /\ job[t].frame = f BY <2>3 DEF Carries
    <3>2. CASE t \in Executors BY <1>1, <2>1, <3>1, <3>2 DEF BusyInv, ThreadInv
    <3>3. CASE t \in WsSessions BY <1>1, <3>1, <3>3 DEF BusyInv, ThreadInv
    <3>4. CASE t \in HttpSessions
      <4>1. conn[t] = "open" /\ f = <<t, sent[t]>> BY <1>1, <3>1, <3>4 DEF BusyInv, ThreadInv
      <4>2. t = s BY <4>1
      <4> QED BY <4>1, <4>2
    <3> QED BY <3>2, <3>3, <3>4 DEF Threads, Sessions
  <2> QED BY <2>2, <2>3 DEF Busy
<1> QED BY TypeInit, TypeStep, BusyInit, BusyStep, <1>1, PTL DEF Spec

-----------------------------------------------------------------------------
(* The responses of an HTTP session come in the order of its frames.        *)

\* At most one response is kept for an HTTP session.  It is of a frame that has been read,
\* and of an earlier one than the frame in the call; while a new entry is linked in there is
\* none.
HeldInv ==
    \A s \in HttpSessions :
      /\ \A e \in EntriesOf(s) : e.response.frame[2] <= sent[s]
      /\ pc[s] \in {"rpc", "inserting"} => \A e \in EntriesOf(s) : e.response.frame[2] < sent[s]
      /\ \A e \in EntriesOf(s), d \in EntriesOf(s) : e = d
      /\ pc[s] = "inserting" => EntriesOf(s) = {}

\* The session of the response a thread is going to store: its own for an HTTP request, a
\* WebSocket session for an executor thread.
LEMMA KeyFacts ==
  ASSUME TypeInv, BusyInv, NEW t \in HttpSessions \cup Executors,
         pc[t] \in {"rpc", "inserting"}, call[job[t].frame] = "answered"
  PROVE  /\ NewEntry(t).session = Key(t)
         /\ t \in Executors => Key(t) \in WsSessions
         /\ t \in HttpSessions => Key(t) = t /\ NewEntry(t).response.frame = <<t, sent[t]>>
<1>1. t \in Threads BY ThreadFacts
<1>2. /\ Key(t) = job[t].frame[1] /\ NewEntry(t).session = Key(t)
      /\ NewEntry(t).response.frame = job[t].frame
  BY <1>1, EntryFacts
<1>3. t \in Executors => job[t].frame[1] \in WsSessions BY DEF BusyInv, ThreadInv
<1>4. t \in HttpSessions => job[t].frame = <<t, sent[t]>> BY DEF BusyInv, ThreadInv
<1> QED BY <1>2, <1>3, <1>4

\* How an HTTP request goes on: it reads a frame before it makes a call, and starts to link
\* in an entry only when its session has none.
LEMMA HttpMoves ==
  ASSUME TypeInv, BusyInv, [Next]_vars, NEW s \in HttpSessions
  PROVE  /\ sent'[s] = sent[s] \/ sent'[s] = sent[s] + 1
         /\ pc'[s] = "rpc" => pc[s] = "rpc" \/ sent'[s] = sent[s] + 1
         /\ pc'[s] = "inserting" => pc[s] = "inserting" \/ EntriesOf(s) = {}
<1> DEFINE Goal == /\ sent'[s] = sent[s] \/ sent'[s] = sent[s] + 1
                   /\ pc'[s] = "rpc" => pc[s] = "rpc" \/ sent'[s] = sent[s] + 1
                   /\ pc'[s] = "inserting" => pc[s] = "inserting" \/ EntriesOf(s) = {}
<1> SUFFICES Goal OBVIOUS
<1>1. /\ s \in Sessions /\ s \in Threads /\ s \notin WsSessions /\ s \notin Executors
      /\ sent \in [Sessions -> Nat] /\ pc \in [Threads -> PcStates]
  BY ThreadFacts DEF TypeInv, TypeOK
<1>2. ASSUME NEW t \in Threads, NEW l \in PcStates, Goto(t, l), sent' = sent,
             l # "rpc", l = "inserting" /\ t = s => EntriesOf(s) = {}
      PROVE  Goal
  <2>1. pc'[s] = IF s = t THEN l ELSE pc[s] BY <1>1, <1>2 DEF Goto
  <2> QED BY <1>2, <2>1
<1>3. ASSUME NEW t \in Threads, Throw(t) \/ Return(t), sent' = sent PROVE Goal
  <2>1. /\ t # s => pc'[s] = pc[s]
        /\ t = s => pc'[s] \in {"remove", "next", "done"}
    BY <1>1, <1>3, ReturnFacts DEF TypeInv
  <2> QED BY <1>3, <2>1
<1>4. ASSUME pc' = pc, sent' = sent PROVE Goal
  BY <1>4
<1>5. {"idle", "next", "inserting", "remove", "removing", "iterate", "broker", "out"} \subseteq PcStates
  BY DEF PcStates
<1>6. CASE UNCHANGED vars BY <1>4, <1>6 DEF vars
<1>7. ASSUME NEW f \in Frames, RpcStep(f) PROVE Goal BY <1>4, <1>7 DEF RpcStep
<1>8. ASSUME NEW w \in WsSessions, handleMessage(w) PROVE Goal
  <2>1. w \in Sessions /\ w # s /\ sent' = [sent EXCEPT ![w] = @ + 1] /\ pc' = pc
    BY <1>1, <1>8, ThreadFacts DEF handleMessage
  <2>2. sent'[s] = sent[s] BY <1>1, <2>1
  <2> QED BY <2>1, <2>2
<1>9. ASSUME NEW w \in WsSessions, afterConnectionClosed(w) PROVE Goal
  <2>1. w \in Threads /\ Goto(w, "remove") /\ sent' = sent
    BY <1>9, ThreadFacts DEF afterConnectionClosed
  <2> QED BY <1>2, <1>5, <2>1
<1>10. ASSUME NEW h \in HttpSessions, HttpStart(h) \/ HttpStreamEnds(h) PROVE Goal
  <2>1. h \in Threads /\ (Goto(h, "next") \/ Goto(h, "remove")) /\ sent' = sent
    BY <1>10, ThreadFacts DEF HttpStart, HttpStreamEnds
  <2> QED BY <1>2, <1>5, <2>1
<1>11. ASSUME NEW h \in HttpSessions, HttpNextChunk(h) PROVE Goal
  <2>1. /\ h \in Sessions /\ h \in Threads /\ sent' = [sent EXCEPT ![h] = @ + 1]
        /\ pc' = [pc EXCEPT ![h] = "rpc"]
    BY <1>11, ThreadFacts DEF HttpNextChunk, Goto
  <2>2. sent'[s] = IF s = h THEN sent[s] + 1 ELSE sent[s] BY <1>1, <2>1
  <2>3. pc'[s] = IF s = h THEN "rpc" ELSE pc[s] BY <1>1, <2>1
  <2> QED BY <2>2, <2>3
<1>12. ASSUME NEW e \in Executors, TakeFrame(e) \/ TakeMessage(e) \/ Broker(e) \/ Deliver(e)
       PROVE  Goal
  <2>1. e \in Threads /\ e # s /\ sent' = sent
    BY <1>1, <1>12, ThreadFacts DEF TakeFrame, TakeMessage, Broker, Deliver
  <2>2. \E l : pc' = [pc EXCEPT ![e] = l]
    BY <1>12 DEF TakeFrame, TakeMessage, Broker, Deliver, Goto
  <2>3. pc'[s] = pc[s] BY <1>1, <2>1, <2>2
  <2> QED BY <2>1, <2>3
<1>13. ASSUME NEW t \in HttpSessions \cup Executors, OnCoinResponse(t) PROVE Goal
  <2>1. t \in Threads BY ThreadFacts
  <2>2. CASE GatewayTimesOut(t) BY <1>3, <2>1, <2>2 DEF GatewayTimesOut
  <2>3. CASE PutReplaces(t) \/ PutEndsInsert(t)
    <3>1. Goto(t, "iterate") /\ sent' = sent BY <2>3 DEF PutReplaces, PutEndsInsert
    <3> QED BY <1>2, <1>5, <2>1, <3>1
  <2>4. CASE PutStartsInsert(t)
    <3>1. /\ pc[t] = "rpc" /\ call[job[t].frame] = "answered" /\ EntriesOf(Key(t)) = {}
          /\ Goto(t, "inserting") /\ sent' = sent
      BY <2>4 DEF PutStartsInsert, GatewayReplied
    <3>2. t = s => Key(t) = s BY <3>1, KeyFacts
    <3>3. t = s => EntriesOf(s) = {} BY <3>1, <3>2
    <3> QED BY <1>2, <1>5, <2>1, <3>1, <3>3
  <2> QED BY <1>13, <2>2, <2>3, <2>4 DEF OnCoinResponse
<1>14. ASSUME NEW w \in Sessions, SessionEnded(w) PROVE Goal
  <2>1. w \in Threads /\ (Goto(w, "iterate") \/ Goto(w, "removing")) /\ sent' = sent
    BY <1>14, ThreadFacts DEF SessionEnded, RemoveFindsNothing, RemoveStarts, RemoveEnds
  <2> QED BY <1>2, <1>5, <2>1
<1>15. ASSUME NEW t \in Threads, Iteration(t) PROVE Goal
  <2>1. CASE Visit(t) BY <1>4, <2>1 DEF Visit
  <2>2. CASE VisitThrows(t) BY <1>3, <2>2 DEF VisitThrows
  <2>3. CASE SendSessions(t) BY <1>3, <2>3 DEF SendSessions
  <2> QED BY <1>15, <2>1, <2>2, <2>3 DEF Iteration
<1> HIDE DEF Goal
<1> QED
  BY <1>6, <1>7, <1>8, <1>9, <1>10, <1>11, <1>12, <1>13, <1>14, <1>15, StepCases

\* What a step does to the entries of an HTTP session: it may remove some, and only the
\* thread of the request itself puts one, the response to the frame it read last, which then
\* is the only one.
LEMMA HeldChange ==
  ASSUME TypeInv, BusyInv, HeldInv, [Next]_vars, NEW s \in HttpSessions
  PROVE  \/ \A d \in EntriesOf(s)' : d \in EntriesOf(s)
         \/ /\ pc[s] \in {"rpc", "inserting"} /\ pc'[s] = "iterate" /\ sent'[s] = sent[s]
            /\ \A d \in EntriesOf(s)' : d.response.frame[2] = sent[s]
            /\ \A d \in EntriesOf(s)', c \in EntriesOf(s)' : c = d
<1> DEFINE Fewer == \A d \in EntriesOf(s)' : d \in EntriesOf(s)
<1> DEFINE Stored ==
      /\ pc[s] \in {"rpc", "inserting"} /\ pc'[s] = "iterate" /\ sent'[s] = sent[s]
      /\ \A d \in EntriesOf(s)' : d.response.frame[2] = sent[s]
      /\ \A d \in EntriesOf(s)', c \in EntriesOf(s)' : c = d
<1> SUFFICES Fewer \/ Stored OBVIOUS
<1>1. s \in Threads /\ s \notin WsSessions /\ s \notin Executors /\ pc \in [Threads -> PcStates]
  BY ThreadFacts DEF TypeInv, TypeOK
<1>2. ASSUME store' \subseteq store PROVE Fewer
  BY <1>2 DEF EntriesOf
<1>3. ASSUME NEW n, store' \subseteq store \cup {n}, n.session # s PROVE Fewer
  BY <1>3 DEF EntriesOf
<1>4. ASSUME NEW t \in HttpSessions \cup Executors, PutReplaces(t) PROVE Fewer \/ Stored
  <2>1. pc[t] = "rpc" /\ call[job[t].frame] = "answered" /\ Goto(t, "iterate") /\ sent' = sent
    BY <1>4 DEF PutReplaces, GatewayReplied
  <2>2. PICK e \in EntriesOf(Key(t)) : store' = (store \ {e}) \cup {NewEntry(t)}
    BY <1>4 DEF PutReplaces
  <2>3. CASE t # s
    <3>1. NewEntry(t).session # s BY <1>1, <2>1, <2>3, KeyFacts
    <3> QED BY <1>3, <2>2, <3>1
  <2>4. CASE t = s
    <3>1. Key(s) = s /\ NewEntry(s).response.frame = <<s, sent[s]>>
      BY <2>1, <2>4, KeyFacts
    <3>2. \A d \in EntriesOf(s) : d = e BY <2>2, <2>4, <3>1 DEF HeldInv
    <3>3. \A d \in EntriesOf(s)' : d = NewEntry(s) BY <2>2, <2>4, <3>2 DEF EntriesOf
    <3>4. pc'[s] = "iterate" BY <1>1, <2>1, <2>4 DEF Goto
    <3>5. NewEntry(s).response.frame[2] = sent[s] BY <3>1
    <3> QED BY <2>1, <2>4, <3>3, <3>4, <3>5
  <2> QED BY <2>3, <2>4
<1>5. ASSUME NEW t \in HttpSessions \cup Executors, PutEndsInsert(t) PROVE Fewer \/ Stored
  <2>1. pc[t] = "inserting" /\ Goto(t, "iterate") /\ sent' = sent /\ t \in Threads
    BY <1>5, ThreadFacts DEF PutEndsInsert
  <2>2. store' \subseteq store \cup {NewEntry(t)} BY <1>5 DEF PutEndsInsert
  <2>3. call[job[t].frame] = "answered" BY <2>1 DEF TypeInv, CarryInv
  <2>4. CASE t # s
    <3>1. NewEntry(t).session # s BY <1>1, <2>1, <2>3, <2>4, KeyFacts
    <3> QED BY <1>3, <2>2, <3>1
  <2>5. CASE t = s
    <3>1. NewEntry(s).response.frame = <<s, sent[s]>> BY <2>1, <2>3, <2>5, KeyFacts
    <3>2. EntriesOf(s) = {} BY <2>1, <2>5 DEF HeldInv
    <3>3. \A d \in EntriesOf(s)' : d = NewEntry(s) BY <2>2, <2>5, <3>2 DEF EntriesOf
    <3>4. pc'[s] = "iterate" BY <1>1, <2>1, <2>5 DEF Goto
    <3>5. NewEntry(s).response.frame[2] = sent[s] BY <3>1
    <3> QED BY <2>1, <2>5, <3>3, <3>4, <3>5
  <2> QED BY <2>4, <2>5
<1>6. ASSUME NEW t \in HttpSessions \cup Executors, OnCoinResponse(t) PROVE Fewer \/ Stored
  <2>1. CASE GatewayTimesOut(t) BY <1>2, <2>1 DEF GatewayTimesOut, mapVars
  <2>2. CASE PutStartsInsert(t) BY <1>2, <2>2 DEF PutStartsInsert
  <2> QED BY <1>4, <1>5, <1>6, <2>1, <2>2 DEF OnCoinResponse
<1>7. ASSUME NEW w \in Sessions, SessionEnded(w) PROVE Fewer
  <2>1. store' \subseteq store
    BY <1>7 DEF SessionEnded, RemoveFindsNothing, RemoveStarts, RemoveEnds
  <2> QED BY <1>2, <2>1
<1>8. ASSUME NEW t \in Threads, Iteration(t) PROVE Fewer
  <2>1. store' = store BY <1>8 DEF Iteration, Visit, VisitThrows, SendSessions
  <2> QED BY <1>2, <2>1
<1>9. ASSUME UNCHANGED mapVars PROVE Fewer
  BY <1>2, <1>9 DEF mapVars
<1>10. UNCHANGED vars => UNCHANGED mapVars BY DEF vars, mapVars
<1>11. \A f \in Frames : RpcStep(f) => UNCHANGED mapVars BY DEF RpcStep
<1>12. \A w \in WsSessions : handleMessage(w) \/ afterConnectionClosed(w) => UNCHANGED mapVars
  BY DEF handleMessage, afterConnectionClosed
<1>13. \A h \in HttpSessions :
          HttpStart(h) \/ HttpNextChunk(h) \/ HttpStreamEnds(h) => UNCHANGED mapVars
  BY DEF HttpStart, HttpNextChunk, HttpStreamEnds
<1>14. \A e \in Executors :
          TakeFrame(e) \/ TakeMessage(e) \/ Broker(e) \/ Deliver(e) => UNCHANGED mapVars
  BY DEF TakeFrame, TakeMessage, Broker, Deliver
<1> HIDE DEF Fewer, Stored
<1> QED
  BY <1>6, <1>7, <1>8, <1>9, <1>10, <1>11, <1>12, <1>13, <1>14, StepCases

\* The frame of a kept response has a number.
LEMMA HeldNumbers ==
  ASSUME TypeInv
  PROVE  \A s \in HttpSessions : sent[s] \in Nat /\ \A e \in EntriesOf(s) : e.response.frame[2] \in Nat
<1>1. \A s \in HttpSessions : sent[s] \in Nat BY ThreadFacts DEF TypeInv, TypeOK
<1>2. \A r \in Responses : r.frame[2] \in Nat BY FrameFacts DEF Responses, Rpc!Reply
<1>3. \A e \in store : e.response \in Responses BY DEF TypeInv, TypeOK
<1> QED BY <1>1, <1>2, <1>3 DEF EntriesOf

\* Every step keeps at most one response, of a frame already read, for an HTTP session.
LEMMA HeldStep == TypeInv /\ BusyInv /\ HeldInv /\ [Next]_vars => HeldInv'
<1> SUFFICES ASSUME TypeInv, BusyInv, HeldInv, [Next]_vars, NEW s \in HttpSessions
             PROVE  /\ \A e \in EntriesOf(s)' : e.response.frame[2] <= sent'[s]
                    /\ pc'[s] \in {"rpc", "inserting"} =>
                          \A e \in EntriesOf(s)' : e.response.frame[2] < sent'[s]
                    /\ \A e \in EntriesOf(s)', d \in EntriesOf(s)' : e = d
                    /\ pc'[s] = "inserting" => EntriesOf(s)' = {}
  BY DEF HeldInv
<1>1. /\ \A e \in EntriesOf(s) : e.response.frame[2] <= sent[s]
      /\ pc[s] \in {"rpc", "inserting"} => \A e \in EntriesOf(s) : e.response.frame[2] < sent[s]
      /\ \A e \in EntriesOf(s), d \in EntriesOf(s) : e = d
      /\ pc[s] = "inserting" => EntriesOf(s) = {}
  BY DEF HeldInv
<1>2. sent[s] \in Nat /\ \A e \in EntriesOf(s) : e.response.frame[2] \in Nat BY HeldNumbers
<1>3. /\ sent'[s] = sent[s] \/ sent'[s] = sent[s] + 1
      /\ pc'[s] = "rpc" => pc[s] = "rpc" \/ sent'[s] = sent[s] + 1
      /\ pc'[s] = "inserting" => pc[s] = "inserting" \/ EntriesOf(s) = {}
  BY HttpMoves
<1>4. ASSUME \A d \in EntriesOf(s)' : d \in EntriesOf(s)
      PROVE  /\ \A e \in EntriesOf(s)' : e.response.frame[2] <= sent'[s]
             /\ pc'[s] \in {"rpc", "inserting"} =>
                   \A e \in EntriesOf(s)' : e.response.frame[2] < sent'[s]
             /\ \A e \in EntriesOf(s)', d \in EntriesOf(s)' : e = d
             /\ pc'[s] = "inserting" => EntriesOf(s)' = {}
  <2>1. pc'[s] = "inserting" => EntriesOf(s)' = {} BY <1>1, <1>3, <1>4
  <2>2. \A e \in EntriesOf(s)', d \in EntriesOf(s)' : e = d BY <1>1, <1>4
  <2>3. ASSUME NEW e \in EntriesOf(s)'
        PROVE  /\ e.response.frame[2] <= sent'[s]
               /\ pc'[s] = "rpc" => e.response.frame[2] < sent'[s]
    <3>1. e \in EntriesOf(s) BY <1>4, <2>3
    <3>2. PICK n \in Nat : n = e.response.frame[2] BY <1>2, <3>1
    <3>3. n <= sent[s] /\ (pc[s] = "rpc" => n < sent[s]) BY <1>1, <3>1, <3>2
    <3>4. n <= sent'[s] /\ (pc'[s] = "rpc" => n < sent'[s]) BY <1>2, <1>3, <3>3
    <3> QED BY <3>2, <3>4
  <2> QED BY <2>1, <2>2, <2>3
<1>5. ASSUME /\ pc[s] \in {"rpc", "inserting"} /\ pc'[s] = "iterate" /\ sent'[s] = sent[s]
             /\ \A d \in EntriesOf(s)' : d.response.frame[2] = sent[s]
             /\ \A d \in EntriesOf(s)', c \in EntriesOf(s)' : c = d
      PROVE  /\ \A e \in EntriesOf(s)' : e.response.frame[2] <= sent'[s]
             /\ pc'[s] \in {"rpc", "inserting"} =>
                   \A e \in EntriesOf(s)' : e.response.frame[2] < sent'[s]
             /\ \A e \in EntriesOf(s)', d \in EntriesOf(s)' : e = d
             /\ pc'[s] = "inserting" => EntriesOf(s)' = {}
  <2>1. \A e \in EntriesOf(s)' : e.response.frame[2] <= sent'[s] BY <1>2, <1>5
  <2> QED BY <1>5, <2>1
<1> QED BY <1>4, <1>5, HeldChange

\* The chain up to sendSessions runs on the thread of the request, so the response kept for an
\* HTTP session is only ever replaced by that of a later frame.
THEOREM HttpFramesHold == Spec => HttpFramesInOrder
<1>1. Init => HeldInv BY DEF Init, HeldInv, EntriesOf
<1>2. ASSUME TypeInv, BusyInv, HeldInv, [Next]_vars
      PROVE  [\A s \in HttpSessions : \A e \in EntriesOf(s), d \in EntriesOf(s)' :
                 e.response.frame[2] <= d.response.frame[2]]_vars
  <2> SUFFICES ASSUME NEW s \in HttpSessions, NEW e \in EntriesOf(s), NEW d \in EntriesOf(s)'
               PROVE  e.response.frame[2] <= d.response.frame[2]
    OBVIOUS
  <2>1. e.response.frame[2] \in Nat /\ sent[s] \in Nat BY <1>2, HeldNumbers
  <2>2. CASE d \in EntriesOf(s)
    <3>1. d = e BY <1>2, <2>2 DEF HeldInv
    <3> QED BY <2>1, <3>1
  <2>3. CASE pc[s] \in {"rpc", "inserting"} /\ d.response.frame[2] = sent[s]
    <3>1. e.response.frame[2] < sent[s] BY <1>2, <2>3 DEF HeldInv
    <3> QED BY <2>1, <2>3, <3>1
  <2> QED BY <1>2, <2>2, <2>3, HeldChange
<1> QED
  BY TypeInit, TypeStep, BusyInit, BusyStep, HeldStep, <1>1, <1>2, PTL DEF Spec, HttpFramesInOrder

=============================================================================
