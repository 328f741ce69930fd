------------------------ MODULE SynchronousEnvProofs ------------------------
(***************************************************************************)
(* Proofs about SynchronousEnv, for any finite set of sources and any bound *)
(* on the number of requests.                                              *)
(***************************************************************************)
EXTENDS SynchronousEnv, TLAPS

\* What a lone pipe may hold: nothing, or one message.
AtMostOne(q) == q # << >> => q = << Head(q) >>

\* A request that a living worker can still take is either the one its thread is waiting on, or the final
\* close of a source no thread is waiting on.
RequestInv(s) ==
  toWorker[s] # << >> /\ worker[s] # "exited" =>
    /\ AtMostOne(toWorker[s])
    /\ \/ /\ thread[s] = "receiving" /\ op # "startup"
          /\ Head(toWorker[s]) = CurrentRequest(s)
          /\ fromWorker[s] = << >>
       \/ /\ pc \in Down \ {"failing"}
          /\ s \notin closing /\ thread[s] \notin Unfinished
          /\ Head(toWorker[s]).seq = sequences[s] + 1
          /\ Head(toWorker[s]).op = "close"

\* An answer in a pipe answers the request its thread is waiting on; only before
\* the startup exchange can it lie there with no thread.
AnswerInv(s) ==
  fromWorker[s] # << >> =>
    /\ AtMostOne(fromWorker[s])
    /\ Head(fromWorker[s]).seq = sequences[s]
    /\ thread[s] = "receiving" \/ (thread[s] = "none" /\ ~hasState /\ pc \in {"spawning"} \cup Down)

\* The worker has taken every request but one that is still on its way.
WorkerInv(s) ==
  /\ worker[s] = "unspawned" => thread[s] = "none"
  /\ worker[s] \in {"unspawned", "starting"} =>
       /\ wseq[s] = 0 /\ sequences[s] = 0 /\ fromWorker[s] = << >> /\ ~hasState
       /\ thread[s] \in {"none", "receiving"}
       /\ thread[s] = "receiving" => op = "startup"
       /\ pc \in {"spawning"} \cup Down \/ (pc = "waiting" /\ thread[s] = "receiving")
  /\ worker[s] = "listening" =>
       IF \/ thread[s] = "submitted"
          \/ thread[s] = "receiving" /\ toWorker[s] # << >>
       THEN wseq[s] + 1 = sequences[s]
       ELSE wseq[s] = sequences[s]
  /\ worker[s] = "listening" /\ pc = "spawning" => fromWorker[s] # << >>
  /\ worker[s] = "listening" /\ thread[s] = "receiving" =>
       toWorker[s] # << >> \/ fromWorker[s] # << >>
  /\ worker[s] = "running" =>
       /\ thread[s] = "receiving" /\ wseq[s] = sequences[s]
       /\ toWorker[s] = << >> /\ fromWorker[s] = << >>
       /\ wreq[s] = CurrentRequest(s) /\ op # "startup"

\* A future fails only because its worker is gone.
ThreadInv(s) ==
  /\ thread[s] = "failed" => worker[s] = "exited"
  /\ thread[s] \in {"checking", "done"} => value[s].seq = sequences[s]
  /\ thread[s] = "submitted" => op # "startup"
  /\ pc = "spawning" => thread[s] = "none" /\ op = "startup"
  /\ pc = "idle" => thread[s] \in {"none", "done"} /\ worker[s] # "unspawned"
  /\ pc = "waiting" => (thread[s] # "none" <=> s \in sel)
  /\ s \in closing => thread[s] \notin Unfinished /\ pc \in {"closing", "reaping"}

SourceInv(s) == RequestInv(s) /\ AnswerInv(s) /\ WorkerInv(s) /\ ThreadInv(s)

\* The inductive invariant of the request/response protocol.
WireInv ==
  /\ op # "step" => sel = Sources
  /\ pc = "spawning" => op = "startup"
  /\ \A s \in Sources : SourceInv(s)

-----------------------------------------------------------------------------
(* Pipes with at most one message.                                         *)

LEMMA TailOfOne == ASSUME NEW q, q = << Head(q) >> PROVE Tail(q) = << >>
<1>1. \A m : Tail(<< m >>) = << >>
  OBVIOUS
<1>2. QED BY <1>1

LEMMA AppendToNone == ASSUME NEW m PROVE Append(<< >>, m) = << m >>
  OBVIOUS

-----------------------------------------------------------------------------
(* Type correctness.                                                       *)

LEMMA TypeInit == Init => TypeOK
<1> SUFFICES ASSUME Init PROVE TypeOK
  OBVIOUS
<1>1. /\ [seq |-> 0, ok |-> FALSE, stamp |-> 0, valid |-> FALSE] \in Response
      /\ [seq |-> 0, op |-> "startup", touch |-> FALSE] \in Request
  BY DEF Response, Request, Ops
<1>2. value \in [Sources -> Response] /\ wreq \in [Sources -> Request]
  BY <1>1 DEF Init
<1>3. toWorker \in [Sources -> Seq(Request)] /\ fromWorker \in [Sources -> Seq(Response)]
  BY DEF Init
<1>4. QED
  BY <1>2, <1>3 DEF Init, TypeOK, Calls, Ops, Unfinished, Gone, Down

\* A submission keeps every type.
LEMMA SubmitType ==
  ASSUME TypeOK, NEW o \in Ops, NEW S \in SUBSET Sources, Submit(o, S)
  PROVE  /\ pc' = "waiting" /\ op' \in Ops /\ sel' \subseteq Sources
         /\ sequences' \in [Sources -> Nat]
         /\ thread' \in [Sources -> {"none", "done", "failed"} \cup Unfinished]
  BY DEF TypeOK, Submit, NextSequences, Unfinished

LEMMA MergeType ==
  ASSUME TypeOK, NEW S \in SUBSET Sources
  PROVE  Merge(S) \in [Sources -> Nat]
  BY DEF TypeOK, Merge, Response

LEMMA TypeCall ==
  ASSUME TypeOK, NEW c \in Calls, NEW S \in SUBSET Sources, Call(c, S)
  PROVE  TypeOK'
<1>1. FirstOp(c) \in Ops /\ (IF c = "step" THEN S ELSE Sources) \in SUBSET Sources
  BY DEF FirstOp, Calls, Ops
<1>2. Submit(FirstOp(c), IF c = "step" THEN S ELSE Sources)
  BY DEF Call
<1>3. QED
  BY <1>1, <1>2, SubmitType DEF Call, Submit, TypeOK, wireVars, workerVars

LEMMA TypeJoin ==
  ASSUME TypeOK, Join
  PROVE  TypeOK'
<1>1. Sources \in SUBSET Sources /\ sel \in SUBSET Sources /\ touched \in SUBSET Sources
  BY DEF TypeOK
<1>2. CASE JoinStartup
  BY <1>2 DEF JoinStartup, TypeOK, threadVars, wireVars, workerVars
<1>3. CASE JoinInitState
  <2>1. CASE call = "init_state"
    BY <1>1, <1>3, <2>1, MergeType
    DEF JoinInitState, Publish, TypeOK, wireVars, workerVars
  <2>2. CASE call # "init_state"
    <3>1. call \in Ops /\ Submit(call, Sources)
      BY <1>3, <2>2 DEF JoinInitState, TypeOK, Ops
    <3>2. QED
      BY <1>1, <1>3, <2>2, <3>1, MergeType, SubmitType
      DEF JoinInitState, Submit, TypeOK, wireVars, workerVars
  <2>3. QED BY <2>1, <2>2
<1>4. CASE JoinStep
  BY <1>1, <1>4, MergeType DEF JoinStep, Publish, TypeOK, wireVars, workerVars
<1>5. CASE JoinReset
  <2>1. probeActive' \in BOOLEAN
    BY <1>5 DEF JoinReset, ProbeAfter, TypeOK
  <2>2. QED
    BY <1>1, <1>5, <2>1, MergeType DEF JoinReset, Publish, TypeOK, wireVars, workerVars
<1>6. CASE JoinFinishProbe
  <2>1. "reset" \in Ops /\ Submit("reset", Sources)
    BY <1>6 DEF JoinFinishProbe, Ops, Calls
  <2>2. QED
    BY <1>1, <1>6, <2>1, SubmitType DEF JoinFinishProbe, Submit, TypeOK, wireVars, workerVars
<1>7. CASE JoinSetEpisodeLength
  BY <1>7 DEF JoinSetEpisodeLength, TypeOK, threadVars, wireVars, workerVars
<1>8. QED
  BY <1>2, <1>3, <1>4, <1>5, <1>6, <1>7 DEF Join

\* The coordinator's steps that only move it along its program.
LEMMA TypeControl ==
  ASSUME TypeOK,
         \/ SpawnFails \/ AwaitStartup \/ JoinFails \/ Timeout
         \/ BeginClose \/ Terminate \/ Shutdown \/ \E s \in Sources : Spawn(s)
  PROVE  TypeOK'
  BY DEF SpawnFails, AwaitStartup, JoinFails, Timeout, Fail, BeginClose, CloseTargets,
         Terminate, Reaped, Shutdown, Spawn, TypeOK, Unfinished, Gone, Down,
         coordVars, threadVars, wireVars, workerVars

LEMMA TypeSendClose ==
  ASSUME TypeOK, NEW s \in Sources, SendClose(s)
  PROVE  TypeOK'
<1>1. [seq |-> sequences[s] + 1, op |-> "close", touch |-> FALSE] \in Request
  BY DEF TypeOK, Request
<1>2. toWorker' \in [Sources -> Seq(Request)]
  BY <1>1 DEF SendClose, TypeOK
<1>3. QED
  BY <1>2 DEF SendClose, TypeOK, coordVars, threadVars, workerVars

LEMMA TypeThread ==
  ASSUME TypeOK, NEW s \in Sources, Thread(s)
  PROVE  TypeOK'
<1>1. CASE ThreadSend(s)
  <2>1. CurrentRequest(s) \in Request
    BY DEF CurrentRequest, TypeOK, Request
  <2>2. toWorker' \in [Sources -> Seq(Request)]
    <3>1. CASE UNCHANGED toWorker
      BY <3>1 DEF TypeOK
    <3>2. CASE toWorker' = [toWorker EXCEPT ![s] = Append(@, CurrentRequest(s))]
      BY <2>1, <3>2 DEF TypeOK
    <3>3. QED BY <1>1, <3>1, <3>2 DEF ThreadSend
  <2>3. thread' \in [Sources -> {"none", "done", "failed"} \cup Unfinished]
    BY <1>1 DEF ThreadSend, TypeOK, Unfinished
  <2>4. QED
    BY <1>1, <2>2, <2>3 DEF ThreadSend, TypeOK, coordVars, workerVars
<1>2. CASE ThreadReceive(s)
  BY <1>2 DEF ThreadReceive, TypeOK, Unfinished, coordVars, workerVars
<1>3. CASE ThreadEOF(s)
  BY <1>3 DEF ThreadEOF, TypeOK, Unfinished, coordVars, wireVars, workerVars
<1>4. CASE ThreadCheck(s)
  BY <1>4 DEF ThreadCheck, TypeOK, Unfinished, coordVars, wireVars, workerVars
<1>5. QED
  BY <1>1, <1>2, <1>3, <1>4 DEF Thread

LEMMA AnswerType ==
  ASSUME TypeOK, NEW s \in Sources, NEW q \in Nat, NEW good \in BOOLEAN, NEW v \in BOOLEAN,
         phys' \in [Sources -> Nat], Answer(s, q, good, v)
  PROVE  fromWorker' \in [Sources -> Seq(Response)]
  BY DEF Answer, TypeOK, Response

LEMMA TypeWorker ==
  ASSUME TypeOK, NEW s \in Sources, Worker(s)
  PROVE  TypeOK'
<1>0. wseq[s] \in Nat /\ TRUE \in BOOLEAN /\ FALSE \in BOOLEAN
  BY DEF TypeOK
<1>1. CASE WorkerReady(s)
  <2>1. phys' \in [Sources -> Nat]
    BY <1>1 DEF WorkerReady, TypeOK
  <2>2. fromWorker' \in [Sources -> Seq(Response)]
    BY <1>0, <1>1, <2>1, AnswerType DEF WorkerReady
  <2>3. QED
    BY <1>1, <2>1, <2>2 DEF WorkerReady, TypeOK, coordVars, threadVars
<1>2. CASE WorkerError(s)
  <2>1. phys' \in [Sources -> Nat]
    BY <1>2 DEF WorkerError, TypeOK
  <2>2. fromWorker' \in [Sources -> Seq(Response)]
    BY <1>0, <1>2, <2>1, AnswerType DEF WorkerError
  <2>3. QED
    BY <1>2, <2>1, <2>2 DEF WorkerError, TypeOK, Gone, coordVars, threadVars
<1>3. CASE WorkerTake(s)
  <2>1. Head(toWorker[s]) \in Request /\ toWorker' \in [Sources -> Seq(Request)]
    BY <1>3 DEF WorkerTake, TypeOK
  <2>2. CASE InOrder(s)
    <3>1. Take(s)
      BY <1>3, <2>2 DEF WorkerTake
    <3>2. QED
      BY <1>3, <2>1, <3>1 DEF WorkerTake, Take, TypeOK, Request, Gone, coordVars, threadVars
  <2>3. CASE ~InOrder(s)
    <3>1. Refuse(s) /\ phys' \in [Sources -> Nat]
      BY <1>3, <2>3 DEF WorkerTake, TypeOK
    <3>2. fromWorker' \in [Sources -> Seq(Response)]
      BY <1>0, <3>1, AnswerType DEF Refuse
    <3>3. QED
      BY <1>3, <2>1, <3>1, <3>2 DEF WorkerTake, Refuse, TypeOK, Gone, coordVars, threadVars
  <2>4. QED BY <2>2, <2>3
<1>4. CASE WorkerFinish(s)
  <2>1. phys' \in [Sources -> Nat]
    BY <1>4 DEF WorkerFinish, TypeOK
  <2>2. fromWorker' \in [Sources -> Seq(Response)]
    BY <1>0, <1>4, <2>1, AnswerType DEF WorkerFinish
  <2>3. probing' \in [Sources -> BOOLEAN]
    BY <1>4 DEF WorkerFinish, TypeOK
  <2>4. QED
    BY <1>4, <2>1, <2>2, <2>3 DEF WorkerFinish, TypeOK, coordVars, threadVars
<1>5. CASE WorkerCrash(s)
  BY <1>5 DEF WorkerCrash, TypeOK, Gone, coordVars, threadVars, wireVars
<1>6. QED
  BY <1>1, <1>2, <1>3, <1>4, <1>5 DEF Worker

\* Every variable keeps its type in every reachable state.
THEOREM TypeCorrect == Spec => []TypeOK
<1>1. TypeOK /\ [Next]_vars => TypeOK'
  <2> SUFFICES ASSUME TypeOK, [Next]_vars PROVE TypeOK'
    OBVIOUS
  <2>1. CASE UNCHANGED vars
    BY <2>1 DEF vars, TypeOK, coordVars, threadVars, wireVars, workerVars
  <2>2. CASE Coordinator
    BY <2>2, TypeCall, TypeJoin, TypeControl, TypeSendClose DEF Coordinator
  <2>3. QED
    BY <2>1, <2>2, TypeThread, TypeWorker DEF Next
<1>2. QED
  BY <1>1, TypeInit, PTL DEF Spec

-----------------------------------------------------------------------------
(* The protocol invariant.                                                 *)

LEMMA WireInit == Init => WireInv
  BY DEF Init, WireInv, SourceInv, RequestInv, AnswerInv, WorkerInv, ThreadInv, Down

\* A source keeps its part of the invariant when nothing it mentions changes.
LEMMA WireFrame ==
  ASSUME NEW s \in Sources, SourceInv(s),
         UNCHANGED <<pc, op, sel, touched, hasState, closing>>,
         UNCHANGED <<sequences[s], thread[s], value[s], toWorker[s], fromWorker[s],
                     worker[s], wseq[s], wreq[s]>>
  PROVE  SourceInv(s)'
  BY DEF SourceInv, RequestInv, AnswerInv, WorkerInv, ThreadInv, AtMostOne, CurrentRequest

\* A source no thread is working for, between two exchanges: its pipes are empty
\* and its worker, if alive, is waiting for the next number.
LEMMA QuietSource ==
  ASSUME TypeOK, NEW s \in Sources, SourceInv(s),
         thread[s] \in {"none", "done", "failed"}, pc \in {"idle", "waiting"},
         pc = "waiting" => Joined
  PROVE  /\ worker[s] = "exited" \/ (worker[s] = "listening" /\ wseq[s] = sequences[s])
         /\ worker[s] # "exited" => toWorker[s] = << >>
         /\ fromWorker[s] = << >>
<1>1. fromWorker[s] = << >>
  BY DEF SourceInv, AnswerInv, Down
<1>2. worker[s] # "exited" => toWorker[s] = << >>
  BY DEF SourceInv, RequestInv, Down
<1>3. worker[s] \notin {"unspawned", "starting", "running"}
  BY DEF SourceInv, WorkerInv, Down
<1>4. QED
  BY <1>1, <1>2, <1>3 DEF SourceInv, WorkerInv, TypeOK, Gone

\* Submitting a new exchange when every source is quiet.
LEMMA WireSubmit ==
  ASSUME TypeOK, NEW s \in Sources, SourceInv(s),
         NEW o \in Ops \ {"startup"}, NEW S \in SUBSET Sources, Submit(o, S),
         pc \in {"idle", "waiting"}, pc = "waiting" => Joined,
         pc = "idle" \/ UNCHANGED touched,
         hasState => hasState', hasState' \in BOOLEAN
  PROVE  SourceInv(s)'
<1>1. thread[s] \in {"none", "done", "failed"}
  BY DEF Joined, SourceInv, ThreadInv
<1>2. /\ worker[s] = "exited" \/ (worker[s] = "listening" /\ wseq[s] = sequences[s])
      /\ worker[s] # "exited" => toWorker[s] = << >>
      /\ fromWorker[s] = << >>
  BY <1>1, QuietSource
<1>3. /\ pc' = "waiting" /\ op' = o /\ sel' = S
      /\ sequences'[s] = IF s \in S THEN sequences[s] + 1 ELSE sequences[s]
      /\ thread'[s] = IF s \in S THEN "submitted" ELSE "none"
      /\ UNCHANGED <<toWorker, fromWorker, worker, wseq, closing>>
      /\ sequences[s] \in Nat
  BY DEF Submit, NextSequences, wireVars, workerVars, TypeOK
<1>4. s \notin closing
  BY DEF SourceInv, ThreadInv
<1>5. RequestInv(s)' /\ AnswerInv(s)'
  BY <1>2, <1>3 DEF RequestInv, AnswerInv
<1>6. WorkerInv(s)'
  BY <1>2, <1>3 DEF WorkerInv
<1>7. ThreadInv(s)'
  BY <1>3, <1>4 DEF ThreadInv, Unfinished
<1>8. QED
  BY <1>5, <1>6, <1>7 DEF SourceInv

\* Returning to the caller when every source is quiet.
LEMMA WireReturn ==
  ASSUME TypeOK, NEW s \in Sources, SourceInv(s),
         pc = "waiting", Joined, \A x \in sel : Accepted(x),
         pc' = "idle", hasState' \in BOOLEAN,
         UNCHANGED <<op, sel, touched, sequences, threadVars, closing, wireVars, workerVars>>
  PROVE  SourceInv(s)'
<1>1. thread[s] \in {"none", "done"}
  BY DEF Accepted, SourceInv, ThreadInv, TypeOK
<1>2. /\ worker[s] = "exited" \/ (worker[s] = "listening" /\ wseq[s] = sequences[s])
      /\ worker[s] # "exited" => toWorker[s] = << >>
      /\ fromWorker[s] = << >>
  BY <1>1, QuietSource
<1>3. UNCHANGED <<thread[s], value[s], toWorker[s], fromWorker[s], worker[s], wseq[s], wreq[s]>>
  BY DEF threadVars, wireVars, workerVars
<1>4. RequestInv(s)' /\ AnswerInv(s)' /\ WorkerInv(s)'
  BY <1>1, <1>2, <1>3 DEF RequestInv, AnswerInv, WorkerInv
<1>5. ThreadInv(s)'
  BY <1>1, <1>2, <1>3 DEF SourceInv, ThreadInv
<1>6. QED
  BY <1>4, <1>5 DEF SourceInv

LEMMA WireCall ==
  ASSUME TypeOK, WireInv, NEW c \in Calls, NEW S \in SUBSET Sources, Call(c, S),
         NEW s \in Sources
  PROVE  SourceInv(s)'
<1>1. /\ FirstOp(c) \in Ops \ {"startup"}
      /\ (IF c = "step" THEN S ELSE Sources) \in SUBSET Sources
  BY DEF FirstOp, Calls, Ops
<1>2. /\ pc = "idle" /\ UNCHANGED hasState /\ hasState \in BOOLEAN
      /\ Submit(FirstOp(c), IF c = "step" THEN S ELSE Sources)
  BY DEF Call, Callable, TypeOK
<1>3. QED
  BY <1>1, <1>2, WireSubmit DEF WireInv

LEMMA WireJoin ==
  ASSUME TypeOK, WireInv, Join, NEW s \in Sources
  PROVE  SourceInv(s)'
<1>0. /\ pc = "waiting" /\ Joined /\ (\A x \in sel : Accepted(x))
      /\ SourceInv(s) /\ hasState \in BOOLEAN
  BY DEF Join, WireInv, TypeOK
<1>1. CASE JoinStartup
  BY <1>0, <1>1, WireReturn DEF JoinStartup
<1>2. CASE JoinInitState
  <2>1. CASE call = "init_state"
    <3>1. /\ pc' = "idle" /\ hasState' \in BOOLEAN
          /\ UNCHANGED <<op, sel, touched, sequences, threadVars, closing, wireVars, workerVars>>
      BY <1>2, <2>1 DEF JoinInitState, Publish, threadVars
    <3>2. QED BY <1>0, <3>1, WireReturn
  <2>2. CASE call # "init_state"
    <3>1. call \in Ops \ {"startup"} /\ Sources \in SUBSET Sources
      BY DEF TypeOK, Calls, Ops
    <3>2. Submit(call, Sources) /\ hasState' = TRUE /\ UNCHANGED touched
      BY <1>2, <2>2 DEF JoinInitState
    <3>3. QED BY <1>0, <3>1, <3>2, WireSubmit
  <2>3. QED BY <2>1, <2>2
<1>3. CASE JoinStep
  <2>1. /\ pc' = "idle" /\ hasState' \in BOOLEAN
        /\ UNCHANGED <<op, sel, touched, sequences, threadVars, closing, wireVars, workerVars>>
    BY <1>0, <1>3 DEF JoinStep, Publish, threadVars
  <2>2. QED BY <1>0, <2>1, WireReturn
<1>4. CASE JoinReset
  <2>1. /\ pc' = "idle" /\ hasState' \in BOOLEAN
        /\ UNCHANGED <<op, sel, touched, sequences, threadVars, closing, wireVars, workerVars>>
    BY <1>0, <1>4 DEF JoinReset, Publish, threadVars
  <2>2. QED BY <1>0, <2>1, WireReturn
<1>5. CASE JoinFinishProbe
  <2>1. "reset" \in Ops \ {"startup"} /\ Sources \in SUBSET Sources
    BY DEF Calls, Ops
  <2>2. Submit("reset", Sources) /\ UNCHANGED <<touched, hasState>>
    BY <1>5 DEF JoinFinishProbe
  <2>3. QED BY <1>0, <2>1, <2>2, WireSubmit
<1>6. CASE JoinSetEpisodeLength
  BY <1>0, <1>6, WireReturn DEF JoinSetEpisodeLength
<1>7. QED
  BY <1>1, <1>2, <1>3, <1>4, <1>5, <1>6 DEF Join

LEMMA WireSpawn ==
  ASSUME TypeOK, WireInv, NEW x \in Sources, Spawn(x), NEW s \in Sources
  PROVE  SourceInv(s)'
<1>1. CASE s = x
  <2>1. /\ pc = "spawning" /\ worker[s] = "unspawned" /\ worker'[s] = "starting"
        /\ UNCHANGED <<pc, op, sel, touched, sequences, hasState, thread, value, closing,
                       toWorker, fromWorker, wseq, wreq>>
    BY <1>1 DEF Spawn, coordVars, threadVars, wireVars, TypeOK
  <2>2. QED
    BY <2>1 DEF WireInv, SourceInv, RequestInv, AnswerInv, WorkerInv, ThreadInv, Down,
                AtMostOne, CurrentRequest
<1>2. CASE s # x
  BY <1>2, WireFrame DEF Spawn, coordVars, threadVars, wireVars, TypeOK, WireInv
<1>3. QED BY <1>1, <1>2

LEMMA WireAwaitStartup ==
  ASSUME TypeOK, WireInv, AwaitStartup, NEW s \in Sources
  PROVE  SourceInv(s)'
<1>1. /\ pc = "spawning" /\ worker[s] # "unspawned" /\ pc' = "waiting"
      /\ thread'[s] = "receiving"
      /\ UNCHANGED <<op, sel, touched, sequences, hasState, value, closing,
                     toWorker, fromWorker, worker, wseq, wreq>>
  BY DEF AwaitStartup, wireVars, workerVars
<1>2. SourceInv(s) /\ thread[s] = "none" /\ op = "startup" /\ s \notin closing
  BY <1>1 DEF WireInv, SourceInv, ThreadInv
<1>3. worker[s] # "exited" => toWorker[s] = << >>
  BY <1>1, <1>2 DEF SourceInv, RequestInv, Down
<1>4. RequestInv(s)' /\ AnswerInv(s)' /\ WorkerInv(s)'
  BY <1>1, <1>2, <1>3 DEF SourceInv, RequestInv, AnswerInv, WorkerInv, AtMostOne
<1>5. sel = Sources
  BY <1>1, <1>2 DEF WireInv
<1>6. ThreadInv(s)'
  BY <1>1, <1>2, <1>5 DEF SourceInv, ThreadInv
<1>7. QED
  BY <1>4, <1>6 DEF SourceInv

\* An exception in the coordinator leaves the sources as they are.
LEMMA WireFailing ==
  ASSUME TypeOK, WireInv, SpawnFails \/ JoinFails \/ Timeout, NEW s \in Sources
  PROVE  SourceInv(s)'
<1>1. /\ pc \in {"spawning", "waiting"} /\ pc' = "failing"
      /\ UNCHANGED <<op, sel, touched, sequences, hasState, thread, value, closing,
                     toWorker, fromWorker, worker, wseq, wreq>>
  BY DEF SpawnFails, JoinFails, Timeout, Fail, threadVars, wireVars, workerVars
<1>2. QED
  BY <1>1 DEF WireInv, SourceInv, RequestInv, AnswerInv, WorkerInv, ThreadInv, Down,
              AtMostOne, CurrentRequest

LEMMA WireClosing ==
  ASSUME TypeOK, WireInv, BeginClose \/ Terminate \/ Shutdown, NEW s \in Sources
  PROVE  SourceInv(s)'
<1>1. CASE BeginClose
  <2>1. /\ pc \in {"failing", "idle"} /\ pc' = "closing"
        /\ s \in closing' => thread[s] \notin Unfinished
        /\ UNCHANGED <<op, sel, touched, sequences, hasState, thread, value,
                       toWorker, fromWorker, worker, wseq, wreq>>
    BY <1>1 DEF BeginClose, CloseTargets, threadVars, wireVars, workerVars
  <2>2. QED
    BY <2>1 DEF WireInv, SourceInv, RequestInv, AnswerInv, WorkerInv, ThreadInv, Down,
                AtMostOne, CurrentRequest
<1>2. CASE Terminate
  <2>1. /\ pc = "closing" /\ pc' = "reaping" /\ worker'[s] = "exited"
        /\ UNCHANGED <<op, sel, touched, sequences, hasState, thread, value, closing,
                       toWorker, fromWorker, wseq, wreq>>
    BY <1>2 DEF Terminate, Reaped, threadVars, wireVars
  <2>2. QED
    BY <2>1 DEF WireInv, SourceInv, RequestInv, AnswerInv, WorkerInv, ThreadInv, Down,
                AtMostOne
<1>3. CASE Shutdown
  <2>1. /\ pc = "reaping" /\ closing = {} /\ pc' = "closed"
        /\ UNCHANGED <<op, sel, touched, sequences, hasState, thread, value, closing,
                       toWorker, fromWorker, worker, wseq, wreq>>
    BY <1>3 DEF Shutdown, threadVars, wireVars, workerVars
  <2>2. QED
    BY <2>1 DEF WireInv, SourceInv, RequestInv, AnswerInv, WorkerInv, ThreadInv, Down,
                AtMostOne, CurrentRequest
<1>4. QED BY <1>1, <1>2, <1>3

LEMMA WireSendClose ==
  ASSUME TypeOK, WireInv, NEW x \in Sources, SendClose(x), NEW s \in Sources
  PROVE  SourceInv(s)'
<1>0. /\ SourceInv(s) /\ UNCHANGED <<pc, op, sel, touched, sequences, hasState, thread, value,
                                    fromWorker, worker, wseq, wreq>>
      /\ closing' = closing \ {x} /\ x \in closing /\ pc \in {"closing", "reaping"}
  BY DEF SendClose, coordVars, threadVars, workerVars, WireInv
<1>1. CASE s = x
  <2>1. thread[s] \notin Unfinished /\ s \notin closing'
    BY <1>0, <1>1 DEF SourceInv, ThreadInv
  <2>2. worker[s] # "exited" => toWorker[s] = << >>
    BY <1>0, <1>1, <2>1 DEF SourceInv, RequestInv, Unfinished
  <2>3. worker[s] # "exited" /\ toWorker'[s] # << >> =>
          toWorker'[s] = << [seq |-> sequences[s] + 1, op |-> "close", touch |-> FALSE] >>
    <3>1. CASE UNCHANGED toWorker
      BY <2>2, <3>1
    <3>2. CASE toWorker' = [toWorker EXCEPT ![x] =
                 Append(@, [seq |-> sequences[x] + 1, op |-> "close", touch |-> FALSE])]
      <4>1. toWorker'[s] = Append(toWorker[s],
                             [seq |-> sequences[s] + 1, op |-> "close", touch |-> FALSE])
        BY <1>1, <3>2 DEF TypeOK
      <4>2. QED BY <2>2, <4>1, <1>0, AppendToNone
    <3>3. QED BY <1>1, <3>1, <3>2 DEF SendClose
  <2>4. RequestInv(s)'
    BY <1>0, <2>1, <2>3 DEF RequestInv, AtMostOne, Down
  <2>5. AnswerInv(s)' /\ ThreadInv(s)'
    BY <1>0, <2>1 DEF SourceInv, AnswerInv, ThreadInv, AtMostOne
  <2>6. WorkerInv(s)'
    BY <1>0, <2>1 DEF SourceInv, WorkerInv, CurrentRequest, Unfinished
  <2>7. QED BY <2>4, <2>5, <2>6 DEF SourceInv
<1>2. CASE s # x
  <2>1. toWorker'[s] = toWorker[s]
    BY <1>2 DEF SendClose, TypeOK
  <2>2. QED
    BY <1>0, <1>2, <2>1 DEF SourceInv, RequestInv, AnswerInv, WorkerInv, ThreadInv,
                            AtMostOne, CurrentRequest
<1>3. QED BY <1>1, <1>2

LEMMA WireThread ==
  ASSUME TypeOK, WireInv, NEW x \in Sources, Thread(x), NEW s \in Sources
  PROVE  SourceInv(s)'
<1>0. /\ SourceInv(s)
      /\ UNCHANGED <<pc, op, sel, touched, sequences, hasState, closing, worker, wseq, wreq>>
      /\ thread[x] \in Unfinished
  BY DEF Thread, ThreadSend, ThreadReceive, ThreadEOF, ThreadCheck, coordVars, workerVars,
         WireInv, Unfinished
<1>1. CASE s # x
  <2>1. UNCHANGED <<thread[s], value[s], toWorker[s], fromWorker[s]>>
    BY <1>1 DEF Thread, ThreadSend, ThreadReceive, ThreadEOF, ThreadCheck, wireVars, TypeOK
  <2>2. QED
    BY <1>0, <2>1, WireFrame
<1>2. CASE s = x
  <2>0. s \notin closing /\ pc # "spawning" /\ pc # "idle"
    BY <1>0, <1>2 DEF SourceInv, ThreadInv, Unfinished
  <2>1. CASE ThreadSend(s)
    <3>1. /\ fromWorker[s] = << >> /\ op # "startup"
          /\ worker[s] # "exited" => toWorker[s] = << >>
          /\ worker[s] \in {"listening", "exited"}
          /\ worker[s] = "listening" => wseq[s] + 1 = sequences[s]
          /\ thread[s] = "submitted"
      BY <1>0, <2>1 DEF ThreadSend, SourceInv, AnswerInv, RequestInv, WorkerInv, ThreadInv,
                        TypeOK, Gone, Unfinished
    <3>2. CASE Readable(s)
      <4>1. worker[s] = "exited" /\ thread'[s] = "failed"
            /\ UNCHANGED <<toWorker, fromWorker, value>>
        BY <2>1, <3>1, <3>2 DEF ThreadSend, Readable, Gone, TypeOK
      <4>2. QED
        BY <1>0, <2>0, <3>1, <4>1 DEF SourceInv, RequestInv, AnswerInv, WorkerInv, ThreadInv
    <3>3. CASE ~Readable(s)
      <4>1. /\ worker[s] = "listening" /\ thread'[s] = "receiving"
            /\ UNCHANGED <<fromWorker, value>>
        BY <2>1, <3>1, <3>3 DEF ThreadSend, Readable, Gone, TypeOK
      <4>2. toWorker'[s] = << CurrentRequest(s) >> /\ toWorker[s] = << >>
        BY <2>1, <3>1, <3>3, <4>1 DEF ThreadSend, TypeOK
      <4>3. RequestInv(s)' /\ AnswerInv(s)' /\ WorkerInv(s)'
        BY <1>0, <2>0, <3>1, <4>1, <4>2
        DEF RequestInv, AnswerInv, WorkerInv, AtMostOne, CurrentRequest
      <4>4. ThreadInv(s)'
        BY <1>0, <2>0, <3>1, <4>1 DEF SourceInv, ThreadInv
      <4>5. QED BY <4>3, <4>4 DEF SourceInv
    <3>4. QED BY <3>2, <3>3
  <2>2. CASE ThreadReceive(s)
    <3>1. /\ thread[s] = "receiving" /\ fromWorker[s] = << Head(fromWorker[s]) >>
          /\ Head(fromWorker[s]).seq = sequences[s]
          /\ worker[s] # "exited" => toWorker[s] = << >>
          /\ worker[s] \in {"listening", "exited"}
          /\ worker[s] = "listening" => wseq[s] = sequences[s]
      BY <1>0, <2>2 DEF ThreadReceive, SourceInv, AnswerInv, RequestInv, WorkerInv, AtMostOne,
                        TypeOK, Gone, Unfinished
    <3>2. /\ thread'[s] = "checking" /\ value'[s] = Head(fromWorker[s])
          /\ fromWorker'[s] = Tail(fromWorker[s]) /\ UNCHANGED toWorker
      BY <2>2 DEF ThreadReceive, TypeOK
    <3>3. fromWorker'[s] = << >>
      BY <3>1, <3>2, TailOfOne
    <3>4. QED
      BY <1>0, <2>0, <3>1, <3>2, <3>3 DEF SourceInv, RequestInv, AnswerInv, WorkerInv, ThreadInv
  <2>3. CASE ThreadEOF(s)
    <3>1. /\ worker[s] = "exited" /\ thread'[s] = "failed" /\ thread[s] = "receiving"
          /\ UNCHANGED <<toWorker, fromWorker, value>> /\ fromWorker[s] = << >>
      BY <1>0, <2>3 DEF ThreadEOF, SourceInv, WorkerInv, Gone, wireVars, TypeOK
    <3>2. QED
      BY <1>0, <2>0, <3>1 DEF SourceInv, RequestInv, AnswerInv, WorkerInv, ThreadInv
  <2>4. CASE ThreadCheck(s)
    <3>1. /\ fromWorker[s] = << >> /\ thread[s] = "checking"
          /\ worker[s] # "exited" => toWorker[s] = << >>
          /\ worker[s] \in {"listening", "exited"}
          /\ worker[s] = "listening" => wseq[s] = sequences[s]
      BY <1>0, <2>4 DEF ThreadCheck, SourceInv, AnswerInv, RequestInv, WorkerInv,
                        TypeOK, Gone, Unfinished
    <3>2. /\ thread'[s] \in {"done", "failed"}
          /\ thread'[s] = "failed" => worker[s] = "exited"
          /\ UNCHANGED <<toWorker, fromWorker, value>>
      BY <2>4, <3>1 DEF ThreadCheck, Readable, Gone, wireVars, TypeOK
    <3>3. QED
      BY <1>0, <2>0, <3>1, <3>2 DEF SourceInv, RequestInv, AnswerInv, WorkerInv, ThreadInv
  <2>5. QED
    BY <1>2, <2>1, <2>2, <2>3, <2>4 DEF Thread
<1>3. QED BY <1>1, <1>2

\* The request a listening worker finds in its pipe is the next one.
LEMMA NextInLine ==
  ASSUME TypeOK, NEW s \in Sources, RequestInv(s), WorkerInv(s),
         worker[s] = "listening", toWorker[s] # << >>
  PROVE  /\ toWorker[s] = << Head(toWorker[s]) >>
         /\ Head(toWorker[s]).seq = wseq[s] + 1
         /\ \/ /\ thread[s] = "receiving" /\ op # "startup"
               /\ Head(toWorker[s]) = CurrentRequest(s) /\ fromWorker[s] = << >>
               /\ wseq[s] + 1 = sequences[s]
            \/ /\ thread[s] \notin Unfinished
               /\ Head(toWorker[s]).op = "close"
<1>1. toWorker[s] = << Head(toWorker[s]) >>
  BY DEF RequestInv, AtMostOne
<1>2. CASE /\ thread[s] = "receiving" /\ op # "startup"
           /\ Head(toWorker[s]) = CurrentRequest(s) /\ fromWorker[s] = << >>
  <2>1. wseq[s] + 1 = sequences[s]
    BY <1>2 DEF WorkerInv
  <2>2. Head(toWorker[s]).seq = sequences[s]
    BY <1>2 DEF CurrentRequest
  <2>3. QED BY <1>1, <1>2, <2>1, <2>2
<1>3. CASE /\ thread[s] \notin Unfinished
           /\ Head(toWorker[s]).seq = sequences[s] + 1
           /\ Head(toWorker[s]).op = "close"
  <2>1. wseq[s] = sequences[s]
    BY <1>3 DEF WorkerInv, Unfinished
  <2>2. QED BY <1>1, <1>3, <2>1
<1>4. QED
  BY <1>2, <1>3 DEF RequestInv

\* An answer is one more response with the number it is given.
LEMMA Answers ==
  ASSUME TypeOK, NEW s \in Sources, NEW q, NEW good, NEW v, Answer(s, q, good, v)
  PROVE  \E m : m.seq = q /\ fromWorker'[s] = Append(fromWorker[s], m)
<1> DEFINE m == [seq |-> q, ok |-> good, stamp |-> phys'[s], valid |-> v]
<1>1. fromWorker'[s] = Append(fromWorker[s], m)
  BY DEF Answer, TypeOK
<1>2. m.seq = q
  OBVIOUS
<1>3. QED BY <1>1, <1>2

LEMMA WireWorker ==
  ASSUME TypeOK, WireInv, NEW x \in Sources, Worker(x), NEW s \in Sources
  PROVE  SourceInv(s)'
<1>0. /\ SourceInv(s)
      /\ UNCHANGED <<pc, op, sel, touched, sequences, hasState, closing, thread, value>>
  BY DEF Worker, WorkerReady, WorkerError, WorkerTake, WorkerFinish, WorkerCrash, coordVars,
         threadVars, WireInv
<1>1. CASE s # x
  <2>1. UNCHANGED <<fromWorker[s], worker[s], wseq[s], wreq[s]>>
    BY <1>1 DEF Worker, WorkerReady, WorkerError, WorkerTake, Take, Refuse, WorkerFinish,
                WorkerCrash, Answer, wireVars, TypeOK
  <2>2. toWorker'[s] = toWorker[s]
    BY <1>1 DEF Worker, WorkerReady, WorkerError, WorkerTake, WorkerFinish, WorkerCrash,
                wireVars, TypeOK
  <2>3. QED BY <1>0, <2>1, <2>2, WireFrame
<1>2. CASE s = x
  <2>1. CASE WorkerReady(s)
    <3>1. /\ worker[s] = "starting" /\ worker'[s] = "listening"
          /\ UNCHANGED <<toWorker, wseq, wreq>>
          /\ wseq[s] = 0 /\ sequences[s] = 0 /\ fromWorker[s] = << >> /\ ~hasState
      BY <1>0, <2>1 DEF WorkerReady, SourceInv, WorkerInv, TypeOK
    <3>2. PICK m : m.seq = wseq[s] /\ fromWorker'[s] = Append(fromWorker[s], m)
      BY <2>1, Answers DEF WorkerReady
    <3>3. fromWorker'[s] = << m >>
      BY <3>1, <3>2, AppendToNone
    <3>4. RequestInv(s)'
      BY <1>0, <3>1 DEF SourceInv, RequestInv, WorkerInv, AtMostOne, CurrentRequest, Unfinished
    <3>5. AnswerInv(s)'
      BY <1>0, <3>1, <3>2, <3>3 DEF SourceInv, AnswerInv, WorkerInv, AtMostOne
    <3>6. WorkerInv(s)'
      BY <1>0, <3>1, <3>3 DEF SourceInv, WorkerInv, RequestInv, Unfinished
    <3>7. ThreadInv(s)'
      BY <1>0, <3>1 DEF SourceInv, ThreadInv, WorkerInv, Down
    <3>8. QED BY <3>4, <3>5, <3>6, <3>7 DEF SourceInv
  <2>2. CASE WorkerError(s) \/ WorkerFinish(s)
    <3>1. /\ worker[s] \in {"starting", "running"} /\ worker'[s] \in {"listening", "exited"}
          /\ worker'[s] = "listening" => worker[s] = "running"
          /\ UNCHANGED <<toWorker, wseq, wreq>>
          /\ wseq[s] = sequences[s] /\ fromWorker[s] = << >>
      BY <1>0, <2>2 DEF WorkerError, WorkerFinish, SourceInv, WorkerInv, TypeOK
    <3>2. PICK m : m.seq = wseq[s] /\ fromWorker'[s] = Append(fromWorker[s], m)
      <4>1. CASE WorkerError(s)
        <5> DEFINE m == [seq |-> wseq[s], ok |-> FALSE, stamp |-> phys'[s], valid |-> FALSE]
        <5>1. fromWorker'[s] = Append(fromWorker[s], m)
          BY <4>1 DEF WorkerError, Answer, TypeOK
        <5>2. m.seq = wseq[s]
          OBVIOUS
        <5>3. QED BY <5>1, <5>2
      <4>2. CASE WorkerFinish(s)
        BY <4>2, Answers DEF WorkerFinish
      <4>3. QED BY <2>2, <4>1, <4>2
    <3>3. fromWorker'[s] = << m >>
      BY <3>1, <3>2, AppendToNone
    <3>4. RequestInv(s)'
      BY <1>0, <3>1 DEF SourceInv, RequestInv, WorkerInv
    <3>5. AnswerInv(s)'
      BY <1>0, <3>1, <3>2, <3>3 DEF SourceInv, AnswerInv, WorkerInv, AtMostOne
    <3>6. WorkerInv(s)'
      BY <1>0, <3>1, <3>3 DEF SourceInv, WorkerInv
    <3>7. ThreadInv(s)'
      BY <1>0, <3>1 DEF SourceInv, ThreadInv, WorkerInv
    <3>8. QED BY <3>4, <3>5, <3>6, <3>7 DEF SourceInv
  <2>3. CASE WorkerTake(s)
    <3>1. /\ worker[s] = "listening" /\ toWorker[s] = << Head(toWorker[s]) >>
          /\ Head(toWorker[s]).seq = wseq[s] + 1
          /\ \/ /\ thread[s] = "receiving" /\ op # "startup"
                /\ Head(toWorker[s]) = CurrentRequest(s) /\ fromWorker[s] = << >>
                /\ wseq[s] + 1 = sequences[s]
             \/ /\ thread[s] \notin Unfinished
                /\ Head(toWorker[s]).op = "close"
      BY <1>0, <1>2, <2>3, NextInLine DEF WorkerTake, SourceInv
    <3>2. InOrder(s) /\ Take(s)
      BY <2>3, <3>1 DEF WorkerTake, InOrder
    <3>3. toWorker'[s] = << >>
      BY <2>3, <3>1, TailOfOne DEF WorkerTake, TypeOK
    <3>4. UNCHANGED fromWorker /\ wseq'[s] = Head(toWorker[s]).seq
          /\ wreq'[s] = Head(toWorker[s])
          /\ worker'[s] = IF Head(toWorker[s]).op = "close" THEN "exited" ELSE "running"
      BY <3>2 DEF Take, TypeOK
    <3>5. CASE Head(toWorker[s]).op = "close"
      <4>1. worker'[s] = "exited"
        BY <3>4, <3>5
      <4>2. QED
        BY <1>0, <3>1, <3>3, <3>4, <4>1 DEF SourceInv, RequestInv, AnswerInv, WorkerInv,
                                            ThreadInv, AtMostOne
    <3>6. CASE Head(toWorker[s]).op # "close"
      <4>1. /\ worker'[s] = "running" /\ thread[s] = "receiving" /\ op # "startup"
            /\ wreq'[s] = CurrentRequest(s) /\ wseq'[s] = sequences[s] /\ fromWorker[s] = << >>
        BY <3>1, <3>4, <3>6 DEF Unfinished
      <4>2. CurrentRequest(s)' = CurrentRequest(s)
        BY <1>0 DEF CurrentRequest
      <4>3. QED
        BY <1>0, <3>3, <3>4, <4>1, <4>2 DEF SourceInv, RequestInv, AnswerInv, WorkerInv,
                                            ThreadInv
    <3>7. QED BY <3>5, <3>6
  <2>4. CASE WorkerCrash(s)
    <3>1. /\ worker'[s] = "exited" /\ UNCHANGED <<toWorker, fromWorker, wseq, wreq>>
      BY <2>4 DEF WorkerCrash, wireVars, TypeOK
    <3>2. QED
      BY <1>0, <3>1 DEF SourceInv, RequestInv, AnswerInv, WorkerInv, ThreadInv, AtMostOne
  <2>5. QED
    BY <1>2, <2>1, <2>2, <2>3, <2>4 DEF Worker
<1>3. QED BY <1>1, <1>2

LEMMA WireNext == TypeOK /\ WireInv /\ [Next]_vars => WireInv'
<1> SUFFICES ASSUME TypeOK, WireInv, [Next]_vars PROVE WireInv'
  OBVIOUS
<1>1. ASSUME NEW s \in Sources PROVE SourceInv(s)'
  <2>1. CASE UNCHANGED vars
    BY <2>1, WireFrame
    DEF vars, coordVars, threadVars, wireVars, workerVars, WireInv
  <2>2. CASE Coordinator
    BY <2>2, WireCall, WireJoin, WireSpawn, WireAwaitStartup, WireFailing, WireClosing,
       WireSendClose DEF Coordinator
  <2>3. QED
    BY <2>1, <2>2, WireThread, WireWorker DEF Next
<1>2. (op # "step" => sel = Sources)' /\ (pc = "spawning" => op = "startup")'
  <2>1. CASE UNCHANGED <<op, sel>> /\ (pc' = "spawning" => pc = "spawning")
    BY <2>1 DEF WireInv
  <2>2. CASE \E c \in Calls, S \in SUBSET Sources : Call(c, S)
    BY <2>2 DEF Call, Submit, FirstOp
  <2>3. CASE Join
    BY <2>3 DEF Join, JoinStartup, JoinInitState, JoinStep, JoinReset, JoinFinishProbe,
                JoinSetEpisodeLength, Submit, WireInv
  <2>4. QED
    BY <2>1, <2>2, <2>3
    DEF Next, Coordinator, Spawn, SpawnFails, AwaitStartup, JoinFails, Timeout, Fail,
        BeginClose, SendClose, Terminate, Shutdown, Thread, ThreadSend, ThreadReceive,
        ThreadEOF, ThreadCheck, Worker, WorkerReady, WorkerError, WorkerTake, WorkerFinish,
        WorkerCrash, vars, coordVars
<1>3. QED
  BY <1>1, <1>2 DEF WireInv

\* The protocol invariant holds in every reachable state.
LEMMA WireCorrect == Spec => []WireInv
<1>1. QED
  BY WireInit, WireNext, TypeCorrect, PTL DEF Spec

\* No worker is ever given a request out of sequence, however the exchange that
\* preceded it ended and whenever close() caught it.
THEOREM RequestsInOrder == Spec => []NeverOutOfOrder
<1>1. TypeOK /\ WireInv => NeverOutOfOrder
  BY NextInLine DEF WireInv, SourceInv, NeverOutOfOrder, InOrder
<1>2. QED
  BY <1>1, TypeCorrect, WireCorrect, PTL

\* Between two calls no pipe holds anything a later call could mistake for its own.
THEOREM QuietCorrect == Spec => []QuietBetweenCalls
<1>1. TypeOK /\ WireInv => QuietBetweenCalls
  <2> SUFFICES ASSUME TypeOK, WireInv, pc = "idle", NEW s \in Sources
               PROVE  /\ fromWorker[s] = << >>
                      /\ \/ worker[s] = "exited"
                         \/ worker[s] = "listening" /\ toWorker[s] = << >>
                            /\ wseq[s] = sequences[s]
    BY DEF QuietBetweenCalls
  <2>1. thread[s] \in {"none", "done", "failed"} /\ SourceInv(s)
    BY DEF WireInv, SourceInv, ThreadInv
  <2>2. QED
    BY <2>1, QuietSource
<1>2. QED
  BY <1>1, TypeCorrect, WireCorrect, PTL

-----------------------------------------------------------------------------
(* The aggregate state is fresh.                                           *)

\* The exchange in progress has not reached the environment of s.
NotReached(s) ==
  \/ thread[s] \in {"none", "submitted"}
  \/ thread[s] = "receiving" /\ toWorker[s] # << >>
  \/ worker[s] = "running"

\* A good answer shows the environment as it now is, and an operation that does
\* not move the environment leaves the aggregate state up to date.
Truthful(s, r) ==
  r.ok => /\ pc # "idle" => r.stamp = phys[s]
          /\ hasState /\ ~Moves(CurrentRequest(s)) => obs[s] = phys[s]

\* What the coordinator knows of a source while the service is up.
KnownInv(s) ==
  /\ hasState /\ (NotReached(s) \/ pc = "idle") => obs[s] = phys[s]
  /\ fromWorker[s] # << >> => Truthful(s, Head(fromWorker[s]))
  /\ thread[s] \in {"checking", "done"} => Truthful(s, value[s])

\* The operation on the wire belongs to the method in progress.
CallInv ==
  /\ call = "reset_probe" => touched = Sources
  /\ op = "reset_probe" => call = "reset_probe"
  /\ pc = "spawning" \/ op = "startup" => ~hasState

FreshInv == CallInv /\ (pc \notin Down => \A s \in Sources : KnownInv(s))

LEMMA FreshInit == Init => FreshInv
  BY DEF Init, FreshInv, CallInv, KnownInv, NotReached, Truthful

LEMMA CallNext == TypeOK /\ WireInv /\ CallInv /\ [Next]_vars => CallInv'
<1> SUFFICES ASSUME TypeOK, WireInv, CallInv, [Next]_vars PROVE CallInv'
  OBVIOUS
<1>1. CASE UNCHANGED <<call, op, touched, hasState>> /\ (pc' = "spawning" => pc = "spawning")
  BY <1>1 DEF CallInv
<1>2. CASE \E c \in Calls, S \in SUBSET Sources : Call(c, S)
  BY <1>2 DEF Call, Submit, FirstOp, CallInv, Calls
<1>3. CASE Join
  <2>1. CASE op = "startup"
    BY <1>3, <2>1 DEF Join, JoinStartup, JoinInitState, JoinStep, JoinReset, JoinFinishProbe,
                      JoinSetEpisodeLength, CallInv
  <2>2. CASE op # "startup"
    BY <1>3, <2>2 DEF Join, JoinStartup, JoinInitState, JoinStep, JoinReset, JoinFinishProbe,
                      JoinSetEpisodeLength, Submit, CallInv, TypeOK, Calls
  <2>3. QED BY <2>1, <2>2
<1>4. QED
  BY <1>1, <1>2, <1>3
  DEF Next, Coordinator, Spawn, SpawnFails, AwaitStartup, JoinFails, Timeout, Fail, BeginClose,
      SendClose, Terminate, Shutdown, Thread, ThreadSend, ThreadReceive, ThreadEOF, ThreadCheck,
      Worker, WorkerReady, WorkerError, WorkerTake, WorkerFinish, WorkerCrash, vars, coordVars

\* A source keeps its part of the invariant when nothing it mentions changes,
\* except that the coordinator may go down or start waiting.
LEMMA KnownFrame ==
  ASSUME NEW s \in Sources, KnownInv(s),
         pc' = pc \/ (pc = "spawning" /\ pc' = "waiting"),
         UNCHANGED <<op, touched, sequences, hasState, obs>>,
         UNCHANGED <<thread[s], value[s], toWorker[s], fromWorker[s], worker[s], phys[s]>>
  PROVE  KnownInv(s)'
  BY DEF KnownInv, NotReached, Truthful, Moves, CurrentRequest

\* Submitting an exchange once the aggregate state is up to date.
LEMMA KnownSubmit ==
  ASSUME TypeOK, NEW s \in Sources, SourceInv(s),
         NEW o \in Ops, NEW S \in SUBSET Sources, Submit(o, S),
         pc \in {"idle", "waiting"}, pc = "waiting" => Joined,
         hasState' => obs'[s] = phys[s]
  PROVE  KnownInv(s)'
<1>1. thread[s] \in {"none", "done", "failed"}
  BY DEF Joined, SourceInv, ThreadInv
<1>2. fromWorker[s] = << >>
  BY <1>1, QuietSource
<1>3. thread'[s] \in {"submitted", "none"} /\ UNCHANGED <<fromWorker, phys>>
  BY DEF Submit, wireVars, workerVars, TypeOK
<1>4. QED
  BY <1>2, <1>3 DEF KnownInv

\* Returning to the caller with an aggregate state that is up to date.
LEMMA KnownReturn ==
  ASSUME TypeOK, NEW s \in Sources, SourceInv(s), KnownInv(s),
         pc = "waiting", Joined, pc' = "idle",
         UNCHANGED <<threadVars, wireVars, workerVars>>,
         hasState' => obs'[s] = phys[s]
  PROVE  KnownInv(s)'
<1>1. thread[s] \in {"none", "done", "failed"}
  BY DEF Joined, SourceInv, ThreadInv
<1>2. fromWorker[s] = << >>
  BY <1>1, QuietSource
<1>3. UNCHANGED <<thread, value, fromWorker, phys>>
  BY DEF threadVars, wireVars, workerVars
<1>4. QED
  BY <1>2, <1>3 DEF KnownInv, Truthful

\* When an exchange has been accepted, the aggregate state shows the environment
\* of every source it did not move, and the answers show the others.
LEMMA JoinedKnown ==
  ASSUME TypeOK, WireInv, NEW s \in Sources, KnownInv(s),
         pc = "waiting", Joined, \A x \in sel : Accepted(x)
  PROVE  /\ s \in sel => value[s].stamp = phys[s]
         /\ hasState /\ (s \notin sel \/ ~Moves(CurrentRequest(s))) => obs[s] = phys[s]
<1>1. CASE s \in sel
  <2>1. thread[s] = "done" /\ value[s].ok
    BY <1>1 DEF Accepted
  <2>2. QED BY <1>1, <2>1 DEF KnownInv, Truthful
<1>2. CASE s \notin sel
  <2>1. thread[s] = "none"
    BY <1>2 DEF WireInv, SourceInv, ThreadInv
  <2>2. QED BY <1>2, <2>1 DEF KnownInv, NotReached
<1>3. QED BY <1>1, <1>2

LEMMA KnownJoin ==
  ASSUME TypeOK, WireInv, CallInv, Join, NEW s \in Sources, KnownInv(s)
  PROVE  KnownInv(s)'
<1>0. /\ pc = "waiting" /\ Joined /\ \A x \in sel : Accepted(x)
      /\ SourceInv(s)
  BY DEF Join, WireInv
<1>1. /\ s \in sel => value[s].stamp = phys[s]
      /\ hasState /\ (s \notin sel \/ ~Moves(CurrentRequest(s))) => obs[s] = phys[s]
  BY <1>0, JoinedKnown
<1>2. \A S \in SUBSET Sources :
        Merge(S)[s] = IF s \in S THEN value[s].stamp ELSE obs[s]
  BY DEF Merge
<1>3. CASE JoinStartup
  <2>1. ~hasState'
    BY <1>3 DEF JoinStartup, CallInv
  <2>2. QED
    BY <1>0, <1>3, <2>1, KnownReturn DEF JoinStartup
<1>4. op # "step" => sel = Sources
  BY <1>0 DEF WireInv
<1>5. CASE JoinInitState
  <2>1. obs'[s] = phys[s]
    BY <1>1, <1>2, <1>4, <1>5 DEF JoinInitState, Publish
  <2>2. CASE call = "init_state"
    <3>1. pc' = "idle" /\ UNCHANGED <<threadVars, wireVars, workerVars>>
      BY <1>5, <2>2 DEF JoinInitState, Publish, threadVars
    <3>2. QED BY <1>0, <2>1, <3>1, KnownReturn
  <2>3. CASE call # "init_state"
    <3>1. Submit(call, Sources) /\ call \in Ops
      BY <1>5, <2>3 DEF JoinInitState, TypeOK, Ops
    <3>2. QED BY <1>0, <2>1, <3>1, KnownSubmit
  <2>4. QED BY <2>2, <2>3
<1>6. CASE JoinStep
  <2>1. /\ pc' = "idle" /\ UNCHANGED <<threadVars, wireVars, workerVars, hasState>>
        /\ obs' = Merge(sel) /\ sel \in SUBSET Sources
    BY <1>6 DEF JoinStep, Publish, threadVars, TypeOK
  <2>2. hasState' => obs'[s] = phys[s]
    BY <1>1, <1>2, <2>1
  <2>3. QED BY <1>0, <2>1, <2>2, KnownReturn
<1>7. CASE JoinReset
  <2>1. /\ pc' = "idle" /\ UNCHANGED <<threadVars, wireVars, workerVars, hasState>>
        /\ obs' = Merge(touched) /\ touched \in SUBSET Sources /\ sel = Sources
    BY <1>4, <1>7 DEF JoinReset, Publish, threadVars, TypeOK
  <2>2. s \notin touched => ~Moves(CurrentRequest(s))
    BY <1>7 DEF JoinReset, Moves, CurrentRequest, CallInv
  <2>3. hasState' => obs'[s] = phys[s]
    BY <1>1, <1>2, <2>1, <2>2
  <2>4. QED BY <1>0, <2>1, <2>3, KnownReturn
<1>8. CASE JoinFinishProbe
  <2>1. /\ "reset" \in Ops /\ Submit("reset", Sources) /\ UNCHANGED <<hasState, obs>>
        /\ ~Moves(CurrentRequest(s))
    BY <1>8 DEF JoinFinishProbe, Ops, Calls, Moves, CurrentRequest
  <2>2. QED BY <1>0, <1>1, <2>1, KnownSubmit
<1>9. CASE JoinSetEpisodeLength
  <2>1. /\ pc' = "idle" /\ UNCHANGED <<threadVars, wireVars, workerVars, hasState, obs>>
        /\ ~Moves(CurrentRequest(s))
    BY <1>9 DEF JoinSetEpisodeLength, Moves, CurrentRequest
  <2>2. QED BY <1>0, <1>1, <2>1, KnownReturn
<1>10. QED
  BY <1>3, <1>5, <1>6, <1>7, <1>8, <1>9 DEF Join

LEMMA KnownCall ==
  ASSUME TypeOK, WireInv, NEW c \in Calls, NEW S \in SUBSET Sources, Call(c, S),
         NEW s \in Sources, KnownInv(s)
  PROVE  KnownInv(s)'
<1>1. /\ FirstOp(c) \in Ops
      /\ (IF c = "step" THEN S ELSE Sources) \in SUBSET Sources
  BY DEF FirstOp, Calls, Ops
<1>2. /\ pc = "idle" /\ UNCHANGED <<hasState, obs>>
      /\ Submit(FirstOp(c), IF c = "step" THEN S ELSE Sources)
      /\ hasState' => obs'[s] = phys[s]
  BY DEF Call, Callable, KnownInv
<1>3. QED
  BY <1>1, <1>2, KnownSubmit DEF WireInv

LEMMA KnownAwaitStartup ==
  ASSUME TypeOK, WireInv, CallInv, AwaitStartup, NEW s \in Sources, KnownInv(s)
  PROVE  KnownInv(s)'
<1>1. /\ ~hasState' /\ UNCHANGED <<fromWorker, phys>> /\ pc' # "idle" /\ pc = "spawning"
      /\ thread'[s] = "receiving"
  BY DEF AwaitStartup, CallInv, wireVars, workerVars
<1>2. QED
  BY <1>1 DEF KnownInv, Truthful

LEMMA KnownThread ==
  ASSUME TypeOK, WireInv, NEW x \in Sources, Thread(x), NEW s \in Sources, KnownInv(s)
  PROVE  KnownInv(s)'
<1>0. /\ SourceInv(s) /\ thread[x] \in Unfinished
      /\ UNCHANGED <<pc, op, touched, sequences, hasState, obs, worker, phys>>
  BY DEF Thread, ThreadSend, ThreadReceive, ThreadEOF, ThreadCheck, coordVars, workerVars,
         WireInv, Unfinished
<1>1. CASE s # x
  <2>1. UNCHANGED <<thread[s], value[s], toWorker[s], fromWorker[s]>>
    BY <1>1 DEF Thread, ThreadSend, ThreadReceive, ThreadEOF, ThreadCheck, wireVars, TypeOK
  <2>2. QED
    BY <1>0, <2>1, KnownFrame
<1>2. CASE s = x
  <2>0. pc # "idle"
    BY <1>0, <1>2 DEF SourceInv, ThreadInv, Unfinished
  <2>1. CASE ThreadSend(s)
    <3>1. /\ thread[s] = "submitted" /\ thread'[s] \in {"receiving", "failed"}
          /\ UNCHANGED <<fromWorker, value>>
      BY <2>1 DEF ThreadSend, TypeOK
    <3>2. fromWorker[s] = << >>
      BY <1>0, <3>1 DEF SourceInv, AnswerInv
    <3>3. QED
      BY <1>0, <2>0, <3>1, <3>2 DEF KnownInv, NotReached
  <2>2. CASE ThreadReceive(s)
    <3>1. /\ thread[s] = "receiving" /\ thread'[s] = "checking"
          /\ fromWorker[s] # << >> /\ value'[s] = Head(fromWorker[s])
          /\ fromWorker'[s] = Tail(fromWorker[s])
      BY <2>2 DEF ThreadReceive, TypeOK
    <3>2. fromWorker'[s] = << >> /\ worker[s] # "running"
      BY <1>0, <3>1, TailOfOne DEF SourceInv, AnswerInv, WorkerInv, AtMostOne
    <3>3. Truthful(s, Head(fromWorker[s]))
      BY <3>1 DEF KnownInv
    <3>4. Truthful(s, value[s])'
      BY <1>0, <2>0, <3>1, <3>3 DEF Truthful, Moves, CurrentRequest
    <3>5. QED
      BY <1>0, <2>0, <3>1, <3>2, <3>4 DEF KnownInv, NotReached
  <2>3. CASE ThreadEOF(s)
    <3>1. thread'[s] = "failed" /\ fromWorker'[s] = << >> /\ worker[s] # "running"
      BY <2>3 DEF ThreadEOF, wireVars, Gone, TypeOK
    <3>2. QED
      BY <1>0, <2>0, <3>1 DEF KnownInv, NotReached
  <2>4. CASE ThreadCheck(s)
    <3>1. /\ thread[s] = "checking" /\ thread'[s] \in {"done", "failed"}
          /\ UNCHANGED <<value, fromWorker>>
      BY <2>4 DEF ThreadCheck, wireVars, TypeOK
    <3>2. fromWorker[s] = << >> /\ worker[s] # "running"
      BY <1>0, <3>1 DEF SourceInv, AnswerInv, WorkerInv
    <3>3. Truthful(s, value[s])'
      BY <1>0, <2>0, <3>1 DEF KnownInv, Truthful, Moves, CurrentRequest
    <3>4. QED
      BY <1>0, <2>0, <3>1, <3>2, <3>3 DEF KnownInv, NotReached
  <2>5. QED
    BY <1>2, <2>1, <2>2, <2>3, <2>4 DEF Thread
<1>3. QED BY <1>1, <1>2

\* What an answer appends when the pipe is empty.
LEMMA Answered ==
  ASSUME TypeOK, NEW s \in Sources, NEW q, NEW good, NEW v, Answer(s, q, good, v),
         fromWorker[s] = << >>
  PROVE  fromWorker'[s] = << [seq |-> q, ok |-> good, stamp |-> phys'[s], valid |-> v] >>
<1>1. fromWorker'[s] = Append(fromWorker[s],
                              [seq |-> q, ok |-> good, stamp |-> phys'[s], valid |-> v])
  BY DEF Answer, TypeOK
<1>2. QED
  BY <1>1, AppendToNone

LEMMA KnownWorker ==
  ASSUME TypeOK, WireInv, CallInv, NEW x \in Sources, Worker(x), pc \notin Down,
         NEW s \in Sources, KnownInv(s)
  PROVE  KnownInv(s)'
<1>0. /\ SourceInv(s)
      /\ UNCHANGED <<pc, op, touched, sequences, hasState, obs, thread, value>>
  BY DEF Worker, WorkerReady, WorkerError, WorkerTake, WorkerFinish, WorkerCrash, coordVars,
         threadVars, WireInv
<1>1. CASE s # x
  <2>1. UNCHANGED <<fromWorker[s], worker[s], phys[s]>>
    BY <1>1 DEF Worker, WorkerReady, WorkerError, WorkerTake, Take, Refuse, WorkerFinish,
                WorkerCrash, Answer, wireVars, TypeOK
  <2>2. toWorker'[s] = toWorker[s]
    BY <1>1 DEF Worker, WorkerReady, WorkerError, WorkerTake, WorkerFinish, WorkerCrash,
                wireVars, TypeOK
  <2>3. QED BY <1>0, <2>1, <2>2, KnownFrame
<1>2. CASE s = x
  <2>1. CASE WorkerReady(s) \/ (WorkerError(s) /\ worker[s] = "starting")
    <3>1. /\ worker[s] = "starting" /\ ~hasState /\ fromWorker[s] = << >>
          /\ thread[s] \in {"none", "receiving"}
      BY <1>0, <2>1 DEF WorkerReady, SourceInv, WorkerInv
    <3>2. PICK good \in BOOLEAN, v \in BOOLEAN : Answer(s, wseq[s], good, v)
      BY <1>2, <2>1 DEF WorkerReady, WorkerError
    <3>3. fromWorker'[s] = << [seq |-> wseq[s], ok |-> good, stamp |-> phys'[s], valid |-> v] >>
      BY <3>1, <3>2, Answered
    <3>4. QED
      BY <1>0, <3>1, <3>2, <3>3 DEF KnownInv, Truthful
  <2>2. CASE WorkerError(s) /\ worker[s] = "running"
    <3>1. /\ thread[s] = "receiving" /\ fromWorker[s] = << >> /\ toWorker[s] = << >>
          /\ worker'[s] = "exited" /\ UNCHANGED toWorker /\ pc # "idle"
      BY <1>0, <2>2 DEF WorkerError, SourceInv, WorkerInv, ThreadInv, TypeOK
    <3>2. Answer(s, wseq[s], FALSE, FALSE)
      BY <2>2 DEF WorkerError
    <3>3. fromWorker'[s] =
            << [seq |-> wseq[s], ok |-> FALSE, stamp |-> phys'[s], valid |-> FALSE] >>
      BY <3>1, <3>2, Answered
    <3>4. QED
      BY <1>0, <3>1, <3>2, <3>3 DEF KnownInv, Truthful, NotReached
  <2>3. CASE WorkerTake(s)
    <3>1. UNCHANGED <<phys, fromWorker>> /\ toWorker[s] # << >>
      BY <1>0, <2>3, NextInLine DEF WorkerTake, SourceInv, InOrder, Take
    <3>2. thread[s] = "receiving"
      BY <1>0, <2>3 DEF WorkerTake, SourceInv, RequestInv
    <3>3. pc # "idle"
      BY <1>0, <3>2 DEF SourceInv, ThreadInv
    <3>4. NotReached(s)
      BY <3>1, <3>2 DEF NotReached
    <3>5. QED
      BY <1>0, <3>1, <3>2, <3>3, <3>4 DEF KnownInv, Truthful, Moves, CurrentRequest
  <2>4. CASE WorkerFinish(s)
    <3>1. /\ thread[s] = "receiving" /\ fromWorker[s] = << >> /\ toWorker[s] = << >>
          /\ wreq[s] = CurrentRequest(s) /\ pc # "idle"
          /\ worker'[s] = "listening" /\ UNCHANGED toWorker
          /\ hasState => obs[s] = phys[s]
      BY <1>0, <2>4 DEF WorkerFinish, SourceInv, WorkerInv, ThreadInv, TypeOK, KnownInv, NotReached
    <3>2. /\ ~Moves(CurrentRequest(s)) => phys'[s] = phys[s]
      BY <2>4, <3>1 DEF WorkerFinish, TypeOK
    <3>3. PICK v \in BOOLEAN : Answer(s, wseq[s], TRUE, v)
      BY <2>4 DEF WorkerFinish
    <3> DEFINE m == [seq |-> wseq[s], ok |-> TRUE, stamp |-> phys'[s], valid |-> v]
    <3>4. fromWorker'[s] = << m >>
      BY <3>1, <3>3, Answered
    <3>5. Moves(CurrentRequest(s))' <=> Moves(CurrentRequest(s))
      BY <1>0 DEF Moves, CurrentRequest
    <3>6. Truthful(s, Head(fromWorker[s]))'
      BY <1>0, <3>1, <3>2, <3>4, <3>5 DEF Truthful
    <3>7. QED
      BY <1>0, <3>1, <3>4, <3>6 DEF KnownInv, NotReached
  <2>5. CASE WorkerCrash(s)
    <3>1. /\ worker'[s] = "exited" /\ UNCHANGED <<toWorker, fromWorker, phys>>
      BY <2>5 DEF WorkerCrash, wireVars, TypeOK
    <3>2. QED
      BY <1>0, <3>1 DEF KnownInv, NotReached, Truthful, Moves, CurrentRequest
  <2>6. QED
    <3>1. CASE WorkerError(s)
      <4>1. worker[s] = "starting" \/ worker[s] = "running"
        BY <3>1 DEF WorkerError
      <4>2. QED BY <3>1, <4>1, <2>1, <2>2
    <3>2. QED
      BY <1>2, <2>1, <2>3, <2>4, <2>5, <3>1 DEF Worker
<1>3. QED BY <1>1, <1>2

LEMMA FreshNext == TypeOK /\ WireInv /\ FreshInv /\ [Next]_vars => FreshInv'
<1> SUFFICES ASSUME TypeOK, WireInv, FreshInv, [Next]_vars PROVE FreshInv'
  OBVIOUS
<1>1. CallInv'
  BY CallNext DEF FreshInv
<1>2. ASSUME pc' \notin Down, NEW s \in Sources PROVE KnownInv(s)'
  <2>1. pc \notin Down
    BY <1>2 DEF Next, Coordinator, Spawn, SpawnFails, AwaitStartup, Call, Callable, Join,
                JoinFails, Timeout, Fail, BeginClose, SendClose, Terminate, Shutdown, Thread,
                ThreadSend, ThreadReceive, ThreadEOF, ThreadCheck, Worker, WorkerReady,
                WorkerError, WorkerTake, WorkerFinish, WorkerCrash, vars, coordVars, Down
  <2>2. KnownInv(s) /\ CallInv
    BY <2>1 DEF FreshInv
  <2>3. CASE UNCHANGED vars
    BY <2>2, <2>3, KnownFrame DEF vars, coordVars, threadVars, wireVars, workerVars
  <2>4. CASE \E x \in Sources : Spawn(x)
    <3>1. /\ ~hasState' /\ UNCHANGED <<pc, op, touched, sequences, hasState, obs, thread, value,
                                      toWorker, fromWorker, phys>>
      BY <2>2, <2>4 DEF Spawn, CallInv, coordVars, threadVars, wireVars
    <3>2. QED
      BY <2>2, <3>1 DEF KnownInv, Truthful
  <2>5. CASE Coordinator /\ ~\E x \in Sources : Spawn(x)
    <3>1. CASE Join \/ AwaitStartup \/ \E c \in Calls, S \in SUBSET Sources : Call(c, S)
      BY <2>2, <3>1, KnownJoin, KnownAwaitStartup, KnownCall
    <3>2. CASE ~(Join \/ AwaitStartup \/ \E c \in Calls, S \in SUBSET Sources : Call(c, S))
      BY <1>2, <2>1, <2>5, <3>2 DEF Coordinator, SpawnFails, JoinFails, Timeout, Fail, BeginClose,
                              SendClose, Terminate, Shutdown, Down
    <3>3. QED BY <3>1, <3>2
  <2>6. QED
    BY <2>1, <2>2, <2>3, <2>4, <2>5, KnownThread, KnownWorker DEF Next
<1>3. QED
  BY <1>1, <1>2 DEF FreshInv

\* Between two calls the aggregate state shows every source as it now is: no
\* selective step, partial reset, probe or failed exchange leaves a stale span.
THEOREM AggregateIsFresh == Spec => []FreshAggregate
<1>1. TypeOK /\ FreshInv => FreshAggregate
  BY DEF FreshInv, KnownInv, FreshAggregate, Down
<1>2. QED
  BY <1>1, FreshInit, FreshNext, TypeCorrect, WireCorrect, PTL DEF Spec
-----------------------------------------------------------------------------
(* The exchanges implement atomic lockstep calls.                          *)

\* How far a call has come, and what it found.
MethodInv ==
  /\ ~hasState => ~probeActive
  /\ call = "finish_probe" => touched = Sources
  /\ pc = "waiting" /\ op # "startup" =>
       /\ op = "init_state" => ~hasState /\ call \in {"init_state", "reset", "reset_probe"}
       /\ op \in {"step", "reset", "reset_probe", "finish_probe"} => hasState
       /\ op = "reset" => call \in {"reset", "finish_probe"}
       /\ op = "finish_probe" => call = "finish_probe"
       /\ call = "reset_probe" => ~probeActive
       /\ call = "finish_probe" => probeActive

\* Whether the sources are in a probe before and after they serve the request on
\* the wire.
ProbingBefore == IF pc = "waiting" /\ op = "reset" /\ call = "finish_probe" THEN FALSE ELSE probeActive
ProbingAfter  == CASE op = "reset_probe"  -> TRUE
                   [] op = "finish_probe" -> FALSE
                   [] OTHER               -> ProbingBefore

\* An answer shows the source one move, or none, further than the aggregate state.
Exact(s, r) ==
  r.ok /\ pc # "idle" =>
    /\ r.stamp = IF Moves(CurrentRequest(s)) THEN obs[s] + 1 ELSE obs[s]
    /\ probing[s] = ProbingAfter

\* The exchange has not reached the source, or no exchange is in progress.
Pristine(s) == NotReached(s) \/ pc = "idle" \/ worker[s] \in {"unspawned", "starting"}

LinkInv(s) ==
  /\ Pristine(s) => /\ worker[s] # "exited" => obs[s] = phys[s]
                    /\ probing[s] = ProbingBefore
  /\ fromWorker[s] # << >> => Exact(s, Head(fromWorker[s]))
  /\ thread[s] \in {"checking", "done"} => Exact(s, value[s])

StepwiseInv == MethodInv /\ (pc \notin Down => \A s \in Sources : LinkInv(s))

LEMMA StepwiseInit == Init => StepwiseInv
<1> SUFFICES ASSUME Init PROVE StepwiseInv
  OBVIOUS
<1>1. MethodInv
  BY DEF Init, MethodInv
<1>2. ASSUME NEW s \in Sources PROVE LinkInv(s)
  BY DEF Init, LinkInv, ProbingBefore
<1>3. QED BY <1>1, <1>2 DEF StepwiseInv

\* Only a join changes what the caller sees.
LEMMA OnlyJoinShows ==
  ASSUME [Next]_vars, ~Join
  PROVE  UNCHANGED <<hasState, obs, probeActive>>
  BY DEF Next, Coordinator, Spawn, SpawnFails, AwaitStartup, Call, JoinFails, Timeout, Fail,
         BeginClose, SendClose, Terminate, Shutdown, Thread, ThreadSend, ThreadReceive, ThreadEOF,
         ThreadCheck, Worker, WorkerReady, WorkerError, WorkerTake, WorkerFinish, WorkerCrash,
         vars, coordVars

\* A service that is down numbers nothing, shows nothing new and stays down.
LEMMA DownForGood == [Next]_vars => StaysPoisoned
<1> SUFFICES ASSUME [Next]_vars, pc \in Down
             PROVE  pc' \in Down /\ UNCHANGED <<obs, hasState, probeActive, sequences>>
  BY DEF StaysPoisoned
<1>1. ~Join /\ ~\E c \in Calls, S \in SUBSET Sources : Call(c, S)
  BY DEF Join, Call, Callable, Down
<1>2. QED
  BY <1>1
  DEF Next, Coordinator, Spawn, SpawnFails, AwaitStartup, JoinFails, Timeout, Fail, Down,
      BeginClose, SendClose, Terminate, Shutdown, Thread, ThreadSend, ThreadReceive, ThreadEOF,
      ThreadCheck, Worker, WorkerReady, WorkerError, WorkerTake, WorkerFinish, WorkerCrash,
      vars, coordVars

LEMMA MethodNext ==
  ASSUME TypeOK, WireInv, CallInv, MethodInv, [Next]_vars
  PROVE  MethodInv'
<1> USE DEF MethodInv
<1>1. CASE UNCHANGED <<op, call, touched, hasState, probeActive>>
           /\ (pc' = "waiting" => pc = "waiting" \/ op = "startup")
  BY <1>1
<1>2. CASE \E c \in Calls, S \in SUBSET Sources : Call(c, S)
  BY <1>2 DEF Call, Submit, FirstOp, MayCall, Calls, TypeOK
<1>3. CASE Join
  <2>1. CASE JoinInitState
    BY <1>3, <2>1 DEF Join, JoinInitState, Submit
  <2>2. CASE JoinFinishProbe
    BY <1>3, <2>2 DEF Join, JoinFinishProbe, Submit
  <2>3. CASE JoinReset
    BY <1>3, <2>3 DEF Join, JoinReset
  <2>4. CASE JoinStartup \/ JoinStep \/ JoinSetEpisodeLength
    BY <1>3, <2>4 DEF Join, JoinStartup, JoinStep, JoinSetEpisodeLength
  <2>5. QED BY <1>3, <2>1, <2>2, <2>3, <2>4 DEF Join
<1>4. CASE AwaitStartup
  BY <1>4 DEF AwaitStartup, WireInv
<1>5. QED
  BY <1>1, <1>2, <1>3, <1>4
  DEF Next, Coordinator, Spawn, SpawnFails, JoinFails, Timeout, Fail, BeginClose,
      SendClose, Terminate, Shutdown, Thread, ThreadSend, ThreadReceive, ThreadEOF, ThreadCheck,
      Worker, WorkerReady, WorkerError, WorkerTake, WorkerFinish, WorkerCrash, vars, coordVars

\* A source keeps its part of the invariant when nothing it mentions changes.
LEMMA LinkFrame ==
  ASSUME NEW s \in Sources, LinkInv(s),
         pc' = pc,
         UNCHANGED <<call, op, touched, sequences, probeActive, obs>>,
         UNCHANGED <<thread[s], value[s], toWorker[s], fromWorker[s], worker[s], phys[s], probing[s]>>
  PROVE  LinkInv(s)'
  BY DEF LinkInv, Pristine, NotReached, Exact, Moves, CurrentRequest, ProbingBefore, ProbingAfter

\* When an exchange has been accepted, the answers are one move, or none, further
\* than the aggregate state and show every source as it is.
LEMMA JoinedLink ==
  ASSUME TypeOK, WireInv, NEW s \in Sources, KnownInv(s), LinkInv(s),
         pc = "waiting", Joined, \A x \in sel : Accepted(x)
  PROVE  /\ s \in sel =>
              /\ value[s].stamp = phys[s]
              /\ phys[s] = IF Moves(CurrentRequest(s)) THEN obs[s] + 1 ELSE obs[s]
              /\ probing[s] = ProbingAfter
         /\ s \notin sel => probing[s] = ProbingBefore /\ (worker[s] # "exited" => obs[s] = phys[s])
<1>1. CASE s \in sel
  <2>1. thread[s] = "done" /\ value[s].ok
    BY <1>1 DEF Accepted
  <2>2. Exact(s, value[s]) /\ Truthful(s, value[s])
    BY <2>1 DEF LinkInv, KnownInv
  <2>3. QED BY <1>1, <2>1, <2>2 DEF Exact, Truthful
<1>2. CASE s \notin sel
  <2>1. thread[s] = "none"
    BY <1>2 DEF WireInv, SourceInv, ThreadInv
  <2>2. QED BY <1>2, <2>1 DEF LinkInv, Pristine, NotReached
<1>3. QED BY <1>1, <1>2

\* Submitting an exchange, or returning to the caller, with everything up to date.
LEMMA LinkSettled ==
  ASSUME TypeOK, NEW s \in Sources, SourceInv(s),
         pc \in {"idle", "waiting"}, pc = "waiting" => Joined,
         \/ pc' = "idle" /\ UNCHANGED thread
         \/ pc' = "waiting" /\ thread'[s] \in {"none", "submitted"},
         UNCHANGED <<wireVars, workerVars>>,
         worker[s] # "exited" => obs'[s] = phys[s],
         probing[s] = ProbingBefore'
  PROVE  LinkInv(s)'
<1>1. thread[s] \in {"none", "done", "failed"}
  BY DEF Joined, SourceInv, ThreadInv
<1>2. fromWorker[s] = << >>
  BY <1>1, QuietSource
<1>3. UNCHANGED <<fromWorker, phys, worker, probing>>
  BY DEF wireVars, workerVars
<1>4. pc' = "idle" => \A r : Exact(s, r)'
  BY DEF Exact
<1>5. QED
  BY <1>2, <1>3, <1>4 DEF LinkInv

LEMMA LinkCall ==
  ASSUME TypeOK, WireInv, NEW c \in Calls, NEW S \in SUBSET Sources, Call(c, S),
         NEW s \in Sources, LinkInv(s)
  PROVE  LinkInv(s)'
<1>1. /\ pc = "idle" /\ pc' = "waiting" /\ thread'[s] \in {"none", "submitted"}
      /\ UNCHANGED <<obs, probeActive, wireVars, workerVars>> /\ op' = FirstOp(c)
  BY DEF Call, Callable, Submit
<1>2. /\ worker[s] # "exited" => obs[s] = phys[s]
      /\ probing[s] = probeActive
  BY <1>1 DEF LinkInv, Pristine, ProbingBefore
<1>3. call' = c /\ ~(op' = "reset" /\ call' = "finish_probe")
  BY <1>1 DEF Call, FirstOp
<1>4. ProbingBefore' = probeActive
  BY <1>1, <1>3 DEF ProbingBefore
<1>5. QED
  BY <1>1, <1>2, <1>4, LinkSettled DEF WireInv

LEMMA LinkJoin ==
  ASSUME TypeOK, WireInv, CallInv, MethodInv, Join, NEW s \in Sources, KnownInv(s), LinkInv(s)
  PROVE  LinkInv(s)'
<1>0. /\ pc = "waiting" /\ Joined /\ \A x \in sel : Accepted(x)
      /\ SourceInv(s)
  BY DEF Join, WireInv
<1>1. /\ s \in sel =>
           /\ value[s].stamp = phys[s]
           /\ phys[s] = IF Moves(CurrentRequest(s)) THEN obs[s] + 1 ELSE obs[s]
           /\ probing[s] = ProbingAfter
      /\ s \notin sel => probing[s] = ProbingBefore /\ (worker[s] # "exited" => obs[s] = phys[s])
  BY <1>0, JoinedLink
<1>2. \A S \in SUBSET Sources :
        Merge(S)[s] = IF s \in S THEN value[s].stamp ELSE obs[s]
  BY DEF Merge
<1>3. op # "step" => sel = Sources
  BY <1>0 DEF WireInv
<1>4. CASE JoinStartup
  <2>1. /\ pc' = "idle" /\ UNCHANGED <<thread, wireVars, workerVars, obs, probeActive>>
        /\ ~Moves(CurrentRequest(s)) /\ op = "startup"
    BY <1>4 DEF JoinStartup, threadVars, Moves, CurrentRequest
  <2>2. probing[s] = ProbingBefore'
    BY <1>1, <1>3, <2>1 DEF ProbingAfter, ProbingBefore
  <2>3. QED BY <1>0, <1>1, <1>3, <2>1, <2>2, LinkSettled
<1>5. CASE JoinInitState
  <2>1. /\ obs'[s] = phys[s] /\ UNCHANGED <<wireVars, workerVars, probeActive>>
        /\ probing[s] = probeActive
    BY <1>0, <1>1, <1>2, <1>3, <1>5 DEF JoinInitState, Publish, Submit, ProbingAfter, ProbingBefore
  <2>2. CASE call = "init_state"
    <3>1. pc' = "idle" /\ UNCHANGED thread
      BY <1>5, <2>2 DEF JoinInitState
    <3>2. QED BY <1>0, <2>1, <3>1, LinkSettled DEF ProbingBefore
  <2>3. CASE call # "init_state"
    <3>1. /\ pc' = "waiting" /\ thread'[s] \in {"none", "submitted"} /\ UNCHANGED call
          /\ call # "finish_probe"
      BY <1>0, <1>5, <2>3 DEF JoinInitState, Submit, MethodInv
    <3>2. QED BY <1>0, <2>1, <3>1, LinkSettled DEF ProbingBefore
  <2>4. QED BY <2>2, <2>3
<1>6. CASE JoinStep
  <2>1. /\ pc' = "idle" /\ UNCHANGED <<thread, wireVars, workerVars, probeActive>>
        /\ obs' = Merge(sel) /\ sel \in SUBSET Sources /\ op = "step"
    BY <1>6 DEF JoinStep, Publish, TypeOK
  <2>2. worker[s] # "exited" => obs'[s] = phys[s]
    BY <1>1, <1>2, <2>1
  <2>3. probing[s] = ProbingBefore'
    BY <1>1, <2>1 DEF ProbingAfter, ProbingBefore
  <2>4. QED BY <1>0, <2>1, <2>2, <2>3, LinkSettled
<1>7. CASE JoinReset
  <2>1. /\ pc' = "idle" /\ UNCHANGED <<thread, wireVars, workerVars>>
        /\ obs' = Merge(touched) /\ touched \in SUBSET Sources /\ s \in sel
        /\ probeActive' = ProbeAfter(call)
    BY <1>3, <1>7 DEF JoinReset, Publish, TypeOK
  <2>2. s \notin touched => ~Moves(CurrentRequest(s))
    BY <1>7 DEF JoinReset, Moves, CurrentRequest, CallInv
  <2>3. obs'[s] = phys[s]
    BY <1>1, <1>2, <2>1, <2>2
  <2>4. probing[s] = ProbingBefore'
    BY <1>0, <1>1, <1>7, <2>1
       DEF JoinReset, ProbingAfter, ProbingBefore, ProbeAfter, MethodInv, CallInv
  <2>5. QED BY <1>0, <2>1, <2>3, <2>4, LinkSettled
<1>8. CASE JoinFinishProbe
  <2>1. /\ pc' = "waiting" /\ thread'[s] \in {"none", "submitted"} /\ s \in sel
        /\ UNCHANGED <<wireVars, workerVars, obs, call>> /\ op' = "reset"
        /\ op = "finish_probe" /\ call = "finish_probe"
        /\ ~Moves(CurrentRequest(s))
    BY <1>0, <1>3, <1>8 DEF JoinFinishProbe, Submit, Moves, CurrentRequest, MethodInv
  <2>2. probing[s] = ProbingBefore'
    BY <1>1, <2>1 DEF ProbingAfter, ProbingBefore
  <2>3. QED BY <1>0, <1>1, <2>1, <2>2, LinkSettled
<1>9. CASE JoinSetEpisodeLength
  <2>1. /\ pc' = "idle" /\ UNCHANGED <<thread, wireVars, workerVars, obs, probeActive>>
        /\ ~Moves(CurrentRequest(s)) /\ s \in sel /\ op = "set_episode_length_buf"
    BY <1>3, <1>9 DEF JoinSetEpisodeLength, threadVars, Moves, CurrentRequest
  <2>2. probing[s] = ProbingBefore'
    BY <1>1, <2>1 DEF ProbingAfter, ProbingBefore
  <2>3. QED BY <1>0, <1>1, <2>1, <2>2, LinkSettled
<1>10. QED
  BY <1>4, <1>5, <1>6, <1>7, <1>8, <1>9 DEF Join

\* Spawning the workers and starting to wait for them.
LEMMA LinkStartup ==
  ASSUME TypeOK, WireInv, NEW s \in Sources, LinkInv(s),
         AwaitStartup \/ \E x \in Sources : Spawn(x)
  PROVE  LinkInv(s)'
<1>1. /\ pc = "spawning" /\ op = "startup" /\ thread[s] = "none"
      /\ UNCHANGED <<call, op, touched, sequences, probeActive, obs>>
      /\ UNCHANGED <<value, fromWorker, phys, probing>>
      /\ pc' \in {"spawning", "waiting"} /\ thread'[s] \in {"none", "receiving"}
      /\ worker[s] = "exited" => worker'[s] = "exited"
  BY DEF AwaitStartup, Spawn, WireInv, SourceInv, ThreadInv, coordVars, threadVars, wireVars,
         workerVars, TypeOK
<1>2. Pristine(s)
  BY <1>1 DEF Pristine, NotReached
<1>3. QED
  BY <1>1, <1>2 DEF LinkInv, Exact, Moves, CurrentRequest, ProbingBefore, ProbingAfter

LEMMA LinkThread ==
  ASSUME TypeOK, WireInv, NEW x \in Sources, Thread(x), NEW s \in Sources, LinkInv(s)
  PROVE  LinkInv(s)'
<1>0. /\ SourceInv(s) /\ thread[x] \in Unfinished
      /\ UNCHANGED <<pc, call, op, touched, sequences, probeActive, obs, worker, phys, probing>>
  BY DEF Thread, ThreadSend, ThreadReceive, ThreadEOF, ThreadCheck, coordVars, workerVars,
         WireInv, Unfinished
<1>1. CASE s # x
  <2>1. UNCHANGED <<thread[s], value[s], toWorker[s], fromWorker[s]>>
    BY <1>1 DEF Thread, ThreadSend, ThreadReceive, ThreadEOF, ThreadCheck, wireVars, TypeOK
  <2>2. QED
    BY <1>0, <2>1, LinkFrame
<1>2. CASE s = x
  <2>0. pc # "idle"
    BY <1>0, <1>2 DEF SourceInv, ThreadInv, Unfinished
  <2>01. ProbingBefore' = ProbingBefore
    BY <1>0 DEF ProbingBefore
  <2>1. CASE ThreadSend(s)
    <3>1. /\ thread[s] = "submitted" /\ thread'[s] \in {"receiving", "failed"}
          /\ UNCHANGED <<fromWorker, value>>
      BY <2>1 DEF ThreadSend, TypeOK
    <3>2. fromWorker[s] = << >> /\ Pristine(s)
      BY <1>0, <3>1 DEF SourceInv, AnswerInv, Pristine, NotReached
    <3>3. QED
      BY <1>0, <2>01, <3>1, <3>2 DEF LinkInv
  <2>2. CASE ThreadReceive(s)
    <3>1. /\ thread[s] = "receiving" /\ thread'[s] = "checking"
          /\ fromWorker[s] # << >> /\ value'[s] = Head(fromWorker[s])
          /\ fromWorker'[s] = Tail(fromWorker[s])
      BY <2>2 DEF ThreadReceive, TypeOK
    <3>2. /\ fromWorker'[s] = << >> /\ worker[s] \notin {"running", "unspawned", "starting"}
      BY <1>0, <3>1, TailOfOne DEF SourceInv, AnswerInv, WorkerInv, AtMostOne
    <3>3. Exact(s, value[s])'
      <4>1. Exact(s, Head(fromWorker[s]))
        BY <3>1 DEF LinkInv
      <4>2. QED
        BY <1>0, <3>1, <4>1 DEF Exact, Moves, CurrentRequest, ProbingBefore, ProbingAfter
    <3>4. ~Pristine(s)'
      BY <1>0, <2>0, <3>1, <3>2 DEF Pristine, NotReached
    <3>5. QED
      BY <3>2, <3>3, <3>4 DEF LinkInv
  <2>3. CASE ThreadEOF(s)
    <3>1. /\ thread'[s] = "failed" /\ fromWorker'[s] = << >> /\ worker[s] \in Gone
          /\ worker[s] \notin {"running", "starting"} /\ thread[s] = "receiving"
      BY <2>3 DEF ThreadEOF, wireVars, Gone, TypeOK
    <3>2. worker[s] # "unspawned"
      BY <1>0, <3>1 DEF SourceInv, WorkerInv
    <3>3. ~Pristine(s)'
      BY <1>0, <2>0, <3>1, <3>2 DEF Pristine, NotReached
    <3>4. QED
      BY <3>1, <3>3 DEF LinkInv
  <2>4. CASE ThreadCheck(s)
    <3>1. /\ thread[s] = "checking" /\ thread'[s] \in {"done", "failed"}
          /\ UNCHANGED <<value, fromWorker>>
      BY <2>4 DEF ThreadCheck, wireVars, TypeOK
    <3>2. fromWorker[s] = << >> /\ worker[s] \notin {"running", "unspawned", "starting"}
      BY <1>0, <3>1 DEF SourceInv, AnswerInv, WorkerInv
    <3>3. Exact(s, value[s])'
      BY <1>0, <3>1 DEF LinkInv, Exact, Moves, CurrentRequest, ProbingBefore, ProbingAfter
    <3>4. ~Pristine(s)'
      BY <1>0, <2>0, <3>1, <3>2 DEF Pristine, NotReached
    <3>5. QED
      BY <3>1, <3>2, <3>3, <3>4 DEF LinkInv
  <2>5. QED
    BY <1>2, <2>1, <2>2, <2>3, <2>4 DEF Thread
<1>3. QED BY <1>1, <1>2

LEMMA LinkWorker ==
  ASSUME TypeOK, WireInv, CallInv, MethodInv, NEW x \in Sources, Worker(x), pc \notin Down,
         NEW s \in Sources, LinkInv(s)
  PROVE  LinkInv(s)'
<1>0. /\ SourceInv(s)
      /\ UNCHANGED <<pc, call, op, touched, sequences, probeActive, obs, thread, value>>
  BY DEF Worker, WorkerReady, WorkerError, WorkerTake, WorkerFinish, WorkerCrash, coordVars,
         threadVars, WireInv
<1>1. CASE s # x
  <2>1. UNCHANGED <<fromWorker[s], worker[s], phys[s], probing[s]>>
    BY <1>1 DEF Worker, WorkerReady, WorkerError, WorkerTake, Take, Refuse, WorkerFinish,
                WorkerCrash, Answer, wireVars, TypeOK
  <2>2. toWorker'[s] = toWorker[s]
    BY <1>1 DEF Worker, WorkerReady, WorkerError, WorkerTake, WorkerFinish, WorkerCrash,
                wireVars, TypeOK
  <2>3. QED BY <1>0, <2>1, <2>2, LinkFrame
<1>2. CASE s = x
  <2>0. /\ ProbingBefore' = ProbingBefore /\ ProbingAfter' = ProbingAfter
        /\ Moves(CurrentRequest(s))' = Moves(CurrentRequest(s))
    BY <1>0 DEF ProbingBefore, ProbingAfter, Moves, CurrentRequest
  <2>1. CASE WorkerReady(s)
    <3>1. /\ worker[s] = "starting" /\ fromWorker[s] = << >> /\ thread[s] \in {"none", "receiving"}
          /\ worker'[s] = "listening" /\ UNCHANGED <<toWorker, phys, probing>> /\ Pristine(s)
      BY <1>0, <2>1 DEF WorkerReady, SourceInv, WorkerInv, Pristine, TypeOK
    <3>2. PICK v \in BOOLEAN : Answer(s, wseq[s], TRUE, v)
      BY <2>1 DEF WorkerReady
    <3>3. fromWorker'[s] = << [seq |-> wseq[s], ok |-> TRUE, stamp |-> phys'[s], valid |-> v] >>
      <4>1. fromWorker[s] = << >>
        BY <3>1
      <4>2. QED BY <3>2, <4>1, Answered
    <3>4. obs[s] = phys[s] /\ probing[s] = ProbingBefore
      BY <3>1 DEF LinkInv
    <3>5. op = "startup"
      BY <1>0, <3>1 DEF SourceInv, WorkerInv, WireInv, Down
    <3>6. Exact(s, Head(fromWorker[s]))'
      <4>1. ~Moves(CurrentRequest(s)) /\ ProbingAfter = ProbingBefore
        BY <3>5 DEF Moves, CurrentRequest, ProbingAfter
      <4>2. QED BY <1>0, <2>0, <3>1, <3>3, <3>4, <4>1 DEF Exact
    <3>7. QED
      BY <1>0, <2>0, <3>1, <3>4, <3>6 DEF LinkInv
  <2>2. CASE WorkerError(s)
    <3>1. /\ fromWorker[s] = << >> /\ worker'[s] = "exited" /\ UNCHANGED <<toWorker, probing>>
          /\ thread[s] \in {"none", "receiving"}
      BY <1>0, <2>2 DEF WorkerError, SourceInv, WorkerInv, TypeOK
    <3>2. Answer(s, wseq[s], FALSE, FALSE)
      BY <2>2 DEF WorkerError
    <3>3. fromWorker'[s] =
            << [seq |-> wseq[s], ok |-> FALSE, stamp |-> phys'[s], valid |-> FALSE] >>
      BY <3>1, <3>2, Answered
    <3>4. Pristine(s)' => Pristine(s)
      BY <1>0, <3>1 DEF Pristine, NotReached
    <3>5. QED
      BY <1>0, <2>0, <3>1, <3>3, <3>4 DEF LinkInv, Exact
  <2>3. CASE WorkerTake(s)
    <3>1. /\ UNCHANGED <<phys, fromWorker, probing>> /\ toWorker[s] # << >>
          /\ worker[s] = "listening"
      BY <1>0, <2>3, NextInLine DEF WorkerTake, SourceInv, InOrder, Take
    <3>2. thread[s] = "receiving"
      BY <1>0, <2>3 DEF WorkerTake, SourceInv, RequestInv
    <3>3. Pristine(s) /\ fromWorker[s] = << >>
      BY <1>0, <2>3, <3>1, <3>2, NextInLine DEF Pristine, NotReached, SourceInv, Unfinished
    <3>4. QED
      BY <1>0, <2>0, <3>1, <3>2, <3>3 DEF LinkInv
  <2>4. CASE WorkerFinish(s)
    <3>1. /\ thread[s] = "receiving" /\ fromWorker[s] = << >> /\ toWorker[s] = << >>
          /\ wreq[s] = CurrentRequest(s) /\ pc # "idle" /\ Pristine(s)
          /\ worker[s] # "exited" /\ worker'[s] = "listening" /\ UNCHANGED toWorker
      BY <1>0, <2>4 DEF WorkerFinish, SourceInv, WorkerInv, ThreadInv, TypeOK, Pristine, NotReached
    <3>2. obs[s] = phys[s] /\ probing[s] = ProbingBefore
      BY <3>1 DEF LinkInv
    <3>3. phys'[s] = IF Moves(CurrentRequest(s)) THEN obs[s] + 1 ELSE obs[s]
      BY <2>4, <3>1, <3>2 DEF WorkerFinish, TypeOK
    <3>4. probing'[s] = ProbingAfter
      <4>1. probing'[s] = CASE wreq[s].op = "reset_probe"  -> TRUE
                            [] wreq[s].op = "finish_probe" -> FALSE
                            [] OTHER                       -> probing[s]
        BY <2>4 DEF WorkerFinish, TypeOK
      <4>2. wreq[s].op = op
        BY <3>1 DEF CurrentRequest
      <4>3. QED BY <3>2, <4>1, <4>2 DEF ProbingAfter
    <3>5. PICK v \in BOOLEAN : Answer(s, wseq[s], TRUE, v)
      BY <2>4 DEF WorkerFinish
    <3>6. fromWorker'[s] = << [seq |-> wseq[s], ok |-> TRUE, stamp |-> phys'[s], valid |-> v] >>
      BY <3>1, <3>5, Answered
    <3>7. Exact(s, Head(fromWorker[s]))'
      BY <1>0, <2>0, <3>3, <3>4, <3>6 DEF Exact
    <3>8. ~Pristine(s)'
      BY <1>0, <3>1 DEF Pristine, NotReached
    <3>9. QED
      BY <1>0, <3>1, <3>7, <3>8 DEF LinkInv
  <2>5. CASE WorkerCrash(s)
    <3>1. /\ worker'[s] = "exited" /\ UNCHANGED <<toWorker, fromWorker, phys, probing>>
      BY <2>5 DEF WorkerCrash, wireVars, TypeOK
    <3>2. Pristine(s)' => Pristine(s)
      BY <1>0, <3>1 DEF Pristine, NotReached
    <3>3. QED
      BY <1>0, <2>0, <3>1, <3>2 DEF LinkInv, Exact
  <2>6. QED
    BY <1>2, <2>1, <2>2, <2>3, <2>4, <2>5 DEF Worker
<1>3. QED BY <1>1, <1>2

LEMMA StepwiseNext ==
  ASSUME TypeOK, WireInv, FreshInv, StepwiseInv, [Next]_vars
  PROVE  StepwiseInv'
<1>1. MethodInv'
  BY MethodNext DEF FreshInv, StepwiseInv
<1>2. ASSUME pc' \notin Down, NEW s \in Sources PROVE LinkInv(s)'
  <2>1. pc \notin Down
    BY <1>2, DownForGood DEF StaysPoisoned
  <2>2. LinkInv(s) /\ KnownInv(s) /\ CallInv /\ MethodInv
    BY <2>1 DEF FreshInv, StepwiseInv
  <2>3. CASE UNCHANGED vars
    BY <2>2, <2>3, LinkFrame DEF vars, coordVars, threadVars, wireVars, workerVars
  <2>4. CASE Coordinator
    <3>1. CASE Join \/ AwaitStartup \/ (\E x \in Sources : Spawn(x))
               \/ \E c \in Calls, S \in SUBSET Sources : Call(c, S)
      BY <2>2, <3>1, LinkJoin, LinkStartup, LinkCall
    <3>2. CASE ~(Join \/ AwaitStartup \/ (\E x \in Sources : Spawn(x))
                 \/ \E c \in Calls, S \in SUBSET Sources : Call(c, S))
      BY <1>2, <2>1, <2>4, <3>2 DEF Coordinator, SpawnFails, JoinFails, Timeout, Fail, BeginClose,
                              SendClose, Terminate, Shutdown, Down
    <3>3. QED BY <3>1, <3>2
  <2>5. QED
    BY <2>1, <2>2, <2>3, <2>4, LinkThread, LinkWorker DEF Next
<1>3. QED
  BY <1>1, <1>2 DEF StepwiseInv

LEMMA StepwiseCorrect == Spec => [](TypeOK /\ WireInv /\ FreshInv /\ StepwiseInv)
<1>1. QED
  BY StepwiseInit, StepwiseNext, FreshInit, FreshNext, TypeCorrect, WireCorrect, PTL DEF Spec

\* A join moves the sources of a call by one, and only them.
LEMMA JoinMoves ==
  ASSUME TypeOK, WireInv, FreshInv, StepwiseInv, Join,
         NEW S \in SUBSET sel, \A s \in S : Moves(CurrentRequest(s)), obs' = Merge(S)
  PROVE  Service!Moved(S)
<1>1. /\ pc = "waiting" /\ Joined /\ \A x \in sel : Accepted(x)
      /\ sel \subseteq Sources
  BY DEF Join, TypeOK
<1>2. \A s \in Sources : LinkInv(s) /\ KnownInv(s)
  BY <1>1 DEF StepwiseInv, FreshInv, Down
<1>3. \A s \in S : value[s].stamp = obs[s] + 1
  BY <1>1, <1>2, JoinedLink
<1>4. QED
  BY <1>1, <1>3 DEF Merge, Service!Moved

\* Every accepted exchange that changes the aggregate state is one call on the
\* sources it names; every other step is invisible, or poisons the service.
LEMMA LockstepStep ==
  ASSUME TypeOK, WireInv, FreshInv, StepwiseInv, [Next]_vars
  PROVE  [Service!Next]_(Service!vars)
<1> USE DEF Service!vars
<1>1. CASE pc \in Down
  BY <1>1, DownForGood DEF StaysPoisoned
<1>2. CASE pc \notin Down /\ ~Join
  <2>1. UNCHANGED <<hasState, obs, probeActive>>
    BY <1>2, OnlyJoinShows
  <2>2. CASE pc' \in Down
    BY <1>2, <2>1, <2>2 DEF Service!Next, Service!Poison
  <2>3. CASE pc' \notin Down
    BY <1>2, <2>1, <2>3
  <2>4. QED BY <2>2, <2>3
<1>3. CASE pc \notin Down /\ Join
  <2>0. /\ pc = "waiting" /\ MethodInv /\ CallInv /\ sel \subseteq Sources /\ touched \subseteq Sources
        /\ op # "step" => sel = Sources
    BY <1>3 DEF Join, StepwiseInv, FreshInv, TypeOK, WireInv
  <2>1. CASE JoinStartup \/ JoinFinishProbe \/ JoinSetEpisodeLength
    <3>1. pc' \notin Down /\ UNCHANGED <<hasState, obs, probeActive>>
      BY <2>1 DEF JoinStartup, JoinFinishProbe, JoinSetEpisodeLength, Submit, Down
    <3>2. QED BY <1>3, <3>1
  <2>2. CASE JoinInitState
    <3>1. /\ pc' \notin Down /\ hasState' = TRUE /\ ~hasState /\ UNCHANGED probeActive
          /\ obs' = Merge(Sources) /\ sel = Sources
          /\ \A s \in Sources : Moves(CurrentRequest(s))
      BY <2>0, <2>2 DEF JoinInitState, Publish, Submit, MethodInv, Moves, CurrentRequest, Down
    <3>2. Service!Moved(Sources)
      BY <1>3, <3>1, JoinMoves
    <3>3. QED BY <1>3, <3>1, <3>2 DEF Service!Next, Service!Start
  <2>3. CASE JoinStep
    <3>1. /\ pc' \notin Down /\ hasState /\ UNCHANGED <<hasState, probeActive>>
          /\ obs' = Merge(sel) /\ \A s \in sel : Moves(CurrentRequest(s))
      BY <2>0, <2>3 DEF JoinStep, Publish, MethodInv, Moves, CurrentRequest, Down
    <3>2. Service!Moved(sel)
      BY <1>3, <3>1, JoinMoves
    <3>3. Service!Advance(sel)
      BY <1>3, <3>1, <3>2 DEF Service!Advance
    <3>4. QED BY <2>0, <3>3 DEF Service!Next
  <2>4. CASE JoinReset
    <3>1. /\ pc' \notin Down /\ hasState /\ UNCHANGED hasState /\ sel = Sources
          /\ obs' = Merge(touched) /\ \A s \in touched : Moves(CurrentRequest(s))
          /\ probeActive' = ProbeAfter(call)
      BY <2>0, <2>4 DEF JoinReset, Publish, MethodInv, Moves, CurrentRequest, Down
    <3>2. Service!Moved(touched)
      BY <1>3, <2>0, <3>1, JoinMoves
    <3>3. CASE call = "reset_probe"
      <4>1. touched = Sources /\ ~probeActive /\ probeActive' = TRUE
        BY <2>0, <2>4, <3>1, <3>3 DEF CallInv, MethodInv, ProbeAfter, JoinReset
      <4>2. QED BY <1>3, <3>1, <3>2, <4>1 DEF Service!Next, Service!StartProbe
    <3>4. CASE call = "finish_probe"
      <4>1. touched = Sources /\ probeActive /\ probeActive' = FALSE
        BY <2>0, <2>4, <3>1, <3>4 DEF MethodInv, ProbeAfter, JoinReset, CallInv
      <4>2. QED BY <1>3, <3>1, <3>2, <4>1 DEF Service!Next, Service!EndProbe
    <3>5. CASE call = "reset"
      <4>1. UNCHANGED probeActive
        BY <3>1, <3>5 DEF ProbeAfter
      <4>2. Service!Advance(touched)
        BY <1>3, <3>1, <3>2, <4>1 DEF Service!Advance
      <4>3. QED BY <2>0, <4>2 DEF Service!Next
    <3>6. QED
      BY <2>0, <2>4, <3>3, <3>4, <3>5 DEF JoinReset, MethodInv, CallInv
  <2>5. QED
    BY <1>3, <2>1, <2>2, <2>3, <2>4 DEF Join
<1>4. QED BY <1>1, <1>2, <1>3

\* The processes, pipes, pool threads and barriers implement the service of
\* LockstepService: a call takes effect on all its sources at once and exactly
\* once, or the service is poisoned and shows nothing new ever again.
THEOREM LockstepImplemented == Spec => ImplementsLockstep
<1>1. Init => Service!Init
  BY DEF Init, Service!Init, Down
<1>2. TypeOK /\ WireInv /\ FreshInv /\ StepwiseInv /\ [Next]_vars => [Service!Next]_(Service!vars)
  BY LockstepStep
<1>3. QED
  BY <1>1, <1>2, StepwiseCorrect, PTL DEF Spec, ImplementsLockstep, Service!Spec

\* A caller that is between two calls and its sources agree on whether a probe is
\* in progress, whichever of them died, and a service that went down stays down.
THEOREM CallerIsProtected == Spec => CallerProtocol
<1>1. TypeOK /\ WireInv /\ FreshInv /\ StepwiseInv => ProbeAgreement
  BY DEF StepwiseInv, LinkInv, Pristine, ProbingBefore, ProbeAgreement, Down
<1>2. [Next]_vars => StaysPoisoned
  BY DownForGood
<1>3. ProbeAgreement' /\ StaysPoisoned => [ProbeAgreement' /\ StaysPoisoned]_vars
  OBVIOUS
<1>4. QED
  BY <1>1, <1>2, <1>3, StepwiseCorrect, PTL DEF Spec, CallerProtocol
=============================================================================
