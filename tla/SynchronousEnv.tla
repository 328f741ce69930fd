--------------------------- MODULE SynchronousEnv ---------------------------
(***************************************************************************)
(* The multi-source physics service: one coordinator (SynchronousEnv)      *)
(* drives one worker process per source over a pipe.  Every call of the    *)
(* service is one or two barrier exchanges: the coordinator submits one    *)
(* request per selected source to a pool thread, the threads send it and   *)
(* wait for the answer, and the coordinator joins all of them or gives up. *)
(* Any failure closes the whole service.                                   *)
(*                                                                         *)
(* Abstracted: arrays are replaced by a stamp, the number of times the     *)
(* source's environment has changed what it shows; array shapes, metadata  *)
(* and dtypes are the single flag `valid` of an answer.                    *)
(***************************************************************************)
EXTENDS Naturals, Sequences, FiniteSets

CONSTANTS
  Sources,   \* the declared sources
  MaxSeq     \* bound: requests per source, the closing request excluded

ASSUME SourcesAssumption == Sources # {} /\ IsFiniteSet(Sources)
ASSUME MaxSeqAssumption  == MaxSeq \in Nat

VARIABLES
  \* --- the coordinator (attributes of SynchronousEnv) ---
  pc,           \* what the single caller is doing inside the service
  call,         \* the public method in progress
  op,           \* the operation of the exchange in progress
  sel,          \* the sources of the exchange in progress
  touched,      \* reset: the sources with a non-empty index selection
  sequences,    \* _sequences
  hasState,     \* state is not None
  obs,          \* the stamp of each source's span of the aggregate state
  probeActive,  \* _probe_active
  \* --- the pool threads, one future per source (_requests) ---
  thread,
  value,        \* the answer a thread has received
  closing,      \* close requests submitted to the pool and not yet sent
  \* --- the pipes ---
  toWorker, fromWorker,
  \* --- the worker processes ---
  worker,
  wseq,         \* the sequence number of the last request taken
  wreq,         \* the last request taken
  phys,         \* the stamp of the environment itself
  probing       \* the environment's probe instrumentation is on

coordVars  == <<pc, call, op, sel, touched, sequences, hasState, obs, probeActive>>
threadVars == <<thread, value>>
wireVars   == <<toWorker, fromWorker>>
workerVars == <<worker, wseq, wreq, phys, probing>>
vars == <<coordVars, threadVars, closing, wireVars, workerVars>>

Calls == {"init_state", "step", "reset", "reset_probe", "finish_probe",
          "set_episode_length_buf"}
Ops   == Calls \cup {"startup"}
Unfinished == {"submitted", "receiving", "checking"}
Gone  == {"unspawned", "exited"}          \* no process holds the child's end
Down  == {"failing", "closing", "reaping", "closed"}

Request  == [seq : Nat, op : Ops \cup {"close"}, touch : BOOLEAN]
Response == [seq : Nat, ok : BOOLEAN, stamp : Nat, valid : BOOLEAN]

Init ==
  /\ pc = "spawning" /\ call = "init_state" /\ op = "startup" /\ sel = Sources
  /\ touched = {} /\ hasState = FALSE /\ probeActive = FALSE /\ closing = {}
  /\ sequences = [s \in Sources |-> 0]
  /\ obs       = [s \in Sources |-> 0]
  /\ thread    = [s \in Sources |-> "none"]
  /\ value     = [s \in Sources |-> [seq |-> 0, ok |-> FALSE, stamp |-> 0, valid |-> FALSE]]
  /\ toWorker  = [s \in Sources |-> << >>]
  /\ fromWorker = [s \in Sources |-> << >>]
  /\ worker    = [s \in Sources |-> "unspawned"]
  /\ wseq      = [s \in Sources |-> 0]
  /\ wreq      = [s \in Sources |-> [seq |-> 0, op |-> "startup", touch |-> FALSE]]
  /\ phys      = [s \in Sources |-> 0]
  /\ probing   = [s \in Sources |-> FALSE]

-----------------------------------------------------------------------------
(* Construction.                                                           *)

Spawn(s) ==
  /\ pc = "spawning" /\ worker[s] = "unspawned"
  /\ worker' = [worker EXCEPT ![s] = "starting"]
  /\ UNCHANGED <<coordVars, threadVars, closing, wireVars, wseq, wreq, phys, probing>>

\* process.start() raises: the constructor closes what it has started.
SpawnFails ==
  /\ pc = "spawning" /\ \E s \in Sources : worker[s] = "unspawned"
  /\ pc' = "failing"
  /\ UNCHANGED <<call, op, sel, touched, sequences, hasState, obs, probeActive,
                 threadVars, closing, wireVars, workerVars>>

\* The startup exchange sends nothing: its threads only wait for the metadata.
AwaitStartup ==
  /\ pc = "spawning" /\ \A s \in Sources : worker[s] # "unspawned"
  /\ pc' = "waiting"
  /\ thread' = [s \in Sources |-> "receiving"]
  /\ UNCHANGED <<call, op, sel, touched, sequences, hasState, obs, probeActive,
                 value, closing, wireVars, workerVars>>

-----------------------------------------------------------------------------
(* The coordinator: submitting and joining an exchange.                    *)

\* Mutations: unselected sources are numbered too; the
\* numbers of the unselected sources are dropped.
NextSequences_AllSources(S) == [s \in Sources |-> sequences[s] + 1]
NextSequences_Selected(S) == [s \in S |-> sequences[s] + 1]

\* `_exchange`: a new sequence number for every selected source, one future each.
NextSequences(S) == [s \in Sources |-> IF s \in S THEN sequences[s] + 1 ELSE sequences[s]]

Submit(o, S) ==
  /\ pc' = "waiting" /\ op' = o /\ sel' = S
  /\ sequences' = NextSequences(S)
  /\ thread' = [s \in Sources |-> IF s \in S THEN "submitted" ELSE "none"]
  /\ UNCHANGED <<value, closing, wireVars, workerVars>>

\* Mutation: reset does not call init_state() first.
FirstOp_NoInit(c) == c

\* The operation a public method sends first.
FirstOp(c) == IF c \in {"reset", "reset_probe"} /\ ~hasState THEN "init_state" ELSE c

MayCall(c) ==
  /\ c = "init_state"   => ~hasState    \* otherwise the cached state is returned
  /\ c = "step"         => hasState
  /\ c = "reset_probe"  => ~probeActive
  /\ c = "finish_probe" => probeActive

\* Not closed, and no other exchange in flight.
Callable == pc = "idle"

Call(c, S) ==
  /\ Callable /\ MayCall(c)
  /\ c = "step" => S # {}
  /\ c \notin {"step", "reset"} => S = Sources
  /\ \A s \in Sources : sequences[s] < MaxSeq      \* bound
  /\ call' = c /\ touched' = S
  /\ Submit(FirstOp(c), IF c = "step" THEN S ELSE Sources)
  /\ UNCHANGED <<hasState, obs, probeActive>>

Joined == \A s \in sel : thread[s] \in {"done", "failed"}

Accepted(s) ==
  /\ thread[s] = "done"
  /\ value[s].seq = sequences[s]
  /\ value[s].ok

\* `_validate_state`, `_observations`, the metadata checks and the None check of
\* finish_probe: every answer is inspected before any of them is merged.
Valid(S) == \A s \in S : value[s].valid

Merge(S) == [s \in Sources |-> IF s \in S THEN value[s].stamp ELSE obs[s]]

Publish(S) == obs' = Merge(S) /\ UNCHANGED <<closing, wireVars, workerVars, value>>

JoinStartup ==
  /\ op = "startup" /\ pc' = "idle"
  /\ UNCHANGED <<call, op, sel, touched, sequences, hasState, obs, probeActive,
                 threadVars, closing, wireVars, workerVars>>

\* `_aggregate`, then the request the method sends next, if it has one.
JoinInitState ==
  /\ op = "init_state" /\ hasState' = TRUE
  /\ IF call = "init_state"
     THEN /\ pc' = "idle"
          /\ Publish(Sources)
          /\ UNCHANGED <<call, op, sel, touched, sequences, probeActive, thread>>
     ELSE /\ obs' = Merge(Sources)
          /\ Submit(call, Sources)
          /\ UNCHANGED <<call, touched, probeActive>>

JoinStep ==
  /\ op = "step" /\ pc' = "idle"
  /\ Publish(sel)
  /\ UNCHANGED <<call, op, sel, touched, sequences, hasState, probeActive, thread>>

\* Mutation: every reset ends the probe.
ProbeAfter_AnyReset(c) == c = "reset_probe"

ProbeAfter(c) == CASE c = "reset_probe"  -> TRUE
                   [] c = "finish_probe" -> FALSE
                   [] OTHER              -> probeActive

\* `_apply_reset_results`; reset is also the second half of finish_probe.
JoinReset ==
  /\ op \in {"reset", "reset_probe"} /\ pc' = "idle"
  /\ Publish(touched)
  /\ probeActive' = ProbeAfter(call)
  /\ UNCHANGED <<call, op, sel, touched, sequences, hasState, thread>>

JoinFinishProbe ==
  /\ op = "finish_probe"
  /\ Submit("reset", Sources)
  /\ UNCHANGED <<call, touched, hasState, obs, probeActive>>

JoinSetEpisodeLength ==
  /\ op = "set_episode_length_buf" /\ pc' = "idle"
  /\ UNCHANGED <<call, op, sel, touched, sequences, hasState, obs, probeActive,
                 threadVars, closing, wireVars, workerVars>>

Join ==
  /\ pc = "waiting" /\ Joined
  /\ \A s \in sel : Accepted(s)
  /\ Valid(sel)
  /\ \/ JoinStartup \/ JoinInitState \/ JoinStep
     \/ JoinReset \/ JoinFinishProbe \/ JoinSetEpisodeLength

Fail == pc' = "failing"
        /\ UNCHANGED <<call, op, sel, touched, sequences, hasState, obs, probeActive,
                       threadVars, closing, wireVars, workerVars>>

JoinFails ==
  /\ pc = "waiting" /\ Joined
  /\ ~(Valid(sel) /\ \A s \in sel : Accepted(s))
  /\ Fail

\* Mutation: the wait has no deadline and ends early only
\* when some future has raised.
Overdue_FirstException == \E s \in sel : thread[s] = "failed"

\* `wait` may give up as soon as a future is pending.
Overdue == ~Joined

\* `wait` returns with pending futures, or is interrupted.
Timeout ==
  /\ pc = "waiting" /\ Overdue
  /\ Fail

-----------------------------------------------------------------------------
(* close().                                                                *)

\* Mutation: close is sent to every source.
CloseTargets_All == Sources

\* A source whose request is unfinished cannot acknowledge a close.
CloseTargets == {s \in Sources : thread[s] \notin Unfinished}

\* From a failure, or called by the owner between two calls.
BeginClose ==
  /\ pc \in {"failing", "idle"}
  /\ pc' = "closing" /\ closing' = CloseTargets
  /\ UNCHANGED <<call, op, sel, touched, sequences, hasState, obs, probeActive,
                 threadVars, wireVars, workerVars>>

SendClose(s) ==
  /\ pc \in {"closing", "reaping"} /\ s \in closing
  /\ closing' = closing \ {s}
  /\ toWorker' = IF pc = "reaping" \/ worker[s] \in Gone THEN toWorker
                 ELSE [toWorker EXCEPT ![s] =
                         Append(@, [seq |-> sequences[s] + 1, op |-> "close", touch |-> FALSE])]
  /\ UNCHANGED <<coordVars, threadVars, fromWorker, workerVars>>

\* Mutation: only the sources that were told are reaped.
Reaped_ToldOnly == [s \in Sources |-> IF thread[s] \in Unfinished THEN worker[s] ELSE "exited"]

\* The joins are bounded by a deadline; then SIGTERM and SIGKILL reach every
\* process group, whether or not its leader acknowledged the close.
Reaped == [s \in Sources |-> "exited"]

Terminate ==
  /\ pc = "closing"
  /\ pc' = "reaping" /\ worker' = Reaped
  /\ UNCHANGED <<call, op, sel, touched, sequences, hasState, obs, probeActive,
                 threadVars, closing, wireVars, wseq, wreq, phys, probing>>

\* `_pool.shutdown(wait=True)` returns when no pool thread is left.
Shutdown ==
  /\ pc = "reaping" /\ closing = {}
  /\ \A s \in Sources : thread[s] \notin Unfinished
  /\ pc' = "closed"
  /\ UNCHANGED <<call, op, sel, touched, sequences, hasState, obs, probeActive,
                 threadVars, closing, wireVars, workerVars>>

-----------------------------------------------------------------------------
(* The pool threads: `_receive`.                                           *)

\* conn.poll() is true when an answer is waiting or the other end is closed.
Readable(s) == fromWorker[s] # << >> \/ worker[s] \in Gone

CurrentRequest(s) == [seq |-> sequences[s], op |-> op, touch |-> s \in touched]

ThreadSend(s) ==
  /\ thread[s] = "submitted"
  /\ IF Readable(s)
     THEN /\ thread' = [thread EXCEPT ![s] = "failed"]
          /\ UNCHANGED toWorker
     ELSE /\ thread' = [thread EXCEPT ![s] = "receiving"]
          /\ toWorker' = [toWorker EXCEPT ![s] = Append(@, CurrentRequest(s))]
  /\ UNCHANGED <<coordVars, value, closing, fromWorker, workerVars>>

ThreadReceive(s) ==
  /\ thread[s] = "receiving" /\ fromWorker[s] # << >>
  /\ value' = [value EXCEPT ![s] = Head(fromWorker[s])]
  /\ fromWorker' = [fromWorker EXCEPT ![s] = Tail(@)]
  /\ thread' = [thread EXCEPT ![s] = "checking"]
  /\ UNCHANGED <<coordVars, closing, toWorker, workerVars>>

ThreadEOF(s) ==
  /\ thread[s] = "receiving" /\ fromWorker[s] = << >> /\ worker[s] \in Gone
  /\ thread' = [thread EXCEPT ![s] = "failed"]
  /\ UNCHANGED <<coordVars, value, closing, wireVars, workerVars>>

\* A good answer must be the only one, and its worker still there.
ThreadCheck(s) ==
  /\ thread[s] = "checking"
  /\ thread' = [thread EXCEPT ![s] = IF value[s].ok /\ Readable(s) THEN "failed" ELSE "done"]
  /\ UNCHANGED <<coordVars, value, closing, wireVars, workerVars>>

Thread(s) == ThreadSend(s) \/ ThreadReceive(s) \/ ThreadEOF(s) \/ ThreadCheck(s)

-----------------------------------------------------------------------------
(* The worker processes: `_worker`.                                        *)

Answer(s, q, good, v) ==
  fromWorker' = [fromWorker EXCEPT ![s] =
                   Append(@, [seq |-> q, ok |-> good, stamp |-> phys'[s], valid |-> v])]

\* The factory builds the environment and the metadata is sent unasked.
WorkerReady(s) ==
  /\ worker[s] = "starting"
  /\ worker' = [worker EXCEPT ![s] = "listening"]
  /\ UNCHANGED phys
  /\ \E v \in BOOLEAN : Answer(s, wseq[s], TRUE, v)
  /\ UNCHANGED <<coordVars, threadVars, closing, toWorker, wseq, wreq, probing>>

\* An exception anywhere in the worker: it reports and exits.  An environment
\* that failed half-way may have changed.
WorkerError(s) ==
  /\ worker[s] \in {"starting", "running"}
  /\ worker' = [worker EXCEPT ![s] = "exited"]
  /\ \E d \in {0, 1} : phys' = [phys EXCEPT ![s] = @ + d]
  /\ Answer(s, wseq[s], FALSE, FALSE)
  /\ UNCHANGED <<coordVars, threadVars, closing, toWorker, wseq, wreq, probing>>

InOrder(s) == Head(toWorker[s]).seq = wseq[s] + 1

Take(s) ==
  /\ wseq' = [wseq EXCEPT ![s] = Head(toWorker[s]).seq]
  /\ wreq' = [wreq EXCEPT ![s] = Head(toWorker[s])]
  /\ worker' = [worker EXCEPT ![s] =
                  IF Head(toWorker[s]).op = "close" THEN "exited" ELSE "running"]
  /\ UNCHANGED fromWorker

\* An error is reported under the old number.
Refuse(s) ==
  /\ worker' = [worker EXCEPT ![s] = "exited"]
  /\ Answer(s, wseq[s], FALSE, FALSE)
  /\ UNCHANGED <<wseq, wreq>>

WorkerTake(s) ==
  /\ worker[s] = "listening" /\ toWorker[s] # << >>
  /\ toWorker' = [toWorker EXCEPT ![s] = Tail(@)]
  /\ UNCHANGED <<coordVars, threadVars, closing, phys, probing>>
  /\ IF InOrder(s) THEN Take(s) ELSE Refuse(s)

\* Mutation: an empty selection still resets the source.
Moves_EmptyReset(r) == r.op \in {"init_state", "step", "reset_probe", "reset"}

\* What an operation does to the environment: a reset of no index is not
\* passed on, and the last two do not change what the environment shows.
Moves(r) == \/ r.op \in {"init_state", "step", "reset_probe"}
            \/ r.op = "reset" /\ r.touch

WorkerFinish(s) ==
  /\ worker[s] = "running"
  /\ worker' = [worker EXCEPT ![s] = "listening"]
  /\ phys' = [phys EXCEPT ![s] = IF Moves(wreq[s]) THEN @ + 1 ELSE @]
  /\ probing' = [probing EXCEPT ![s] = CASE wreq[s].op = "reset_probe"  -> TRUE
                                         [] wreq[s].op = "finish_probe" -> FALSE
                                         [] OTHER                       -> @]
  /\ \E v \in BOOLEAN : Answer(s, wseq[s], TRUE, v)
  /\ UNCHANGED <<coordVars, threadVars, closing, toWorker, wseq, wreq>>

\* Killed from outside, or dead inside the simulator.
WorkerCrash(s) ==
  /\ worker[s] \in {"starting", "listening", "running"}
  /\ worker' = [worker EXCEPT ![s] = "exited"]
  /\ UNCHANGED <<coordVars, threadVars, closing, wireVars, wseq, wreq, phys, probing>>

Worker(s) == \/ WorkerReady(s) \/ WorkerError(s) \/ WorkerTake(s)
             \/ WorkerFinish(s) \/ WorkerCrash(s)

Coordinator ==
  \/ \E s \in Sources : Spawn(s) \/ SendClose(s)
  \/ SpawnFails \/ AwaitStartup
  \/ \E c \in Calls, S \in SUBSET Sources : Call(c, S)
  \/ Join \/ JoinFails \/ Timeout
  \/ BeginClose \/ Terminate \/ Shutdown

Next == Coordinator \/ \E s \in Sources : Thread(s) \/ Worker(s)

\* The coordinator and the pool threads are ordinary running threads and every
\* wait of theirs has a deadline; nothing is assumed of the workers, and the
\* owner need not call again.
Fairness ==
  /\ \A s \in Sources : WF_vars(Thread(s)) /\ WF_vars(SendClose(s)) /\ WF_vars(Spawn(s))
  /\ WF_vars(AwaitStartup) /\ WF_vars(Join) /\ WF_vars(JoinFails) /\ WF_vars(Timeout)
  /\ WF_vars(BeginClose /\ pc = "failing") /\ WF_vars(Terminate) /\ WF_vars(Shutdown)

Spec == Init /\ [][Next]_vars
FairSpec == Spec /\ Fairness

-----------------------------------------------------------------------------
(* Properties.                                                             *)

\* Every variable has the type its declaration gives it.
TypeOK ==
  /\ pc \in {"spawning", "idle", "waiting"} \cup Down
  /\ call \in Calls /\ op \in Ops
  /\ sel \subseteq Sources /\ touched \subseteq Sources /\ closing \subseteq Sources
  /\ sequences \in [Sources -> Nat] /\ obs \in [Sources -> Nat]
  /\ hasState \in BOOLEAN /\ probeActive \in BOOLEAN
  /\ thread \in [Sources -> {"none", "done", "failed"} \cup Unfinished]
  /\ value \in [Sources -> Response]
  /\ toWorker \in [Sources -> Seq(Request)] /\ fromWorker \in [Sources -> Seq(Response)]
  /\ worker \in [Sources -> {"starting", "listening", "running"} \cup Gone]
  /\ wseq \in [Sources -> Nat] /\ wreq \in [Sources -> Request]
  /\ phys \in [Sources -> Nat] /\ probing \in [Sources -> BOOLEAN]

\* Between two calls the aggregate state the caller acts on shows the present
\* state of every source's environment, also of the sources a selective step or
\* a partial reset left alone.
FreshAggregate ==
  pc = "idle" /\ hasState => \A s \in Sources : obs[s] = phys[s]

\* Between two calls nothing is left in a pipe that a later call could take for
\* its own answer, and a living worker waits for exactly the next number.
QuietBetweenCalls ==
  pc = "idle" => \A s \in Sources :
    /\ fromWorker[s] = << >>
    /\ \/ worker[s] = "exited"
       \/ worker[s] = "listening" /\ toWorker[s] = << >> /\ wseq[s] = sequences[s]

\* Whatever failed, and whenever the close was sent, no worker is ever given a
\* request out of sequence: its own sequence check is only a last resort.
NeverOutOfOrder ==
  \A s \in Sources :
    worker[s] = "listening" /\ toWorker[s] # << >> => InOrder(s)

\* Between two calls the coordinator and every source agree on whether a probe
\* episode is in progress, so no training step runs under probe instrumentation.
ProbeAgreement ==
  pc = "idle" => \A s \in Sources : probing[s] = probeActive

\* A failed or closed service publishes nothing, numbers no further request, and
\* never opens again: a request that may have reached the physics is not retried.
StaysPoisoned ==
  pc \in Down => /\ pc' \in Down
                 /\ UNCHANGED <<obs, hasState, probeActive, sequences>>

\* A call returns or fails, whatever the workers do: a source that hangs or dies
\* cannot hold the caller in the barrier.
CallsReturn == pc = "waiting" ~> pc \in {"idle", "closed"}

\* Every closed service ends with no worker process and no busy pool thread.
CloseCompletes ==
  pc \in Down ~> /\ pc = "closed"
                 /\ \A s \in Sources : worker[s] \in Gone /\ thread[s] \notin Unfinished

\* The exchanges implement atomic lockstep calls.
Service == INSTANCE LockstepService WITH
  open  <- pc \notin Down,
  ready <- hasState,
  world <- obs,
  probe <- probeActive

ImplementsLockstep == Service!Spec

\* What a caller may rely on about probes and about a service that failed.
CallerProtocol == [][ProbeAgreement' /\ StaysPoisoned]_vars
=============================================================================
