-------------------------- MODULE InferenceExchange --------------------------
(***************************************************************************)
(* Off-policy training with learner-owned inference: the collector process *)
(* owns no policy.  For every tick it puts its observation into a shared   *)
(* slot and the tick number into a request queue; the learner answers with *)
(* an action in the slot and the tick number in a response queue, and      *)
(* while the collector steps the environment the learner samples a batch   *)
(* that was prefetched up to a replay boundary, updates and asks for the   *)
(* next batch.                                                             *)
(*                                                                         *)
(* Composes SharedInferenceSlot, _LearnerInferenceScheduler, the loop of   *)
(* off_policy_collector_fn and the loop of DoubleBufferOffPolicyRunner.    *)
(* The replay path, GpuResidentReplay in detail, is reduced here to how    *)
(* many transitions have been published and committed.  Rows are counted   *)
(* in transitions (num_envs rows each).                                    *)
(***************************************************************************)
EXTENDS Integers, Sequences

CONSTANTS
  StepsPerSync,   \* env_steps_per_sync
  Threshold,      \* transitions needed before the first update
  MaxIterations   \* max_iterations

ASSUME StepsAssumption == StepsPerSync \in Nat \ {0} /\ Threshold \in Nat
ASSUME MaxIterationsAssumption == MaxIterations \in Nat \ {0}

VARIABLES
  \* --- shared between the processes ---
  slot,        \* SharedInferenceSlot: state, request and response tick, version
  requests, responses,   \* the two queues, maxsize 1
  published,   \* transitions added to the replay ingress
  errorMsg,    \* an error report is in the metrics queue
  stop,        \* _stop_event
  \* --- the collector ---
  collector,
  tick,        \* inference_tick
  acted,       \* the version of the last action it consumed
  \* --- the learner ---
  learner, iteration,
  served,      \* the request being served
  nextTick, pending, sinceUpdate, version,   \* the scheduler
  frozen,      \* next_prepare_min_snapshot_ptr, -1 = None
  required,    \* the boundary the coming batch is prepared up to
  prepared,    \* prepared_tick
  gathered,    \* the batch that was asked for has been gathered
  committed    \* transitions the device has committed

sharedVars    == <<slot, requests, responses, published, errorMsg, stop>>
collectorVars == <<collector, tick, acted>>
schedulerVars == <<nextTick, pending, sinceUpdate, version>>
replayVars    == <<frozen, required, prepared, gathered, committed>>
learnerVars   == <<learner, iteration, served, schedulerVars, replayVars>>
exvars == <<sharedVars, collectorVars, learnerVars>>

Dead  == {"died", "exited"}
Ended == {"completed", "raised", "closing", "closed"}

ExInit ==
  /\ slot = [state |-> "idle", request |-> -1, response |-> -1, version |-> -1]
  /\ requests = << >> /\ responses = << >>
  /\ published = 0 /\ errorMsg = FALSE /\ stop = FALSE
  /\ collector = "top" /\ tick = 0 /\ acted = 0
  /\ learner = "requested" /\ iteration = 1 /\ served = 0
  /\ nextTick = 0 /\ pending = -1 /\ sinceUpdate = 0 /\ version = 0
  /\ frozen = -1 /\ required = 0 /\ prepared = 0 /\ gathered = FALSE /\ committed = 0

-----------------------------------------------------------------------------
(* The collector.                                                          *)

Move(from, to) == collector = from /\ collector' = to

LoopHead ==
  /\ Move("top", IF stop THEN "exited" ELSE "observing")
  /\ UNCHANGED <<sharedVars, tick, acted, learnerVars>>

PublishObservation ==
  /\ Move("observing", "requesting")
  /\ slot.state = "idle"
  /\ slot' = [slot EXCEPT !.state = "observation", !.request = tick]
  /\ UNCHANGED <<requests, responses, published, errorMsg, stop, tick, acted, learnerVars>>

PutRequest ==
  /\ Move("requesting", "waiting")
  /\ ~stop /\ requests = << >>
  /\ requests' = << tick >>
  /\ UNCHANGED <<slot, responses, published, errorMsg, stop, tick, acted, learnerVars>>

GetResponse ==
  /\ Move("waiting", "consuming")
  /\ ~stop /\ responses # << >> /\ Head(responses) = tick
  /\ responses' = Tail(responses)
  /\ UNCHANGED <<slot, requests, published, errorMsg, stop, tick, acted, learnerVars>>

\* Both waits end when the run is stopped.
StopSeen ==
  /\ Move("requesting", "exited") \/ Move("waiting", "exited")
  /\ stop
  /\ UNCHANGED <<sharedVars, tick, acted, learnerVars>>

Consumed == [slot EXCEPT !.state = "idle"]

ConsumeAction ==
  /\ Move("consuming", "stepping")
  /\ slot.state = "action" /\ slot.response = tick
  /\ slot' = Consumed
  /\ acted' = slot.version
  /\ tick' = tick + 1
  /\ UNCHANGED <<requests, responses, published, errorMsg, stop, learnerVars>>

\* env.step, then replay_buffer.add; a stopped run drops the transition when the
\* ingress is full.
StepAndStore ==
  /\ Move("stepping", "top")
  /\ published' \in {published + 1} \cup (IF stop THEN {published} ELSE {})
  /\ UNCHANGED <<slot, requests, responses, errorMsg, stop, tick, acted, learnerVars>>

\* An exception: a failed step, a wait of 30 seconds that has timed out, or a slot
\* or a tick that is not the expected one.  The guard reports it unless the metrics
\* queue is full and stops the run.
CollectorFails ==
  /\ collector \notin Dead
  /\ collector' = "died" /\ stop' = TRUE
  /\ errorMsg' \in {errorMsg, TRUE}
  /\ UNCHANGED <<slot, requests, responses, published, tick, acted, learnerVars>>

CollectorKilled ==
  /\ collector \notin Dead
  /\ collector' = "died"
  /\ UNCHANGED <<sharedVars, tick, acted, learnerVars>>

Collector == \/ LoopHead \/ PublishObservation \/ PutRequest \/ GetResponse \/ StopSeen
             \/ ConsumeAction \/ StepAndStore \/ CollectorFails \/ CollectorKilled

-----------------------------------------------------------------------------
(* The learner.                                                            *)

Alive == collector \notin Dead

Go(from, to) == learner = from /\ learner' = to

\* _wait_for_inference_request.
GetRequest ==
  /\ Go("requested", "serving")
  /\ requests # << >> /\ Head(requests) = nextTick
  /\ served' = Head(requests)
  /\ requests' = Tail(requests)
  /\ UNCHANGED <<slot, responses, published, errorMsg, stop, collectorVars, iteration, schedulerVars,
                 replayVars>>

\* Mutation: only a reported error ends the wait.
RequestWaitOver_Reported   == errorMsg

\* A reported error, a dead collector or the deadline, which may pass at any time.
RequestWaitOver == TRUE

\* While the queue is empty: the metrics, the collector's life and the deadline.
RequestWaitFails ==
  /\ Go("requested", "raised")
  /\ requests = << >> /\ RequestWaitOver
  /\ errorMsg' = FALSE
  /\ UNCHANGED <<slot, requests, responses, published, stop, collectorVars, iteration, served,
                 schedulerVars, replayVars>>

ActionVersion == version

\* _serve_learner_inference and record_inference.
Serve ==
  /\ Go("serving", "freezing")
  /\ slot.state = "observation" /\ slot.request = served
  /\ slot' = [slot EXCEPT !.state = "action", !.response = served, !.version = ActionVersion]
  /\ pending' = served /\ nextTick' = nextTick + 1 /\ sinceUpdate' = sinceUpdate + 1
  /\ UNCHANGED <<requests, responses, published, errorMsg, stop, collectorVars, iteration, served,
                 version, replayVars>>

UpdateReady == sinceUpdate >= StepsPerSync

Freeze ==
  /\ frozen' = IF UpdateReady THEN published + StepsPerSync ELSE frozen
  /\ pending' = -1

PutResponse ==
  /\ responses = << >>
  /\ responses' = << served >>

\* Mutation: the action is released before the boundary is frozen.
Release_First ==
  \/ Go("freezing", "releasing") /\ PutResponse /\ UNCHANGED <<frozen, pending>>
  \/ Go("releasing", "progress") /\ Freeze /\ UNCHANGED responses

\* _release_inference_tick: the next boundary is counted from what is published while
\* the collector still waits; then the action is released.
Release ==
  \/ Go("freezing", "releasing") /\ Freeze /\ UNCHANGED responses
  \/ Go("releasing", "progress") /\ PutResponse /\ UNCHANGED <<frozen, pending>>

ReleaseTick ==
  /\ Release
  /\ UNCHANGED <<slot, requests, published, errorMsg, stop, collectorVars, iteration, served,
                 nextTick, sinceUpdate, version, required, prepared, gathered, committed>>

\* The error report, if there is one, ends the run at the next look at the metrics.
MetricsRaise ==
  /\ Go("progress", "raised") \/ Go("awaiting", "raised")
  /\ errorMsg
  /\ errorMsg' = FALSE
  /\ UNCHANGED <<slot, requests, responses, published, stop, collectorVars, iteration, served,
                 schedulerVars, replayVars>>

\* progress(wait=True).
Progress ==
  /\ Go("progress", "deciding")
  /\ ~errorMsg
  /\ committed' = published
  /\ UNCHANGED <<sharedVars, collectorVars, iteration, served, schedulerVars, frozen, required,
                 prepared, gathered>>

UpdateDue == committed >= Threshold /\ UpdateReady

AnotherTick ==
  /\ Go("deciding", "requested")
  /\ ~UpdateDue
  /\ UNCHANGED <<sharedVars, collectorVars, iteration, served, schedulerVars, replayVars>>

BeginUpdate ==
  /\ Go("deciding", "awaiting")
  /\ UpdateDue
  /\ IF prepared = iteration THEN UNCHANGED <<required, prepared, gathered>>
     ELSE required' = committed /\ prepared' = iteration /\ gathered' = FALSE
  /\ UNCHANGED <<sharedVars, collectorVars, iteration, served, schedulerVars, frozen, committed>>

\* The daemon thread commits what has been published and gathers the batch once its
\* boundary is committed.
DaemonCommits ==
  /\ committed < published
  /\ committed' = published
  /\ UNCHANGED <<sharedVars, collectorVars, learner, iteration, served, schedulerVars, frozen,
                 required, prepared, gathered>>

DaemonGathers ==
  /\ prepared > 0 /\ ~gathered
  /\ committed >= required
  /\ gathered' = TRUE
  /\ UNCHANGED <<sharedVars, collectorVars, learner, iteration, served, schedulerVars, frozen,
                 required, prepared, committed>>

\* batch_ready, sample_large_batch and the prefetch of the next batch.
SampleAndPrefetch ==
  /\ Go("awaiting", "updating")
  /\ gathered
  /\ IF iteration < MaxIterations
     THEN required' = frozen /\ prepared' = iteration + 1 /\ gathered' = FALSE
     ELSE UNCHANGED <<required, prepared, gathered>>
  /\ UNCHANGED <<sharedVars, collectorVars, iteration, served, schedulerVars, frozen, committed>>

\* The batch is not there yet and the collector is gone.
BatchWaitFails ==
  /\ Go("awaiting", "raised")
  /\ ~gathered /\ ~Alive
  /\ UNCHANGED <<sharedVars, collectorVars, iteration, served, schedulerVars, replayVars>>

FinishUpdate ==
  /\ learner = "updating"
  /\ UpdateReady /\ pending = -1
  /\ version' = version + 1 /\ sinceUpdate' = 0
  /\ frozen' = -1
  /\ learner' = IF iteration < MaxIterations THEN "requested" ELSE "completed"
  /\ iteration' = IF iteration < MaxIterations THEN iteration + 1 ELSE iteration
  /\ UNCHANGED <<sharedVars, collectorVars, served, nextTick, pending, required, prepared, gathered,
                 committed>>

\* AsyncRunner.close: stop, join, terminate.
Close ==
  /\ Go("completed", "closing") \/ Go("raised", "closing")
  /\ stop' = TRUE
  /\ UNCHANGED <<slot, requests, responses, published, errorMsg, collectorVars, iteration, served,
                 schedulerVars, replayVars>>

Reap ==
  /\ Go("closing", "closed")
  /\ collector' = IF Alive THEN "died" ELSE collector
  /\ UNCHANGED <<sharedVars, tick, acted, iteration, served, schedulerVars, replayVars>>

LearnerThread ==
  \/ GetRequest \/ RequestWaitFails \/ Serve \/ ReleaseTick \/ MetricsRaise \/ Progress
  \/ AnotherTick \/ BeginUpdate \/ SampleAndPrefetch \/ BatchWaitFails \/ FinishUpdate
  \/ Close \/ Reap

Daemon == DaemonCommits \/ DaemonGathers

ExNext == Collector \/ LearnerThread \/ Daemon

ExSpec == ExInit /\ [][ExNext]_exvars

\* The learner and its daemon are running threads and the wait for a request has a
\* deadline.  Nothing is assumed of the collector.
ExFairSpec == ExSpec /\ WF_exvars(LearnerThread) /\ WF_exvars(Daemon)

-----------------------------------------------------------------------------
(* Properties.                                                             *)

\* Every variable has the type its declaration gives it.
ExTypeOK ==
  /\ slot \in [state : {"idle", "observation", "action"}, request : Nat \cup {-1},
               response : Nat \cup {-1}, version : Nat \cup {-1}]
  /\ requests \in Seq(Nat) /\ responses \in Seq(Nat)
  /\ Len(requests) <= 1 /\ Len(responses) <= 1
  /\ published \in Nat /\ errorMsg \in BOOLEAN /\ stop \in BOOLEAN
  /\ collector \in {"top", "observing", "requesting", "waiting", "consuming", "stepping"} \cup Dead
  /\ tick \in Nat /\ acted \in Nat
  /\ learner \in {"requested", "serving", "freezing", "releasing", "progress", "deciding",
                  "awaiting", "updating"} \cup Ended
  /\ iteration \in 1 .. MaxIterations /\ served \in Nat
  /\ nextTick \in Nat /\ pending \in Nat \cup {-1} /\ sinceUpdate \in Nat
  /\ version \in 0 .. MaxIterations
  /\ frozen \in Nat \cup {-1} /\ required \in Nat /\ committed \in Nat
  /\ prepared \in 0 .. MaxIterations /\ gathered \in BOOLEAN

\* The exchange keeps the slot and the two queues in step: whoever comes to them finds
\* the state and the tick it asks for, so that none of the RuntimeErrors about slot
\* reuse, missing observations, missing actions or tick mismatches can be raised.
ExchangeInStep ==
  /\ collector = "observing" => slot.state = "idle"
  /\ collector = "requesting" => requests = << >>
  /\ collector = "waiting" /\ responses # << >> => Head(responses) = tick
  /\ collector = "consuming" => slot.state = "action" /\ slot.response = tick
  /\ learner = "requested" /\ requests # << >> => Head(requests) = nextTick
  /\ learner = "serving" => slot.state = "observation" /\ slot.request = served
  /\ learner = "releasing" => responses = << >>

\* The learner never waits for a batch whose rows only its own next answer could
\* bring: what the prefetch requires has been published when it is waited for.
BoundaryPublished == learner = "awaiting" => published >= required

\* The environment is stepped with the actions of the current policy or of the one
\* before the update that overlaps the step, never of an older one.
AtMostOneUpdateBehind ==
  collector = "stepping" => acted \in {version, version - 1}

\* After the first update there is exactly one update for every StepsPerSync ticks:
\* a training run keeps its ratio of updates to environment steps.
RatioKept ==
  learner = "updating" /\ iteration > 1 => sinceUpdate = StepsPerSync

\* learn() returns or raises whatever the collector does.
LearnEnds == <>(learner \in {"completed", "raised"})

\* A collector that dies cannot be outlived by more than the update its last request
\* belongs to: a run that still needs two more iterations raises.
DeathStopsTraining ==
  ~Alive /\ learner \notin Ended /\ iteration + 1 < MaxIterations ~> learner = "raised"

\* Neither the exchange nor the prefetch waits for what cannot come, and acting
\* and learning keep their distance and their ratio.
SlotExchangeSound == ExchangeInStep /\ BoundaryPublished /\ AtMostOneUpdateBehind /\ RatioKept

\* The end of training, whatever the collector does.
TrainingEnds == LearnEnds /\ DeathStopsTraining
=============================================================================
