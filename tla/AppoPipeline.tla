---------------------------- MODULE AppoPipeline ----------------------------
(***************************************************************************)
(* Asynchronous PPO: a collector process fills the rollout ring with the   *)
(* weights it last pulled; the learner drains the ring into its staging    *)
(* pool, trains, and publishes the actor and then the critic.  Neither     *)
(* ever waits for the other except that the learner waits, with a budget,  *)
(* for the first new rollout of an iteration.                              *)
(*                                                                         *)
(* Composes RolloutRing and WeightSync with the control of                 *)
(* appo_collector_fn, APPORunner.learn and AsyncRunner.                    *)
(***************************************************************************)
EXTENDS Integers

CONSTANTS
  ApNumSlots, ApParts, ApMaxRollouts,   \* of the ring
  Params,                         \* of the weights
  PoolSize,                       \* staging_pool_size
  ApMaxIterations

ASSUME ApNumSlotsAssumption == ApNumSlots \in Nat \ {0}
ASSUME ParamsAssumption == Params \in Nat \ {0}
ASSUME PoolSizeAssumption == PoolSize \in Nat \ {0}
ASSUME ApMaxIterationsAssumption == ApMaxIterations \in Nat \ {0}

VARIABLES
  apWritePtr, apReadPtr, apSlots, apFilled, apPhase, apTodo, apView, apGot,   \* RolloutRing
  shared, apVersion, writing, held, local, reading,             \* WeightSync
  apCollector,   \* where the collector process is, or how it ended
  apStop,        \* _stop_event
  apErrorMsg,    \* the collector's error report in the metrics queue
  apLearner,     \* where the learner is
  apIteration,
  pool,        \* the rollout in each staging slot, by its number; 0 = none
  nextSlot, active

ringVars    == <<apWritePtr, apReadPtr, apSlots, apFilled, apPhase, apTodo, apView, apGot>>
weightVars  == <<shared, apVersion, writing, held, local, reading>>
poolVars    == <<pool, nextSlot, active>>
processVars == <<apCollector, apStop, apErrorMsg>>
apLearnerVars == <<apLearner, apIteration, poolVars>>
apVars == <<ringVars, weightVars, processVars, apLearnerVars>>

Ring == INSTANCE RolloutRing WITH
    NumSlots <- ApNumSlots, Parts <- ApParts, MaxRollouts <- ApMaxRollouts,
    writePtr <- apWritePtr, readPtr <- apReadPtr, slots <- apSlots, filled <- apFilled,
    phase <- apPhase, todo <- apTodo, view <- apView, got <- apGot
Weights == INSTANCE WeightSync WITH version <- apVersion

Gone  == {"died", "exited"}
ApEnded == {"completed", "raised", "closing", "closed"}
PoolSlots == 0 .. PoolSize - 1

ApInit ==
  /\ Ring!Init /\ Weights!Init
  /\ apCollector = "loadActor" /\ apStop = FALSE /\ apErrorMsg = "none"
  /\ apLearner = "metrics" /\ apIteration = 1
  /\ pool = [i \in PoolSlots |-> 0] /\ nextSlot = 0 /\ active = 0

-----------------------------------------------------------------------------
(* The collector process.                                                  *)

Goto(c) == apCollector' = c /\ UNCHANGED <<apStop, apErrorMsg>>

\* One step of copying the weights of network m; the collector goes on to `after`
\* with the version.
Pull(m, after) ==
  /\ UNCHANGED <<ringVars, apLearnerVars>>
  /\ \/ Weights!ReadParam(m) /\ UNCHANGED processVars
     \/ Weights!ReadVersion(m) /\ Goto(after)

\* The initial load does not look at the version first.
LoadInitial ==
  \/ /\ apCollector \in {"loadActor", "loadCritic"}
     /\ Weights!BeginRead(IF apCollector = "loadActor" THEN "actor" ELSE "critic")
     /\ UNCHANGED <<ringVars, apLearnerVars, processVars>>
  \/ apCollector = "loadActor"  /\ Pull("actor", "loadCritic")
  \/ apCollector = "loadCritic" /\ Pull("critic", "top")

\* The head of the collection loop.
ApLoopHead ==
  /\ apCollector = "top"
  /\ Goto(IF apStop THEN "exited" ELSE "actor")
  /\ UNCHANGED <<ringVars, weightVars, apLearnerVars>>

\* Pull network m if its version has moved, and go on.
Refresh(m, after) ==
  /\ apCollector = m
  /\ \/ /\ Weights!Newer(m) /\ Weights!BeginRead(m)
        /\ UNCHANGED <<ringVars, apLearnerVars, processVars>>
     \/ /\ reading[m] = 0 /\ ~Weights!Newer(m)
        /\ Goto(after)
        /\ UNCHANGED <<ringVars, weightVars, apLearnerVars>>
     \/ Pull(m, after)

\* Step the environment and store; after the last step publish the rollout.
ApCollect ==
  /\ apCollector = "collecting"
  /\ UNCHANGED <<weightVars, apLearnerVars>>
  /\ \/ Ring!FillPiece /\ UNCHANGED processVars
     \/ Ring!SignalWriteDone /\ Goto("top")

\* An exception: the worker sets the stop event, the guard around it reports into
\* the metrics queue unless the queue is full, and the process ends.
ApCollectorFails ==
  /\ apCollector \notin Gone
  /\ apCollector' = "died" /\ apStop' = TRUE
  /\ apErrorMsg' \in {"none", "queued"}
  /\ UNCHANGED <<ringVars, weightVars, apLearnerVars>>

\* Killed by a signal: no report, no stop event.
ApCollectorKilled ==
  /\ apCollector \notin Gone
  /\ Goto("died")
  /\ UNCHANGED <<ringVars, weightVars, apLearnerVars>>

ApCollector == \/ LoadInitial \/ ApLoopHead \/ ApCollect
             \/ Refresh("actor", "critic") \/ Refresh("critic", "collecting")
             \/ ApCollectorFails \/ ApCollectorKilled

-----------------------------------------------------------------------------
(* The learner: APPORunner.learn.                                          *)

ApAt(l, next) == apLearner = l /\ apLearner' = next /\ UNCHANGED <<apIteration, poolVars>>

\* An error report raises inside the drain and is caught there.
Drained == IF apErrorMsg = "queued" THEN "seen" ELSE apErrorMsg

DrainMetrics ==
  /\ ApAt("metrics", "waiting") \/ ApAt("metricsAgain", "training")
  /\ apErrorMsg' = Drained
  /\ UNCHANGED <<ringVars, weightVars, apCollector, apStop>>

\* wait_for_data polls available() ...
Poll ==
  /\ apLearner = "waiting"
  /\ UNCHANGED <<weightVars, processVars, apIteration, poolVars>>
  /\ \/ Ring!ClampForCount /\ UNCHANGED apLearner
     \/ /\ Ring!Count
        /\ apLearner' = IF Ring!Available = 0 THEN "empty" ELSE "draining"

\* Mutation: the collector is believed to be alive.
Alive_Assumed == TRUE

ApAlive == apCollector \notin Gone

\* ... and after each slice without data the learner looks at the collector.
CheckAlive ==
  /\ IF ApAlive THEN ApAt("empty", "slice") /\ UNCHANGED apErrorMsg
              ELSE ApAt("empty", "raised") /\ apErrorMsg' = Drained
  /\ UNCHANGED <<ringVars, weightVars, apCollector, apStop>>

NextSlice ==
  /\ ApAt("slice", "waiting")
  /\ UNCHANGED <<ringVars, weightVars, processVars>>

Finished == IF apIteration = ApMaxIterations THEN "completed" ELSE "metrics"

NextIteration ==
  /\ apLearner' = Finished
  /\ apIteration' = IF apIteration = ApMaxIterations THEN apIteration ELSE apIteration + 1

\* Mutation: a timed-out iteration trains on what the pool still has.
AfterTimeout_Train == apLearner' = "training" /\ UNCHANGED apIteration

AfterTimeout == NextIteration

\* The budget of 60 seconds is spent: the iteration is skipped.
Timeout ==
  /\ apLearner = "slice" /\ AfterTimeout
  /\ UNCHANGED <<ringVars, weightVars, processVars, poolVars>>

NextStagingSlot == (nextSlot + 1) % PoolSize

Stage ==
  /\ pool' = [pool EXCEPT ![nextSlot] = apReadPtr + 1]
  /\ nextSlot' = NextStagingSlot
  /\ active' = Ring!Smaller(active + 1, PoolSize)

\* The drain of num_new rollouts into the staging pool.
Drain ==
  /\ apLearner = "draining"
  /\ UNCHANGED <<weightVars, processVars, apIteration>>
  /\ \/ Ring!BorrowViews /\ UNCHANGED <<apLearner, poolVars>>
     \/ (\E p \in Ring!Pieces : Ring!CopyPiece(p)) /\ UNCHANGED <<apLearner, poolVars>>
     \/ /\ Ring!AdvanceRead
        /\ Stage
        /\ apLearner' = IF apTodo = 1 THEN "metricsAgain" ELSE "draining"

\* An empty pool has no batch.
ApTrain ==
  /\ ApAt("training", IF active = 0 THEN "raised" ELSE "publishActor")
  /\ UNCHANGED <<ringVars, weightVars, processVars>>

\* Mutation: the version is bumped before the parameters are there.
PublishStep_VersionFirst(m) ==
  \/ /\ writing[m] = 0
     /\ apVersion' = [apVersion EXCEPT ![m] = @ + 1] /\ writing' = [writing EXCEPT ![m] = 1]
     /\ UNCHANGED <<shared, held, local, reading>>
  \/ /\ writing[m] \in Weights!Names
     /\ shared' = [shared EXCEPT ![m][writing[m]] = apVersion[m]]
     /\ writing' = [writing EXCEPT ![m] = @ + 1]
     /\ UNCHANGED <<apVersion, held, local, reading>>

PublishStep(m) == Weights!BeginWrite(m) \/ Weights!WriteParam(m)

ApPublish(m) ==
  /\ PublishStep(m)
  /\ UNCHANGED <<ringVars, processVars, apLearnerVars>>

PublishActor ==
  \/ apLearner = "publishActor" /\ ApPublish("actor")
  \/ /\ Weights!BumpVersion("actor")
     /\ ApAt("publishActor", "publishCritic")
     /\ UNCHANGED <<ringVars, processVars>>

PublishCritic ==
  \/ apLearner = "publishCritic" /\ ApPublish("critic")
  \/ /\ apLearner = "publishCritic"
     /\ Weights!BumpVersion("critic")
     /\ NextIteration
     /\ UNCHANGED <<ringVars, processVars, poolVars>>

\* AsyncRunner.close: ask the collector to stop, ...
ApClose ==
  /\ ApAt("completed", "closing") \/ ApAt("raised", "closing")
  /\ apStop' = TRUE
  /\ UNCHANGED <<ringVars, weightVars, apCollector, apErrorMsg>>

\* ... join it, terminate it if it does not come, and release the shared memory.
ApReap ==
  /\ ApAt("closing", "closed")
  /\ apCollector' = IF ApAlive THEN "died" ELSE apCollector
  /\ UNCHANGED <<ringVars, weightVars, apStop, apErrorMsg>>

ApLearner == \/ DrainMetrics \/ Poll \/ CheckAlive \/ NextSlice \/ Timeout \/ Drain \/ ApTrain
           \/ PublishActor \/ PublishCritic \/ ApClose \/ ApReap

ApNext == ApCollector \/ ApLearner

ApSpec == ApInit /\ [][ApNext]_apVars

\* The learner is one running thread whose wait has a deadline: it cannot go from
\* slice to slice for ever.  Nothing is assumed of the collector.
ApFairSpec == ApSpec /\ WF_apVars(ApLearner) /\ SF_apVars(Timeout)

-----------------------------------------------------------------------------
(* Properties.                                                             *)

\* Every variable has the type its declaration gives it.
ApTypeOK ==
  /\ Ring!TypeOK /\ Weights!TypeOK
  /\ apCollector \in {"loadActor", "loadCritic", "top", "actor", "critic", "collecting"} \cup Gone
  /\ apStop \in BOOLEAN /\ apErrorMsg \in {"none", "queued", "seen"}
  /\ apLearner \in {"metrics", "waiting", "empty", "slice", "draining", "metricsAgain",
                  "training", "publishActor", "publishCritic"} \cup ApEnded
  /\ apIteration \in 1 .. ApMaxIterations
  /\ pool \in [PoolSlots -> Nat] /\ nextSlot \in PoolSlots /\ active \in 0 .. PoolSize

\* Every published version stands for at least one rollout the learner had not
\* trained on before: a timed-out iteration never re-trains on the old pool.
FreshRolloutPerUpdate ==
  \A m \in Weights!Nets : apVersion[m] - 1 <= apReadPtr

\* The weights a collector starts with are those of one version although it reads
\* them without the lock and takes the version number later: the learner cannot
\* publish before the first rollout, and that comes after the load.
InitialLoadIsWhole ==
  \A m \in Weights!Nets :
    local[m] = 1 /\ reading[m] = 0 => \A n \in Weights!Names : held[m][n] = 1

\* A pull that overlaps a publish may mix versions, but it never leaves the
\* collector with a parameter as old as the version it held before.
PullMakesProgress ==
  [][\A m \in Weights!Nets :
        local'[m] # local[m] => \A n \in Weights!Names : held[m][n] > local[m]]_apVars

\* Training uses the newest rollouts of the pool's capacity: going back from the
\* cursor the staged rollouts only get older, and the active slots are those in use.
PoolHoldsNewest ==
  /\ \A i \in PoolSlots : (pool[i] # 0) <=> (i < active)
  /\ \A i \in PoolSlots :
       LET next == (i + 1) % PoolSize IN
         next # nextSlot /\ pool[next] # 0 => pool[i] < pool[next]

\* learn() returns or raises whatever becomes of the collector.
ApLearnEnds == <>(apLearner \in {"completed", "raised"})

\* A learner that waits on an empty ring for a dead collector raises: it does not
\* spend its remaining iterations on timeouts and report completion.
DeathSurfaces ==
  apCollector \in Gone /\ apLearner = "waiting" /\ apPhase = "idle" /\ apWritePtr = apReadPtr
    ~> apLearner = "raised"

\* What an update is trained on: rollouts not used up, the newest there are.
TrainedOnNewest == FreshRolloutPerUpdate /\ PoolHoldsNewest

\* What the collector acts with: one version to begin with, and newer ones after.
CollectorWeights == []InitialLoadIsWhole /\ PullMakesProgress

\* The end of training, whatever becomes of the collector.
ApTrainingEnds == ApLearnEnds /\ DeathSurfaces
=============================================================================
