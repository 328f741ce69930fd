------------------------------ MODULE ManagerEnv ------------------------------
(***************************************************************************)
(* base/np_env.py, envs/manager_based_rl_env.py and managers/: one batch   *)
(* of environments, the control step with its managers in their fixed      *)
(* order, the autoreset inside the step and the reset a caller asks for.   *)
(* Each manager's turn is an action; pc says whose turn it is.             *)
(*                                                                         *)
(* Rewards, metrics and actions are abstracted to how many of them are in  *)
(* an accumulator or whether they are zero; an observation is the episode  *)
(* and the age of the environment it was computed at; the simulator is     *)
(* abstracted to whether a row has changed since it was last observed, and *)
(* the per-phase cache of state reads to whether what it holds is stale.   *)
(***************************************************************************)
EXTENDS Naturals, FiniteSets

CONSTANTS Env,
          MaxLen,        \* max_episode_length, in control steps
          CmdMax,        \* the longest resampling time of a command, in steps
          PushMax,       \* the longest interval of an interval event, in steps
          MinGap,        \* min_step_count_between_reset of a reset event
          MaxOffset,     \* the largest initial length a runner draws, below max_episode_length
          MaxSteps, MaxResets  \* bounds of the model

ASSUME EnvAssumption ==
    /\ MaxLen \in Nat \ {0} /\ CmdMax \in Nat \ {0} /\ PushMax \in Nat \ {0}
    /\ MaxOffset \in 0 .. MaxLen - 1
    /\ MinGap \in Nat /\ MaxSteps \in Nat /\ MaxResets \in Nat

VARIABLES
    pc, autoreset, finite,          \* cfg.auto_reset and cfg.is_finite_horizon
    built,                          \* _state is not None
    inAuto,                         \* _autoreset_reset_active
    ids,                            \* the rows under reset
    counter,                        \* step_counter
    steps, epLen,                   \* info["steps"], episode_length_buf
    terminated, truncated, resetBuf,
    pending,                        \* _manual_reset_pending
    obs, final, finalMask,          \* state.obs, final_observation, its mask
    hasTransition,
    action, prevAction, prevPrevAction,  \* the rows where each is not zero
    rewardSum, metricSteps,
    cmdLeft, cmdCount, pushLeft,
    lastTriggered, triggeredOnce,   \* of one gated reset event
    cache,                          \* off, empty, fresh or stale
    current,                        \* the rows unchanged since they were observed
    episode, age, offset, endedAt,  \* ghosts: what the accumulators should amount to
    stepObs, preReset,              \* ghosts: what the recorder is shown
    resets

episodevars == <<steps, epLen, episode, age, offset, endedAt>>
flagvars == <<terminated, truncated, resetBuf, pending>>
obsvars == <<obs, final, finalMask, hasTransition>>
actionvars == <<action, prevAction, prevPrevAction>>
sumvars == <<rewardSum, metricSteps>>
timervars == <<cmdLeft, cmdCount, pushLeft, lastTriggered, triggeredOnce>>
simvars == <<cache, current>>
recvars == <<stepObs, preReset>>
cfgvars == <<autoreset, finite>>
vars == <<pc, cfgvars, built, inAuto, ids, counter, episodevars, flagvars, obsvars, actionvars,
          sumvars, timervars, simvars, recvars, resets>>

NoObs == [episode |-> 0, age |-> 0]
Observation == [episode : 0 .. MaxSteps + MaxResets + 1, age : 0 .. MaxSteps]
Phases == {"idle", "physics", "terminate", "reward", "metrics", "events", "commands", "observe",
           "account", "preReset", "resetEvents", "resetManagers", "resetObserve", "postStep"}

TypeOK ==
    /\ pc \in Phases /\ autoreset \in BOOLEAN /\ finite \in BOOLEAN
    /\ built \in BOOLEAN /\ inAuto \in BOOLEAN /\ ids \subseteq Env
    /\ counter \in 0 .. MaxSteps
    /\ steps \in [Env -> Nat] /\ epLen \in [Env -> Nat]
    /\ terminated \subseteq Env /\ truncated \subseteq Env /\ resetBuf \subseteq Env /\ pending \subseteq Env
    /\ obs \in [Env -> Observation] /\ final \in [Env -> Observation] /\ finalMask \subseteq Env
    /\ action \subseteq Env /\ prevAction \subseteq Env /\ prevPrevAction \subseteq Env
    /\ rewardSum \in [Env -> Nat] /\ metricSteps \in [Env -> Nat]
    /\ cmdLeft \in [Env -> 0 .. CmdMax] /\ cmdCount \in [Env -> Nat] /\ pushLeft \in [Env -> 0 .. PushMax]
    /\ lastTriggered \in [Env -> 0 .. MaxSteps] /\ triggeredOnce \subseteq Env
    /\ cache \in {"off", "empty", "fresh", "stale"} /\ current \subseteq Env
    /\ episode \in [Env -> Nat] /\ age \in [Env -> Nat] /\ offset \in [Env -> 0 .. MaxOffset]
    /\ resets \in 0 .. MaxResets

\* Managers are built, startup events applied and the backend materialized;
\* the interval timers are drawn, and no state exists before the first reset.
Init ==
    /\ pc = "idle" /\ autoreset \in BOOLEAN /\ finite \in BOOLEAN
    /\ built = FALSE /\ inAuto = FALSE /\ ids = {} /\ counter = 0
    /\ steps = [e \in Env |-> 0] /\ epLen = [e \in Env |-> 0]
    /\ terminated = {} /\ truncated = {} /\ resetBuf = {} /\ pending = {}
    /\ obs = [e \in Env |-> NoObs] /\ final = [e \in Env |-> NoObs] /\ finalMask = {}
    /\ hasTransition = FALSE
    /\ action = {} /\ prevAction = {} /\ prevPrevAction = {}
    /\ rewardSum = [e \in Env |-> 0] /\ metricSteps = [e \in Env |-> 0]
    /\ cmdLeft = [e \in Env |-> 0] /\ cmdCount = [e \in Env |-> 0]
    /\ pushLeft \in [Env -> {PushMax}]
    /\ lastTriggered = [e \in Env |-> 0] /\ triggeredOnce = {}
    /\ cache = "off" /\ current = {}
    /\ episode = [e \in Env |-> 0] /\ age = [e \in Env |-> 0] /\ offset = [e \in Env |-> 0]
    /\ endedAt = [e \in Env |-> NoObs]
    /\ stepObs = [e \in Env |-> NoObs] /\ preReset = [e \in Env |-> NoObs]
    /\ resets = 0

------------------------------------------------------------------------------
(* The scope of state reads: a term's read fills the cache, a change of the
   simulator makes what it holds stale, an invalidation empties it. *)

FillReads == cache' = IF cache = "empty" THEN "fresh" ELSE cache
Touched(c, changed) == IF changed # {} /\ c = "fresh" THEN "stale" ELSE c

\* Mutant: cached reads survive a write.
KeepStateReads(c) == c

InvalidateStateReads(c) == IF c = "off" THEN "off" ELSE "empty"

------------------------------------------------------------------------------
(* The step *)

\* With manual resets a finished environment must be reset first.
MayStep == autoreset \/ pending = {}

\* The term's raw actions shift through the history of three.
ProcessAction(a) ==
    /\ action' = a /\ prevAction' = action /\ prevPrevAction' = prevAction

ClearStepFinalObservation == finalMask' = {} /\ UNCHANGED final

\* step() on a built environment: the actions are processed and applied.
ApplyAction(a) ==
    /\ pc = "idle" /\ built /\ MayStep /\ counter < MaxSteps
    /\ ProcessAction(a)
    /\ truncated' = {}
    /\ ClearStepFinalObservation
    /\ stepObs' = obs
    /\ pc' = "physics"
    /\ UNCHANGED <<cfgvars, built, inAuto, ids, counter, episodevars, terminated, resetBuf, pending, obs,
                   hasTransition, sumvars, timervars, simvars, preReset, resets>>

\* backend.step moves every row; update_state opens a read scope.
BackendStep ==
    /\ pc = "physics"
    /\ age' = [e \in Env |-> age[e] + 1]
    /\ current' = {} /\ cache' = "empty"
    /\ pc' = "terminate"
    /\ UNCHANGED <<cfgvars, built, inAuto, ids, counter, steps, epLen, episode, offset, endedAt, flagvars, obsvars,
                   actionvars, sumvars, timervars, recvars, resets>>

TimeOut(e) == epLen'[e] >= MaxLen

\* The termination terms: fell are the rows a failure term ends.  A finite
\* horizon turns time-outs into terminations.
ComputeTermination(fell) ==
    /\ pc = "terminate"
    /\ epLen' = [e \in Env |-> steps[e] + 1]
    /\ LET timeouts == {e \in Env : TimeOut(e)}
       IN /\ terminated' = IF finite THEN fell \cup timeouts ELSE fell
          /\ truncated' = IF finite THEN {} ELSE timeouts
          /\ resetBuf' = fell \cup timeouts
    /\ FillReads
    /\ pc' = "reward"
    /\ UNCHANGED <<cfgvars, built, inAuto, ids, counter, steps, episode, age, offset, endedAt, pending, obsvars, actionvars,
                   sumvars, timervars, current, recvars, resets>>

ComputeReward ==
    /\ pc = "reward"
    /\ rewardSum' = [e \in Env |-> rewardSum[e] + 1]
    /\ FillReads
    /\ pc' = "metrics"
    /\ UNCHANGED <<cfgvars, built, inAuto, ids, counter, episodevars, flagvars, obsvars, actionvars, metricSteps,
                   timervars, current, recvars, resets>>

ComputeMetrics ==
    /\ pc = "metrics"
    /\ metricSteps' = [e \in Env |-> metricSteps[e] + 1]
    /\ FillReads
    /\ pc' = "events"
    /\ UNCHANGED <<cfgvars, built, inAuto, ids, counter, episodevars, flagvars, obsvars, actionvars, rewardSum,
                   timervars, current, recvars, resets>>

\* Interval events: the rows whose timer runs out draw a new one and are
\* changed.  The environment cannot see which events fired and invalidates the
\* cached reads in any case.
Fired == {e \in Env : pushLeft[e] <= 1}

ApplyIntervalEvents(drawn) ==
    /\ pc = "events"
    /\ pushLeft' = [e \in Env |-> IF e \in Fired THEN drawn ELSE pushLeft[e] - 1]
    /\ current' = current \ Fired
    /\ cache' = InvalidateStateReads(Touched(cache, Fired))
    /\ pc' = "commands"
    /\ UNCHANGED <<cfgvars, built, inAuto, ids, counter, episodevars, flagvars, obsvars, actionvars, sumvars,
                   cmdLeft, cmdCount, lastTriggered, triggeredOnce, recvars, resets>>

\* A row about to be reset does not use up its command's time.
CommandDt(e) == IF e \in resetBuf THEN 0 ELSE 1
Elapsed == {e \in Env : cmdLeft[e] <= CommandDt(e)}

\* Commands whose time is up are resampled; a command may write the state of a
\* row it resamples (motion reference), which the enclosing transaction commits.
ComputeCommands(drawn, writes) ==
    /\ pc = "commands"
    /\ writes \subseteq Elapsed
    /\ cmdLeft' = [e \in Env |-> IF e \in Elapsed THEN drawn ELSE cmdLeft[e] - CommandDt(e)]
    /\ cmdCount' = [e \in Env |-> IF e \in Elapsed THEN cmdCount[e] + 1 ELSE cmdCount[e]]
    /\ current' = current \ writes
    /\ cache' = LET read == IF cache = "empty" THEN "fresh" ELSE cache
                IN IF writes # {} THEN InvalidateStateReads(Touched(read, writes)) ELSE read
    /\ pc' = "observe"
    /\ UNCHANGED <<cfgvars, built, inAuto, ids, counter, episodevars, flagvars, obsvars, actionvars, sumvars,
                   pushLeft, lastTriggered, triggeredOnce, recvars, resets>>

Observed(e) == [episode |-> episode[e], age |-> age[e]]

\* Observations of every row, also of those about to be reset; the read scope ends.
ComputeObservations ==
    /\ pc = "observe"
    /\ obs' = [e \in Env |-> Observed(e)]
    /\ current' = IF cache = "stale" THEN current ELSE Env
    /\ cache' = "off"
    /\ hasTransition' = TRUE
    /\ pc' = "account"
    /\ UNCHANGED <<cfgvars, built, inAuto, ids, counter, episodevars, flagvars, final, finalMask, actionvars,
                   sumvars, timervars, recvars, resets>>

Done == terminated \cup truncated

\* The rest of NpEnv.step: count, and reset what is done.
AccountStep ==
    /\ pc = "account"
    /\ steps' = [e \in Env |-> steps[e] + 1]
    /\ counter' = counter + 1
    /\ pc' = IF autoreset /\ Done # {} THEN "preReset" ELSE "postStep"
    /\ ids' = IF autoreset THEN Done ELSE {}
    /\ inAuto' = (autoreset /\ Done # {})
    /\ UNCHANGED <<cfgvars, built, epLen, episode, age, offset, endedAt, flagvars, obsvars, actionvars, sumvars,
                   timervars, simvars, recvars, resets>>

\* ManagerBasedRlEnv.step after NpEnv.step: manual bookkeeping and the recorder.
PostStep ==
    /\ pc = "postStep"
    /\ pending' = IF autoreset THEN pending ELSE pending \cup Done
    /\ pc' = "idle"
    /\ UNCHANGED <<cfgvars, built, inAuto, ids, counter, episodevars, terminated, truncated, resetBuf, obsvars,
                   actionvars, sumvars, timervars, simvars, recvars, resets>>

------------------------------------------------------------------------------
(* Resets *)

\* The first reset builds the state with every row terminated.
InitState ==
    /\ pc = "idle" /\ ~built
    /\ built' = TRUE
    /\ terminated' = Env /\ truncated' = {}
    /\ ids' = Env /\ inAuto' = TRUE
    /\ pc' = "preReset"
    /\ UNCHANGED <<cfgvars, counter, episodevars, resetBuf, pending, obsvars, actionvars, sumvars, timervars,
                   simvars, recvars, resets>>

\* A caller resets some rows.
Reset(rows) ==
    /\ pc = "idle" /\ built /\ rows # {} /\ resets < MaxResets
    /\ resets' = resets + 1
    /\ ids' = rows /\ inAuto' = FALSE
    /\ pc' = "preReset"
    /\ UNCHANGED <<cfgvars, built, counter, episodevars, flagvars, obsvars, actionvars, sumvars, timervars,
                   simvars, recvars>>

\* Inside the step the terminal observations are kept before they are overwritten.
KeepFinalObservations ==
    IF inAuto
    THEN /\ final' = [e \in Env |-> IF e \in ids THEN obs[e] ELSE final[e]]
         /\ finalMask' = ids
    ELSE UNCHANGED <<final, finalMask>>

\* The recorder is shown the rows that are done, once there was a transition.
Shown == {e \in ids : hasTransition /\ e \in resetBuf}

RecordPreReset ==
    preReset' = [e \in Env |-> IF e \in Shown THEN obs[e] ELSE preReset[e]]

BeginReset ==
    /\ pc = "preReset"
    /\ KeepFinalObservations
    /\ steps' = [e \in Env |-> IF inAuto /\ e \in ids THEN 0 ELSE steps[e]]
    /\ RecordPreReset
    /\ pc' = "resetEvents"
    /\ UNCHANGED <<cfgvars, built, inAuto, ids, counter, epLen, episode, age, offset, endedAt, flagvars, obs, hasTransition,
                   actionvars, sumvars, timervars, simvars, stepObs, resets>>

\* A gated reset event skips the rows it triggered for too recently.
Triggered ==
    {e \in ids : \/ counter - lastTriggered[e] >= MinGap
                 \/ lastTriggered[e] = 0 /\ e \notin triggeredOnce}

\* Reset events and the commands' reset write the rows' new state; one commit.
ResetEvents(drawn) ==
    /\ pc = "resetEvents"
    /\ lastTriggered' = [e \in Env |-> IF e \in Triggered THEN counter ELSE lastTriggered[e]]
    /\ triggeredOnce' = triggeredOnce \cup Triggered
    /\ cmdCount' = [e \in Env |-> IF e \in ids THEN 1 ELSE cmdCount[e]]
    /\ cmdLeft' = [e \in Env |-> IF e \in ids THEN drawn ELSE cmdLeft[e]]
    /\ current' = current \ ids
    /\ episode' = [e \in Env |-> IF e \in ids THEN episode[e] + 1 ELSE episode[e]]
    /\ age' = [e \in Env |-> IF e \in ids THEN 0 ELSE age[e]]
    /\ offset' = [e \in Env |-> IF e \in ids THEN 0 ELSE offset[e]]
    /\ endedAt' = [e \in Env |-> IF e \in ids /\ age[e] > 0 THEN Observed(e) ELSE endedAt[e]]
    /\ pc' = "resetManagers"
    /\ UNCHANGED <<cfgvars, built, inAuto, ids, counter, steps, epLen, flagvars, obsvars, actionvars, sumvars,
                   pushLeft, cache, stepObs, preReset, resets>>

\* Mutant: the sums start anew inside the step only.
ZeroRowsInAutoreset(f) == [e \in Env |-> IF e \in ids /\ inAuto THEN 0 ELSE f[e]]

\* The managers clear the rows under reset in their sums.
ZeroRows(f) == [e \in Env |-> IF e \in ids THEN 0 ELSE f[e]]

ClearActionHistory ==
    action' = action \ ids /\ prevAction' = prevAction \ ids /\ prevPrevAction' = prevPrevAction \ ids

\* The managers' reset: histories, sums and the rows' interval timers.
ResetManagers(drawn) ==
    /\ pc = "resetManagers"
    /\ ClearActionHistory
    /\ rewardSum' = ZeroRows(rewardSum)
    /\ metricSteps' = ZeroRows(metricSteps)
    /\ pushLeft' = [e \in Env |-> IF e \in ids THEN drawn ELSE pushLeft[e]]
    /\ epLen' = ZeroRows(epLen) /\ steps' = ZeroRows(steps)
    /\ pending' = pending \ ids
    /\ cache' = "empty"
    /\ pc' = "resetObserve"
    /\ UNCHANGED <<cfgvars, built, inAuto, ids, counter, episode, age, offset, endedAt, terminated, truncated, resetBuf,
                   obsvars, cmdLeft, cmdCount, lastTriggered, triggeredOnce, current, recvars, resets>>

\* A fresh read scope: commands settle with no time passing, and the reset rows
\* are observed.  A reset a caller asked for clears the rows' flags as well; after
\* the first reset the state still says every row terminated.
ResetObserve ==
    /\ pc = "resetObserve"
    /\ obs' = [e \in Env |-> IF e \in ids THEN Observed(e) ELSE obs[e]]
    /\ current' = IF cache = "stale" THEN current ELSE current \cup ids
    /\ cache' = "off"
    /\ IF inAuto
       THEN UNCHANGED <<terminated, truncated, resetBuf>>
       ELSE /\ terminated' = terminated \ ids /\ truncated' = truncated \ ids
            /\ resetBuf' = resetBuf \ ids
    /\ inAuto' = FALSE
    /\ finalMask' = IF hasTransition THEN finalMask ELSE {}
    /\ pc' = IF inAuto /\ hasTransition THEN "postStep" ELSE "idle"
    /\ UNCHANGED <<cfgvars, built, ids, counter, episodevars, pending, final, hasTransition, actionvars,
                   sumvars, timervars, recvars, resets>>

------------------------------------------------------------------------------
(* What a runner may set between steps *)

\* Desynchronising the episodes at the start of training.
SetEpisodeLengthBuf(off) ==
    /\ pc = "idle" /\ built /\ counter = 0
    /\ steps' = off /\ epLen' = off /\ offset' = off
    /\ UNCHANGED <<pc, cfgvars, built, inAuto, ids, counter, episode, age, endedAt, flagvars, obsvars, actionvars, sumvars,
                   timervars, simvars, recvars, resets>>

Next ==
    \/ \E a \in {Env} : ApplyAction(a)
    \/ BackendStep
    \/ \E fell \in SUBSET Env : ComputeTermination(fell)
    \/ ComputeReward \/ ComputeMetrics
    \/ \E drawn \in 1 .. PushMax : ApplyIntervalEvents(drawn)
    \/ \E drawn \in 1 .. CmdMax, writes \in SUBSET Env : ComputeCommands(drawn, writes)
    \/ ComputeObservations \/ AccountStep \/ PostStep
    \/ InitState
    \/ \E rows \in SUBSET Env : Reset(rows)
    \/ BeginReset
    \/ \E drawn \in 1 .. CmdMax : ResetEvents(drawn)
    \/ \E drawn \in 1 .. PushMax : ResetManagers(drawn)
    \/ ResetObserve
    \/ \E off \in [Env -> 0 .. MaxOffset] : age = [e \in Env |-> 0] /\ SetEpisodeLengthBuf(off)

Spec == Init /\ [][Next]_vars

------------------------------------------------------------------------------
(* Properties *)

AtRest == pc = "idle" /\ built

\* Every accumulator speaks of the same episode: the counters the time-out is
\* judged by, the reward sums and the metrics' divisor agree with the number of
\* transitions since the row's last reset, whoever reset it and when, and the
\* action history holds actions of this episode only.
AccountsAgree ==
    AtRest => \A e \in Env :
        /\ rewardSum[e] = age[e] /\ metricSteps[e] = age[e]
        /\ steps[e] = age[e] + offset[e] /\ epLen[e] = steps[e]
        /\ e \in action => age[e] >= 1
        /\ e \in prevAction => age[e] >= 2
        /\ e \in prevPrevAction => age[e] >= 3

\* With manual resets nobody steps past the end of an episode.
NoStepPastTheEnd ==
    \A e \in Env : pc = "physics" => epLen[e] < MaxLen

\* Both together, in step_physics, _update_state and reset of ManagerBasedRlEnv.
EpisodeAccounting == AccountsAgree /\ NoStepPastTheEnd

\* What step() and reset() hand out is the simulator as it is: no observation comes
\* from a read cached before an event, a command or a reset changed the row; and
\* after a step that reset rows, their final observation is the one at which the
\* ended episode ended, and their observation the first of the next.
ObservationsCurrent ==
    AtRest => /\ current = Env
              /\ \A e \in finalMask : final[e] = endedAt[e] /\ obs[e] = Observed(e) /\ obs[e].age = 0
=============================================================================
