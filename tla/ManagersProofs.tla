---------------------------- MODULE ManagersProofs ----------------------------
(***************************************************************************)
(* The accounts of an episode and the observations handed out, for any     *)
(* set of environments, episode length, timers and bounds; the delay and   *)
(* history buffers of an observation term, for any configurations; the     *)
(* body impulse, which acts only while it runs and for no longer than was  *)
(* drawn for it; what randomisation leaves in a row and what a command     *)
(* asks of it; and the way of a control to the joint it is meant for.      *)
(***************************************************************************)
EXTENDS ManagerEnv, ObservationBuffers, EventTerms, CommandTerms, FiniteSetTheorems, TLAPS


USE EnvAssumption

Resetting == {"preReset", "resetEvents", "resetManagers", "resetObserve"}

Types ==
    /\ pc \in Phases /\ ids \subseteq Env /\ terminated \subseteq Env /\ truncated \subseteq Env
          /\ counter \in Nat
    /\ steps \in [Env -> Nat] /\ epLen \in [Env -> Nat] /\ age \in [Env -> Nat]
    /\ offset \in [Env -> 0 .. MaxOffset]
    /\ rewardSum \in [Env -> Nat] /\ metricSteps \in [Env -> Nat]
    /\ action \subseteq Env /\ prevAction \subseteq Env /\ prevPrevAction \subseteq Env
    /\ pending \subseteq Env /\ current \subseteq Env /\ finalMask \subseteq Env
    /\ final \in [Env -> [episode : Nat, age : Nat]] /\ obs \in [Env -> [episode : Nat, age : Nat]]
    /\ episode \in [Env -> Nat] /\ endedAt \in [Env -> [episode : Nat, age : Nat]]

\* How far each account is ahead of, or behind, the age of the row in this phase.
Lag(phases) == IF pc \in phases THEN 1 ELSE 0

\* A row whose accounts the reset under way is rewriting.
Rewritten(e) == pc \in {"resetEvents", "resetManagers"} /\ e \in ids

\* AccountsAgree in the middle of a step: what the managers still to come have not
\* added yet.
Accounts ==
    \A e \in Env :
        /\ ~Rewritten(e) =>
             /\ rewardSum[e] + Lag({"terminate", "reward"}) = age[e]
             /\ metricSteps[e] + Lag({"terminate", "reward", "metrics"}) = age[e]
             /\ steps[e] + Lag({"terminate", "reward", "metrics", "events", "commands", "observe", "account"})
                = age[e] + offset[e]
             /\ epLen[e] = steps[e] + Lag({"reward", "metrics", "events", "commands", "observe", "account"})
             /\ e \in action => age[e] + Lag({"physics"}) >= 1
             /\ e \in prevAction => age[e] + Lag({"physics"}) >= 2
             /\ e \in prevPrevAction => age[e] + Lag({"physics"}) >= 3
        /\ Rewritten(e) /\ pc = "resetManagers" => age[e] = 0 /\ offset[e] = 0

\* A row at its horizon is done, is being reset, or waits for its manual reset.
Waiting(e) == ~autoreset /\ e \in pending
Horizon ==
    \A e \in Env :
        epLen[e] >= MaxLen =>
            /\ pc \notin {"physics", "terminate"}
            /\ pc \in {"reward", "metrics", "events", "commands", "observe", "account"} => e \in Done
            /\ pc = "postStep" => ~autoreset /\ e \in Done \cup pending
            /\ pc \in {"idle", "resetObserve"} => Waiting(e)
            /\ pc \in {"preReset", "resetEvents", "resetManagers"} => e \in ids \/ Waiting(e)

\* What the cache of state reads holds, and which rows were observed as they are.
Reads ==
    /\ pc # "idle" => built
    /\ pc \in {"terminate", "reward", "metrics", "events", "commands", "observe", "resetObserve"}
         => cache # "stale"
    /\ pc \in {"idle", "physics", "account", "postStep"} => cache = "off"
    /\ pc \in {"reward", "metrics", "events", "commands", "observe"} => cache \in {"empty", "fresh"}
    /\ pc \in {"terminate", "commands", "resetObserve"} => cache = "empty"
    /\ pc \in {"idle", "account", "postStep"} /\ built => current = Env
    /\ pc \in Resetting => Env \ ids \subseteq current

\* Where the terminal observation of a row is between its reward and its next step.
Finals ==
    /\ ~built => ~hasTransition /\ finalMask = {}
    /\ pc \in {"terminate", "reward", "metrics", "events", "commands", "observe", "account"} =>
         \A e \in Env : age[e] > 0
    /\ pc \in {"physics", "terminate", "reward", "metrics", "events", "commands", "observe", "account"} =>
         finalMask = {}
    /\ pc = "account" => hasTransition /\ \A e \in Env : obs[e] = Observed(e)
    /\ pc \in {"idle", "postStep"} \/ (pc = "preReset" /\ ~inAuto) =>
         \A e \in finalMask : final[e] = endedAt[e] /\ obs[e] = Observed(e) /\ age[e] = 0
    /\ pc = "preReset" /\ inAuto /\ hasTransition =>
         \A e \in ids : obs[e] = Observed(e) /\ age[e] > 0
    /\ pc = "resetEvents" =>
         IF inAuto THEN finalMask = ids /\ (hasTransition => \A e \in ids : final[e] = Observed(e)
               /\ age[e] > 0)
         ELSE \A e \in finalMask : final[e] = endedAt[e] /\ obs[e] = Observed(e) /\ age[e] = 0
    /\ pc \in {"resetManagers", "resetObserve"} =>
         /\ inAuto => finalMask = ids
         /\ hasTransition \/ ~inAuto =>
              \A e \in finalMask : final[e] = endedAt[e] /\ age[e] = 0 /\ (e \notin ids => obs[e] = Observed(e))

Inv == Types /\ Accounts /\ Horizon /\ Reads /\ Finals

\* Nothing is built, counted or observed yet.
LEMMA InitHolds == Init => Inv
<1> SUFFICES ASSUME Init PROVE Inv
  OBVIOUS
<1> USE DEF Init, NoObs
<1>1. Types
  BY DEF Types, Phases
<1>2. Accounts
  BY DEF Accounts, Lag, Rewritten
<1>3. Horizon
  BY DEF Horizon
<1>4. Reads
  BY DEF Reads, Resetting
<1>5. Finals
  BY DEF Finals
<1> QED
  BY <1>1, <1>2, <1>3, <1>4, <1>5 DEF Inv
-----------------------------------------------------------------------------
(* Each action of the step and of the reset                                *)

\* Each action keeps the types.
LEMMA Types_Step == ASSUME Inv, Next PROVE Types'
<1> USE DEF Inv, Types, Phases, Done, Observed,
        episodevars, flagvars, obsvars, actionvars, sumvars, timervars, simvars, recvars, cfgvars
<1>1. ASSUME ApplyAction(Env) PROVE Types'
  BY <1>1 DEF ApplyAction, ProcessAction, MayStep, ClearStepFinalObservation
<1>2. ASSUME BackendStep PROVE Types'
  BY <1>2 DEF BackendStep
<1>3. ASSUME NEW fell \in SUBSET Env, ComputeTermination(fell) PROVE Types'
  BY <1>3 DEF ComputeTermination, TimeOut
<1>4. ASSUME ComputeReward PROVE Types'
  BY <1>4 DEF ComputeReward
<1>5. ASSUME ComputeMetrics PROVE Types'
  BY <1>5 DEF ComputeMetrics
<1>6. ASSUME NEW draws \in 1 .. PushMax, ApplyIntervalEvents(draws) PROVE Types'
  BY <1>6 DEF ApplyIntervalEvents, Touched, InvalidateStateReads
<1>7. ASSUME NEW draws \in 1 .. CmdMax, NEW writes \in SUBSET Env, ComputeCommands(draws, writes) PROVE Types'
  BY <1>7 DEF ComputeCommands, Touched, InvalidateStateReads
<1>8. ASSUME ComputeObservations PROVE Types'
  BY <1>8 DEF ComputeObservations
<1>9. ASSUME AccountStep PROVE Types'
  BY <1>9 DEF AccountStep
<1>10. ASSUME PostStep PROVE Types'
  BY <1>10 DEF PostStep
<1>11. ASSUME InitState PROVE Types'
  BY <1>11 DEF InitState
<1>12. ASSUME NEW rows \in SUBSET Env, Reset(rows) PROVE Types'
  BY <1>12 DEF Reset
<1>13. ASSUME BeginReset PROVE Types'
  BY <1>13 DEF BeginReset, KeepFinalObservations
<1>14. ASSUME NEW draws \in 1 .. CmdMax, ResetEvents(draws) PROVE Types'
  BY <1>14 DEF ResetEvents
<1>15. ASSUME NEW draws \in 1 .. PushMax, ResetManagers(draws) PROVE Types'
  BY <1>15 DEF ResetManagers, ZeroRows, ClearActionHistory
<1>16. ASSUME ResetObserve PROVE Types'
  BY <1>16 DEF ResetObserve
<1>17. ASSUME NEW off \in [Env -> 0 .. MaxOffset], age = [e \in Env |-> 0], SetEpisodeLengthBuf(off)
      PROVE Types'
  BY <1>17 DEF SetEpisodeLengthBuf
<1> QED
  BY <1>1, <1>2, <1>3, <1>4, <1>5, <1>6, <1>7, <1>8, <1>9, <1>10,
     <1>11, <1>12, <1>13, <1>14, <1>15, <1>16, <1>17, Zenon DEF Next

\* Each manager's turn removes one lag, and a reset clears the accounts of its rows together.
LEMMA Accounts_Step == ASSUME Inv, Next PROVE Accounts'
<1> USE DEF Inv, Accounts, Lag, Rewritten, Types,
        episodevars, flagvars, obsvars, actionvars, sumvars, timervars, simvars, recvars, cfgvars
<1>1. ASSUME ApplyAction(Env) PROVE Accounts'
  BY <1>1 DEF ApplyAction, ProcessAction, MayStep, ClearStepFinalObservation
<1>2. ASSUME BackendStep PROVE Accounts'
  BY <1>2 DEF BackendStep
<1>3. ASSUME NEW fell \in SUBSET Env, ComputeTermination(fell) PROVE Accounts'
  BY <1>3 DEF ComputeTermination, TimeOut
<1>4. ASSUME ComputeReward PROVE Accounts'
  BY <1>4 DEF ComputeReward
<1>5. ASSUME ComputeMetrics PROVE Accounts'
  BY <1>5 DEF ComputeMetrics
<1>6. ASSUME NEW draws \in 1 .. PushMax, ApplyIntervalEvents(draws) PROVE Accounts'
  BY <1>6 DEF ApplyIntervalEvents, Touched, InvalidateStateReads
<1>7. ASSUME NEW draws \in 1 .. CmdMax, NEW writes \in SUBSET Env, ComputeCommands(draws, writes)
      PROVE Accounts'
  BY <1>7 DEF ComputeCommands, Touched, InvalidateStateReads
<1>8. ASSUME ComputeObservations PROVE Accounts'
  BY <1>8 DEF ComputeObservations
<1>9. ASSUME AccountStep PROVE Accounts'
  BY <1>9 DEF AccountStep
<1>10. ASSUME PostStep PROVE Accounts'
  BY <1>10 DEF PostStep
<1>11. ASSUME InitState PROVE Accounts'
  BY <1>11 DEF InitState
<1>12. ASSUME NEW rows \in SUBSET Env, Reset(rows) PROVE Accounts'
  BY <1>12 DEF Reset
<1>13. ASSUME BeginReset PROVE Accounts'
  BY <1>13 DEF BeginReset, KeepFinalObservations
<1>14. ASSUME NEW draws \in 1 .. CmdMax, ResetEvents(draws) PROVE Accounts'
  BY <1>14 DEF ResetEvents
<1>15. ASSUME NEW draws \in 1 .. PushMax, ResetManagers(draws) PROVE Accounts'
  BY <1>15 DEF ResetManagers, ZeroRows, ClearActionHistory
<1>16. ASSUME ResetObserve PROVE Accounts'
  BY <1>16 DEF ResetObserve
<1>17. ASSUME NEW off \in [Env -> 0 .. MaxOffset], age = [e \in Env |-> 0], SetEpisodeLengthBuf(off)
      PROVE Accounts'
  BY <1>17 DEF SetEpisodeLengthBuf
<1> QED
  BY <1>1, <1>2, <1>3, <1>4, <1>5, <1>6, <1>7, <1>8, <1>9, <1>10,
     <1>11, <1>12, <1>13, <1>14, <1>15, <1>16, <1>17, Zenon DEF Next

\* A row reaches its horizon in ComputeTermination only, which ends it.
LEMMA Horizon_Step == ASSUME Inv, Next PROVE Horizon'
<1> USE DEF Inv, Horizon, Waiting, Done, Types, Accounts, Lag, Rewritten,
        episodevars, flagvars, obsvars, actionvars, sumvars, timervars, simvars, recvars, cfgvars
<1>1. ASSUME ApplyAction(Env) PROVE Horizon'
  BY <1>1 DEF ApplyAction, ProcessAction, MayStep, ClearStepFinalObservation
<1>2. ASSUME BackendStep PROVE Horizon'
  BY <1>2 DEF BackendStep
<1>3. ASSUME NEW fell \in SUBSET Env, ComputeTermination(fell) PROVE Horizon'
  BY <1>3 DEF ComputeTermination, TimeOut
<1>4. ASSUME ComputeReward PROVE Horizon'
  BY <1>4 DEF ComputeReward
<1>5. ASSUME ComputeMetrics PROVE Horizon'
  BY <1>5 DEF ComputeMetrics
<1>6. ASSUME NEW draws \in 1 .. PushMax, ApplyIntervalEvents(draws) PROVE Horizon'
  BY <1>6 DEF ApplyIntervalEvents, Touched, InvalidateStateReads
<1>7. ASSUME NEW draws \in 1 .. CmdMax, NEW writes \in SUBSET Env, ComputeCommands(draws, writes) PROVE Horizon'
  BY <1>7 DEF ComputeCommands, Touched, InvalidateStateReads
<1>8. ASSUME ComputeObservations PROVE Horizon'
  BY <1>8 DEF ComputeObservations
<1>9. ASSUME AccountStep PROVE Horizon'
  BY <1>9 DEF AccountStep
<1>10. ASSUME PostStep PROVE Horizon'
  BY <1>10 DEF PostStep
<1>11. ASSUME InitState PROVE Horizon'
  BY <1>11 DEF InitState
<1>12. ASSUME NEW rows \in SUBSET Env, Reset(rows) PROVE Horizon'
  BY <1>12 DEF Reset
<1>13. ASSUME BeginReset PROVE Horizon'
  BY <1>13 DEF BeginReset, KeepFinalObservations
<1>14. ASSUME NEW draws \in 1 .. CmdMax, ResetEvents(draws) PROVE Horizon'
  BY <1>14 DEF ResetEvents
<1>15. ASSUME NEW draws \in 1 .. PushMax, ResetManagers(draws) PROVE Horizon'
  BY <1>15 DEF ResetManagers, ZeroRows, ClearActionHistory
<1>16. ASSUME ResetObserve PROVE Horizon'
  BY <1>16 DEF ResetObserve
<1>17. ASSUME NEW off \in [Env -> 0 .. MaxOffset], age = [e \in Env |-> 0], SetEpisodeLengthBuf(off)
      PROVE Horizon'
  BY <1>17 DEF SetEpisodeLengthBuf
<1> QED
  BY <1>1, <1>2, <1>3, <1>4, <1>5, <1>6, <1>7, <1>8, <1>9, <1>10,
     <1>11, <1>12, <1>13, <1>14, <1>15, <1>16, <1>17, Zenon DEF Next

\* Whatever changes a row empties the cache before anything else is read.
LEMMA Reads_Step == ASSUME Inv, Next PROVE Reads'
<1> USE DEF Inv, Reads, Resetting, FillReads, Types,
        episodevars, flagvars, obsvars, actionvars, sumvars, timervars, simvars, recvars, cfgvars
<1>1. ASSUME ApplyAction(Env) PROVE Reads'
  BY <1>1 DEF ApplyAction, ProcessAction, MayStep, ClearStepFinalObservation
<1>2. ASSUME BackendStep PROVE Reads'
  BY <1>2 DEF BackendStep
<1>3. ASSUME NEW fell \in SUBSET Env, ComputeTermination(fell) PROVE Reads'
  BY <1>3 DEF ComputeTermination, TimeOut
<1>4. ASSUME ComputeReward PROVE Reads'
  BY <1>4 DEF ComputeReward
<1>5. ASSUME ComputeMetrics PROVE Reads'
  BY <1>5 DEF ComputeMetrics
<1>6. ASSUME NEW draws \in 1 .. PushMax, ApplyIntervalEvents(draws) PROVE Reads'
  BY <1>6 DEF ApplyIntervalEvents, Touched, InvalidateStateReads
<1>7. ASSUME NEW draws \in 1 .. CmdMax, NEW writes \in SUBSET Env, ComputeCommands(draws, writes) PROVE Reads'
  BY <1>7 DEF ComputeCommands, Touched, InvalidateStateReads
<1>8. ASSUME ComputeObservations PROVE Reads'
  BY <1>8 DEF ComputeObservations
<1>9. ASSUME AccountStep PROVE Reads'
  BY <1>9 DEF AccountStep
<1>10. ASSUME PostStep PROVE Reads'
  BY <1>10 DEF PostStep
<1>11. ASSUME InitState PROVE Reads'
  BY <1>11 DEF InitState
<1>12. ASSUME NEW rows \in SUBSET Env, Reset(rows) PROVE Reads'
  BY <1>12 DEF Reset
<1>13. ASSUME BeginReset PROVE Reads'
  BY <1>13 DEF BeginReset, KeepFinalObservations
<1>14. ASSUME NEW draws \in 1 .. CmdMax, ResetEvents(draws) PROVE Reads'
  BY <1>14 DEF ResetEvents
<1>15. ASSUME NEW draws \in 1 .. PushMax, ResetManagers(draws) PROVE Reads'
  BY <1>15 DEF ResetManagers, ZeroRows, ClearActionHistory
<1>16. ASSUME ResetObserve PROVE Reads'
  BY <1>16 DEF ResetObserve
<1>17. ASSUME NEW off \in [Env -> 0 .. MaxOffset], age = [e \in Env |-> 0], SetEpisodeLengthBuf(off)
      PROVE Reads'
  BY <1>17 DEF SetEpisodeLengthBuf
<1> QED
  BY <1>1, <1>2, <1>3, <1>4, <1>5, <1>6, <1>7, <1>8, <1>9, <1>10,
     <1>11, <1>12, <1>13, <1>14, <1>15, <1>16, <1>17, Zenon DEF Next

\* Observations are kept before the reset overwrites them, and the next step forgets them.
LEMMA Finals_Step == ASSUME Inv, Next PROVE Finals'
<1> USE DEF Inv, Finals, Observed, Types, Reads,
        episodevars, flagvars, obsvars, actionvars, sumvars, timervars, simvars, recvars, cfgvars
<1>1. ASSUME ApplyAction(Env) PROVE Finals'
  BY <1>1 DEF ApplyAction, ProcessAction, MayStep, ClearStepFinalObservation
<1>2. ASSUME BackendStep PROVE Finals'
  BY <1>2 DEF BackendStep
<1>3. ASSUME NEW fell \in SUBSET Env, ComputeTermination(fell) PROVE Finals'
  BY <1>3 DEF ComputeTermination, TimeOut
<1>4. ASSUME ComputeReward PROVE Finals'
  BY <1>4 DEF ComputeReward
<1>5. ASSUME ComputeMetrics PROVE Finals'
  BY <1>5 DEF ComputeMetrics
<1>6. ASSUME NEW draws \in 1 .. PushMax, ApplyIntervalEvents(draws) PROVE Finals'
  BY <1>6 DEF ApplyIntervalEvents, Touched, InvalidateStateReads
<1>7. ASSUME NEW draws \in 1 .. CmdMax, NEW writes \in SUBSET Env, ComputeCommands(draws, writes) PROVE Finals'
  BY <1>7 DEF ComputeCommands, Touched, InvalidateStateReads
<1>8. ASSUME ComputeObservations PROVE Finals'
  BY <1>8 DEF ComputeObservations
<1>9. ASSUME AccountStep PROVE Finals'
  <2>1. CASE autoreset /\ Done # {}
    <3>1. pc' = "preReset" /\ ids' = Done /\ inAuto'
      BY <1>9, <2>1 DEF AccountStep
    <3>2. \A e \in Done : obs'[e] = Observed(e)' /\ age'[e] > 0
      BY <1>9 DEF AccountStep, Done
    <3> QED
      BY <1>9, <3>1, <3>2 DEF AccountStep
  <2>2. CASE ~(autoreset /\ Done # {})
    BY <1>9, <2>2 DEF AccountStep
  <2> QED
    BY <2>1, <2>2
<1>10. ASSUME PostStep PROVE Finals'
  BY <1>10 DEF PostStep
<1>11. ASSUME InitState PROVE Finals'
  BY <1>11 DEF InitState
<1>12. ASSUME NEW rows \in SUBSET Env, Reset(rows) PROVE Finals'
  BY <1>12 DEF Reset
<1>13. ASSUME BeginReset PROVE Finals'
  BY <1>13 DEF BeginReset, KeepFinalObservations
<1>14. ASSUME NEW draws \in 1 .. CmdMax, ResetEvents(draws) PROVE Finals'
  <2>1. CASE inAuto
    BY <1>14, <2>1 DEF ResetEvents
  <2>2. CASE ~inAuto
    BY <1>14, <2>2 DEF ResetEvents
  <2> QED
    BY <2>1, <2>2
<1>15. ASSUME NEW draws \in 1 .. PushMax, ResetManagers(draws) PROVE Finals'
  BY <1>15 DEF ResetManagers, ZeroRows, ClearActionHistory
<1>16. ASSUME ResetObserve PROVE Finals'
  BY <1>16 DEF ResetObserve
<1>17. ASSUME NEW off \in [Env -> 0 .. MaxOffset], age = [e \in Env |-> 0], SetEpisodeLengthBuf(off)
      PROVE Finals'
  BY <1>17 DEF SetEpisodeLengthBuf
<1> QED
  BY <1>1, <1>2, <1>3, <1>4, <1>5, <1>6, <1>7, <1>8, <1>9, <1>10,
     <1>11, <1>12, <1>13, <1>14, <1>15, <1>16, <1>17, Zenon DEF Next

LEMMA Stuttering == ASSUME Inv, UNCHANGED vars PROVE Inv'
<1> USE DEF vars, episodevars, flagvars, obsvars, actionvars, sumvars, timervars, simvars, recvars,
        cfgvars, Done, Observed
<1>1. Types' /\ Accounts'
  BY DEF Inv, Types, Accounts, Lag, Rewritten
<1>2. Horizon' /\ Reads'
  BY DEF Inv, Horizon, Waiting, Reads, Resetting
<1>3. Finals'
  BY DEF Inv, Finals
<1> QED
  BY <1>1, <1>2, <1>3 DEF Inv

LEMMA Inv_Inductive == Inv /\ [Next]_vars => Inv'
<1>1. ASSUME Inv, Next PROVE Inv'
  BY <1>1, Types_Step, Accounts_Step, Horizon_Step, Reads_Step, Finals_Step DEF Inv
<1> QED
  BY <1>1, Stuttering

-----------------------------------------------------------------------------
(* The theorems                                                            *)

\* Between calls every accumulator of a row -- the episode's length, the reward
\* sums, the metrics' divisor, the history of actions -- speaks of the transitions
\* since that row's last reset, and no step begins past the end of an episode: for
\* autoresets and manual resets of any rows, in any order.
THEOREM AccountsInStep == Spec => []EpisodeAccounting
<1>1. Inv => AccountsAgree
  BY DEF Inv, Accounts, Lag, Rewritten, AtRest, AccountsAgree, Types
<1>2. Inv => NoStepPastTheEnd
  BY DEF Inv, Types, Horizon, NoStepPastTheEnd
<1> QED
  BY InitHolds, Inv_Inductive, <1>1, <1>2, PTL DEF Spec, EpisodeAccounting

\* No observation handed out comes from a read cached before the row changed, and a
\* final observation is the one its episode ended with.
THEOREM ObservationsAreCurrent == Spec => []ObservationsCurrent
<1>1. Inv => ObservationsCurrent
  <2> SUFFICES ASSUME Inv, AtRest 
               PROVE  /\ current = Env
                      /\ \A e \in finalMask : final[e] = endedAt[e] /\ obs[e] = Observed(e) /\ obs[e].age = 0
    BY DEF ObservationsCurrent
  <2>1. current = Env
    BY DEF Inv, Reads, AtRest
  <2>2. ASSUME NEW e \in finalMask PROVE final[e] = endedAt[e] /\ obs[e] = Observed(e) /\ age[e] = 0
    BY DEF Inv, Finals, AtRest
  <2> QED
    BY <2>1, <2>2 DEF Observed
<1> QED
  BY InitHolds, Inv_Inductive, <1>1, PTL DEF Spec

-----------------------------------------------------------------------------
(* The circular buffers of one observation term.                            *)

Kept == (Nat \X Nat) \cup {Zero, Invalid}

\* A buffer of n slots, and the value n-k steps ago of row e.
Buffer(n) ==
    [slots : [0 .. n - 1 -> [ObEnv -> Kept]], ptr : 0 .. n - 1,
     pushes : [ObEnv -> Nat], init : BOOLEAN]

\* Row e of the buffer holds the end of s, padded with its first frame, and has counted
\* as many appends as s is long.
Holds(b, n, s, e) ==
    /\ b.pushes[e] = Len(s)
    /\ s # <<>> => \A k \in 1 .. n : b.slots[(b.ptr + k) % n][e] = s[Max2(Len(s) - n + k, 1)]

\* The last n frames of s, padded with the first.
Window(s, n) == [k \in 1 .. n |-> s[Max2(Len(s) - n + k, 1)]]

\* Nothing a reader of row e could tell apart.
SameRow(b, c, n, e) ==
    /\ b.ptr = c.ptr /\ b.pushes[e] = c.pushes[e]
    /\ \A i \in 0 .. n - 1 : b.slots[i][e] = c.slots[i][e]

\* A round of the buffer at most.
LEMMA Modulo ==
  ASSUME NEW n \in Nat \ {0}, NEW a \in Nat, a < 2 * n
  PROVE  a % n = IF a < n THEN a ELSE a - n
<1>1. CASE a < n
  BY <1>1
<1>2. CASE a >= n
  <2>1. PICK r \in 0 .. n - 1 : a = r + n
    BY <1>2
  <2>2. (r + n) % n = r
    BY <2>1
  <2> QED BY <2>1, <2>2, <1>2
<1> QED BY <1>1, <1>2

\* Its length.
LEMMA LengthOf ==
  ASSUME NEW n \in Nat \ {0}, NEW b \in Buffer(n)
  PROVE  Length(b) = n /\ DOMAIN b.slots = 0 .. n - 1
<1>1. DOMAIN b.slots = 0 .. n - 1
  BY DEF Buffer
<1>2. Cardinality(0 .. n - 1) = n
  BY FS_Interval
<1> QED BY <1>1, <1>2 DEF Length

\* A buffer stays one.
LEMMA AppendedType ==
  ASSUME NEW n \in Nat \ {0}, NEW b \in Buffer(n), NEW data \in [ObEnv -> Kept]
  PROVE  /\ Appended(b, data) \in Buffer(n)
         /\ Appended(b, data).init
<1> DEFINE p == (b.ptr + 1) % n
<1>1. Length(b) = n /\ DOMAIN b.slots = 0 .. n - 1
  BY LengthOf
<1>2. p \in 0 .. n - 1
  BY DEF Buffer
<1> HIDE DEF p
<1>3. Appended(b, data) =
        [slots |-> [i \in 0 .. n - 1 |->
                     [e \in ObEnv |-> IF i = p \/ b.pushes[e] = 0 THEN data[e] ELSE b.slots[i][e]]],
         ptr |-> p, pushes |-> [e \in ObEnv |-> b.pushes[e] + 1], init |-> TRUE]
  BY <1>1 DEF Appended, p
<1>4. [i \in 0 .. n - 1 |-> [e \in ObEnv |-> IF i = p \/ b.pushes[e] = 0 THEN data[e] ELSE b.slots[i][e]]]
        \in [0 .. n - 1 -> [ObEnv -> Kept]]
  BY DEF Buffer
<1>5. [e \in ObEnv |-> b.pushes[e] + 1] \in [ObEnv -> Nat]
  BY DEF Buffer
<1>6. TRUE \in BOOLEAN
  BY Zenon
<1>7. \A sl \in [0 .. n - 1 -> [ObEnv -> Kept]], pu \in [ObEnv -> Nat] :
        LET r == [slots |-> sl, ptr |-> p, pushes |-> pu, init |-> TRUE]
        IN r \in Buffer(n) /\ r.init
  BY <1>2, <1>6 DEF Buffer
<1> QED BY <1>3, <1>4, <1>5, <1>7

LEMMA BackfillType ==
  ASSUME NEW n \in Nat \ {0}, NEW b \in Buffer(n), NEW data \in [ObEnv -> Kept], NEW rows
  PROVE  /\ Backfill(b, data, rows) \in Buffer(n)
         /\ Backfill(b, data, rows).init = b.init
<1>1. DOMAIN b.slots = 0 .. n - 1
  BY LengthOf
<1> DEFINE sl == [i \in 0 .. n - 1 |-> [e \in ObEnv |-> IF e \in rows THEN data[e] ELSE b.slots[i][e]]]
           pu == [e \in ObEnv |-> IF e \in rows THEN 1 ELSE b.pushes[e]]
<1>2. sl \in [0 .. n - 1 -> [ObEnv -> Kept]] /\ pu \in [ObEnv -> Nat]
  BY DEF Buffer
<1>3. Backfill(b, data, rows) = [b EXCEPT !.slots = sl, !.pushes = pu]
  BY <1>1, Zenon DEF Backfill
<1> HIDE DEF sl, pu
<1> QED BY <1>2, <1>3, Zenon DEF Buffer

LEMMA ResetType ==
  ASSUME NEW n \in Nat \ {0}, NEW b \in Buffer(n), NEW rows
  PROVE  /\ ResetBuffer(b, rows) \in Buffer(n)
         /\ ResetBuffer(b, rows).init = b.init
<1>1. DOMAIN b.slots = 0 .. n - 1
  BY LengthOf
<1> DEFINE sl == [i \in 0 .. n - 1 |-> [e \in ObEnv |-> IF e \in rows THEN Zero ELSE b.slots[i][e]]]
           pu == [e \in ObEnv |-> IF e \in rows THEN 0 ELSE b.pushes[e]]
<1>2. sl \in [0 .. n - 1 -> [ObEnv -> Kept]] /\ pu \in [ObEnv -> Nat]
  BY DEF Buffer, Kept
<1>3. ResetBuffer(b, rows) = [b EXCEPT !.slots = sl, !.pushes = pu]
  BY <1>1, Zenon DEF ResetBuffer
<1> HIDE DEF sl, pu
<1> QED BY <1>2, <1>3, Zenon DEF Buffer

\* Appending a frame to every row appends it to what each row holds.
LEMMA AppendedHolds ==
  ASSUME NEW n \in Nat \ {0}, NEW b \in Buffer(n), NEW data \in [ObEnv -> Kept], NEW e \in ObEnv,
         NEW s \in Seq(Kept), Holds(b, n, s, e)
  PROVE  Holds(Appended(b, data), n, Append(s, data[e]), e)
<1> DEFINE p == (b.ptr + 1) % n
           B == Appended(b, data)
           t == Append(s, data[e])
<1>1. Length(b) = n /\ DOMAIN b.slots = 0 .. n - 1
  BY LengthOf
<1>2. b.ptr \in 0 .. n - 1 /\ b.pushes[e] \in Nat
  BY DEF Buffer
<1>3. p = IF b.ptr = n - 1 THEN 0 ELSE b.ptr + 1
  <2>1. PICK a \in Nat : a = b.ptr + 1 /\ a < 2 * n
    BY <1>2
  <2>2. a % n = IF a < n THEN a ELSE a - n
    BY <2>1, Modulo
  <2>3. p = IF a < n THEN a ELSE a - n
    BY <2>1, <2>2, Zenon
  <2> HIDE DEF p
  <2>4. CASE a < n
    BY <2>1, <2>3, <2>4, <1>2
  <2>5. CASE ~(a < n)
    BY <2>1, <2>3, <2>5, <1>2
  <2> QED BY <2>4, <2>5
<1>4. /\ B.ptr = p /\ B.pushes[e] = b.pushes[e] + 1
      /\ \A i \in 0 .. n - 1 : B.slots[i][e] = IF i = p \/ b.pushes[e] = 0 THEN data[e] ELSE b.slots[i][e]
  BY <1>1 DEF Appended
<1>5. /\ Len(s) \in Nat /\ Len(t) = Len(s) + 1 /\ t # <<>>
      /\ t[Len(s) + 1] = data[e]
      /\ \A i \in 1 .. Len(s) : t[i] = s[i]
  OBVIOUS
<1>6. s = <<>> <=> Len(s) = 0
  OBVIOUS
<1> HIDE DEF B, t, p
<1>7. ASSUME NEW k \in 1 .. n PROVE B.slots[(p + k) % n][e] = t[Max2(Len(t) - n + k, 1)]
  <2>1. p \in 0 .. n - 1
    BY <1>2, <1>3
  <2>2. (p + k) % n = IF p + k < n THEN p + k ELSE p + k - n
    <3>1. PICK a \in Nat : a = p + k /\ a < 2 * n
      BY <2>1
    <3>2. a % n = IF a < n THEN a ELSE a - n
      BY <3>1, Modulo
    <3>3. (p + k) % n = a % n
      BY <3>1, Zenon
    <3>4. (IF a < n THEN a ELSE a - n) = (IF p + k < n THEN p + k ELSE p + k - n)
      BY <3>1, <2>1
    <3> QED BY <3>2, <3>3, <3>4, Zenon
  <2>3. (p + k) % n \in 0 .. n - 1
    BY <2>1, <2>2
  <2>4. CASE Len(s) = 0
    <3>1. Max2(Len(t) - n + k, 1) = Len(s) + 1
      BY <2>4, <1>5 DEF Max2
    <3>2. b.pushes[e] = 0
      BY <2>4 DEF Holds
    <3>3. B.slots[(p + k) % n][e] = data[e]
      BY <3>2, <1>4, <2>3
    <3> QED BY <3>1, <3>3, <1>5
  <2>5. CASE Len(s) > 0 /\ k = n
    <3>1. (p + k) % n = p
      BY <2>1, <2>2, <2>5
    <3>2. Max2(Len(t) - n + k, 1) = Len(s) + 1
      BY <2>5, <1>5 DEF Max2
    <3> QED BY <3>1, <3>2, <1>4, <1>5, <2>3
  <2>6. CASE Len(s) > 0 /\ k < n
    <3>1. k + 1 \in 1 .. n
      BY <2>6
    <3>2. (b.ptr + (k + 1)) % n = IF b.ptr + (k + 1) < n THEN b.ptr + (k + 1) ELSE b.ptr + (k + 1) - n
      <4>1. PICK a \in Nat : a = b.ptr + (k + 1) /\ a < 2 * n
        BY <3>1, <1>2
      <4>2. a % n = IF a < n THEN a ELSE a - n
        BY <4>1, Modulo
      <4>3. (b.ptr + (k + 1)) % n = a % n
        BY <4>1, Zenon
      <4>4. (IF a < n THEN a ELSE a - n)
              = (IF b.ptr + (k + 1) < n THEN b.ptr + (k + 1) ELSE b.ptr + (k + 1) - n)
        <5>1. PICK r \in Nat : r = b.ptr
          BY <1>2
        <5>2. (IF a < n THEN a ELSE a - n) = (IF r + (k + 1) < n THEN r + (k + 1) ELSE r + (k + 1) - n)
          <6>1. a = r + (k + 1)
            BY <4>1, <5>1, Zenon
          <6> QED BY <6>1
        <5> QED BY <5>1, <5>2, Zenon
      <4> QED BY <4>2, <4>3, <4>4, Zenon
    <3>3. (p + k) % n = (b.ptr + (k + 1)) % n /\ (p + k) % n # p
      <4>1. CASE b.ptr = n - 1
        <5>1. p = 0 /\ (p + k) % n = k
          BY <4>1, <2>2, <1>3, <2>6
        <5>2. (b.ptr + (k + 1)) % n = k
          BY <4>1, <3>2, <2>6
        <5> QED BY <5>1, <5>2
      <4>2. CASE b.ptr # n - 1
        <5>1. p = b.ptr + 1 /\ b.ptr + (k + 1) = p + k
          BY <4>2, <1>2, <1>3
        <5>2. (b.ptr + (k + 1)) % n = (p + k) % n
          BY <5>1, Zenon
        <5>3. (p + k) % n # p
          BY <2>1, <2>2, <2>6
        <5> QED BY <5>2, <5>3
      <4> QED BY <4>1, <4>2
    <3>4. b.slots[(b.ptr + (k + 1)) % n][e] = s[Max2(Len(s) - n + (k + 1), 1)]
      BY <3>1, <2>6, <1>6 DEF Holds
    <3>5. B.slots[(p + k) % n][e] = b.slots[(p + k) % n][e]
      <4>1. b.pushes[e] # 0
        BY <2>6 DEF Holds
      <4> QED BY <4>1, <3>3, <1>4, <2>3
    <3>6. /\ Max2(Len(t) - n + k, 1) = Max2(Len(s) - n + (k + 1), 1)
          /\ Max2(Len(t) - n + k, 1) \in 1 .. Len(s)
      BY <2>6, <1>5 DEF Max2
    <3> QED BY <3>3, <3>4, <3>5, <3>6, <1>5
  <2> QED BY <2>4, <2>5, <2>6, <1>5
<1>8. B.pushes[e] = Len(t)
  BY <1>4, <1>5 DEF Holds
<1>9. Holds(B, n, t, e)
  BY <1>4, <1>7, <1>8 DEF Holds
<1> QED BY <1>9 DEF B, t

\* A row filled with one frame holds it alone; the other rows what they held.
LEMMA BackfillHolds ==
  ASSUME NEW n \in Nat \ {0}, NEW b \in Buffer(n), NEW data \in [ObEnv -> Kept], NEW rows, NEW e \in ObEnv
  PROVE  /\ e \in rows => Holds(Backfill(b, data, rows), n, <<data[e]>>, e)
         /\ e \notin rows => SameRow(Backfill(b, data, rows), b, n, e)
<1> DEFINE B == Backfill(b, data, rows)
<1>1. DOMAIN b.slots = 0 .. n - 1
  BY LengthOf
<1>2. /\ B.ptr = b.ptr /\ B.pushes[e] = IF e \in rows THEN 1 ELSE b.pushes[e]
      /\ DOMAIN B.slots = 0 .. n - 1
      /\ \A i \in 0 .. n - 1 : B.slots[i][e] = IF e \in rows THEN data[e] ELSE b.slots[i][e]
  BY <1>1 DEF Backfill, Buffer
<1>3. \A k \in 1 .. n : (b.ptr + k) % n \in 0 .. n - 1
  BY DEF Buffer
<1>4. /\ Len(<<data[e]>>) = 1
      /\ \A k \in 1 .. n : Max2(1 - n + k, 1) = 1
      /\ <<data[e]>>[1] = data[e]
  BY DEF Max2
<1> HIDE DEF B
<1>5. ASSUME e \in rows PROVE Holds(B, n, <<data[e]>>, e)
  BY <1>2, <1>3, <1>4, <1>5 DEF Holds
<1>6. ASSUME e \notin rows PROVE SameRow(B, b, n, e)
  BY <1>2, <1>6 DEF SameRow
<1> QED BY <1>5, <1>6 DEF B

\* A cleared row holds nothing.
LEMMA ResetHolds ==
  ASSUME NEW n \in Nat \ {0}, NEW b \in Buffer(n), NEW rows, NEW e \in ObEnv
  PROVE  /\ e \in rows => Holds(ResetBuffer(b, rows), n, <<>>, e)
         /\ e \notin rows => SameRow(ResetBuffer(b, rows), b, n, e)
<1> DEFINE B == ResetBuffer(b, rows)
<1>1. DOMAIN b.slots = 0 .. n - 1
  BY LengthOf
<1>2. /\ B.ptr = b.ptr /\ B.pushes[e] = IF e \in rows THEN 0 ELSE b.pushes[e]
      /\ DOMAIN B.slots = 0 .. n - 1
      /\ \A i \in 0 .. n - 1 : B.slots[i][e] = IF e \in rows THEN Zero ELSE b.slots[i][e]
  BY <1>1 DEF ResetBuffer, Buffer
<1> HIDE DEF B
<1>5. ASSUME e \in rows PROVE Holds(B, n, <<>>, e)
  BY <1>2, <1>5 DEF Holds
<1>6. ASSUME e \notin rows PROVE SameRow(B, b, n, e)
  BY <1>2, <1>6 DEF SameRow
<1> QED BY <1>5, <1>6 DEF B

\* What is the same of a row reads the same.
LEMMA SameReads ==
  ASSUME NEW n \in Nat \ {0}, NEW b \in Buffer(n), NEW B \in Buffer(n), NEW e \in ObEnv, SameRow(B, b, n, e)
  PROVE  /\ \A s \in Seq(Kept) : Holds(b, n, s, e) => Holds(B, n, s, e)
         /\ \A ls \in [ObEnv -> Nat] : Peek(B, ls, e) = Peek(b, ls, e)
         /\ Ordered(B, e) = Ordered(b, e)
<1>1. Length(b) = n /\ Length(B) = n
  BY LengthOf
<1>2. b.ptr \in 0 .. n - 1 /\ b.pushes[e] \in Nat
  BY DEF Buffer
<1>3. \A k \in 1 .. n : (b.ptr + k) % n \in 0 .. n - 1
  BY <1>2
<1>4. ASSUME NEW s \in Seq(Kept), Holds(b, n, s, e) PROVE Holds(B, n, s, e)
  BY <1>3, <1>4 DEF Holds, SameRow
<1>5. ASSUME NEW ls \in [ObEnv -> Nat] PROVE Peek(B, ls, e) = Peek(b, ls, e)
  <2> DEFINE lag == Max2(Min2(ls[e], Min2(b.pushes[e], n) - 1), 0)
             valid == Min2(lag, Min2(Max2(b.pushes[e], 1), n) - 1)
  <2>1. valid \in 0 .. n - 1
    BY <1>2 DEF Max2, Min2
  <2> HIDE DEF valid
  <2>2. (b.ptr + n - valid) % n \in 0 .. n - 1
    BY <1>2, <2>1
  <2>3. Peek(b, ls, e) = b.slots[(b.ptr + n - valid) % n][e]
    BY <1>1 DEF Peek, AtLag, CurrentLength, valid
  <2>4. Peek(B, ls, e) = B.slots[(b.ptr + n - valid) % n][e]
    BY <1>1 DEF Peek, AtLag, CurrentLength, valid, SameRow
  <2> QED BY <2>2, <2>3, <2>4 DEF SameRow
<1>6. Ordered(B, e) = Ordered(b, e)
  BY <1>1, <1>3 DEF Ordered, SameRow
<1> QED BY <1>4, <1>5, <1>6

\* A lag picks the frame so many back, or the first.
LEMMA PeekOf ==
  ASSUME NEW n \in Nat \ {0}, NEW b \in Buffer(n), NEW e \in ObEnv, NEW s \in Seq(Kept), s # <<>>,
         Holds(b, n, s, e), NEW ls \in [ObEnv -> 0 .. n - 1]
  PROVE  Peek(b, ls, e) = s[Max2(Len(s) - ls[e], 1)] /\ Max2(Len(s) - ls[e], 1) \in 1 .. Len(s)
<1> DEFINE m == Len(s)
           lag == Max2(Min2(ls[e], Min2(m, n) - 1), 0)
           valid == Min2(lag, Min2(Max2(m, 1), n) - 1)
<1>1. Length(b) = n
  BY LengthOf
<1>2. b.ptr \in 0 .. n - 1 /\ b.pushes[e] = m /\ m \in Nat /\ m >= 1 /\ ls[e] \in 0 .. n - 1
  BY DEF Buffer, Holds
<1>3. Peek(b, ls, e) = b.slots[(b.ptr + n - valid) % n][e]
  BY <1>1, <1>2 DEF Peek, AtLag, CurrentLength
<1>4. n - valid \in 1 .. n /\ b.ptr + n - valid = b.ptr + (n - valid)
  BY <1>2 DEF Max2, Min2
<1>5. Max2(m - n + (n - valid), 1) = Max2(m - ls[e], 1) /\ Max2(m - ls[e], 1) \in 1 .. m
  BY <1>2 DEF Max2, Min2
<1> HIDE DEF valid, m
<1>6. b.slots[(b.ptr + (n - valid)) % n][e] = s[Max2(m - n + (n - valid), 1)]
  BY <1>4 DEF Holds, m
<1>7. Peek(b, ls, e) = s[Max2(m - ls[e], 1)]
  BY <1>3, <1>4, <1>5, <1>6
<1> QED BY <1>5, <1>7 DEF m

\* The window is the end of what the row holds.
LEMMA OrderedOf ==
  ASSUME NEW n \in Nat \ {0}, NEW b \in Buffer(n), NEW e \in ObEnv, NEW s \in Seq(Kept), s # <<>>,
         Holds(b, n, s, e)
  PROVE  /\ Ordered(b, e) = Window(s, n)
         /\ \A k \in 1 .. n : Max2(Len(s) - n + k, 1) \in 1 .. Len(s)
<1>1. Length(b) = n
  BY LengthOf
<1>2. Len(s) \in Nat /\ Len(s) >= 1
  OBVIOUS
<1>3. \A k \in 1 .. n : Max2(Len(s) - n + k, 1) \in 1 .. Len(s)
  BY <1>2 DEF Max2
<1> QED BY <1>1, <1>3 DEF Ordered, Holds, Window

-----------------------------------------------------------------------------
(* What one observation term hands out.                                     *)

DelaySlots == cfg.maxLag + 1
HistorySlots == Max2(cfg.history, 1)

ObTypes ==
    /\ cfg \in Configs /\ resetting \subseteq ObEnv
    /\ obEpisode \in [ObEnv -> Nat] /\ obAge \in [ObEnv -> Nat] /\ obResets \in Nat
    /\ delay \in Buffer(DelaySlots) /\ history \in Buffer(HistorySlots)
    /\ lags \in [ObEnv -> 0 .. cfg.maxLag] /\ bias \in [ObEnv -> Nat]
    /\ seen \in [ObEnv -> Seq(Kept)] /\ delayed \in [ObEnv -> Seq(Kept)]

\* The frames of a row are those of its episode: none while it is under reset.
Contents ==
    \A e \in ObEnv :
        /\ seen[e] = <<>> <=> e \in resetting
        /\ delayed[e] = <<>> <=> e \in resetting
        /\ cfg.maxLag > 0 => Holds(delay, DelaySlots, seen[e], e)
        /\ cfg.history > 0 => Holds(history, HistorySlots, delayed[e], e)

\* The first observation, of every row, fills the buffers and draws the bias.
Begun ==
    /\ (\A e \in ObEnv : bias[e] = 0) \/ (\A e \in ObEnv : bias[e] >= 1)
    /\ \/ resetting = ObEnv
       \/ /\ cfg.maxLag > 0 => delay.init
          /\ cfg.history > 0 => history.init
          /\ cfg.noise = "bias" => \A e \in ObEnv : bias[e] >= 1

Valid(w) == \A k \in DOMAIN w : w[k] # Invalid

\* A check that raises lets no NaN into a buffer; one of the final output replaces it.
Clean ==
    /\ cfg.policy = "error" => \A e \in ObEnv : Valid(seen[e]) /\ Valid(delayed[e])
    /\ cfg.policy # "disabled" => \A e \in ObEnv : out[e] # NoRow => Valid(out[e])
    /\ cfg.policy # "disabled" /\ cached # NoRow => \A e \in ObEnv : cached[e] # NoRow => Valid(cached[e])

ObInv == ObTypes /\ Contents /\ Begun /\ Clean

LEMMA ConfigTypes ==
  ASSUME cfg \in Configs
  PROVE  /\ cfg.minLag \in Nat /\ cfg.maxLag \in Nat /\ cfg.history \in Nat
         /\ DelaySlots \in Nat \ {0} /\ HistorySlots \in Nat \ {0}
         /\ cfg.history > 0 => HistorySlots = cfg.history
         /\ cfg.policy \in {"disabled", "sanitize", "error"}
  BY ConfigAssumption DEF TermConfig, DelaySlots, HistorySlots, Max2

LEMMA FrameIsValid ==
  ASSUME NEW a \in Nat, NEW b \in Nat
  PROVE  <<a, b>> \in Kept /\ <<a, b>> # Invalid
  BY FrameAssumption DEF Kept

\* A lag drawn is within the configured ones, a lag kept was.
LEMMA SampledLagsType ==
  ASSUME cfg \in Configs, lags \in [ObEnv -> 0 .. cfg.maxLag], NEW ls \in SampledLags
  PROVE  ls \in [ObEnv -> 0 .. cfg.maxLag]
<1>1. cfg.minLag \in Nat /\ cfg.maxLag \in Nat
  BY ConfigTypes
<1>2. \E f \in [ObEnv -> cfg.minLag .. cfg.maxLag] : \E held :
        ls = [e \in ObEnv |-> IF e \in ShouldUpdate \ held THEN f[e] ELSE lags[e]]
  BY DEF SampledLags
<1>3. PICK f \in [ObEnv -> cfg.minLag .. cfg.maxLag] : \E held :
        ls = [e \in ObEnv |-> IF e \in ShouldUpdate \ held THEN f[e] ELSE lags[e]]
  BY <1>2
<1>4. PICK held : ls = [e \in ObEnv |-> IF e \in ShouldUpdate \ held THEN f[e] ELSE lags[e]]
  BY <1>3
<1> QED BY <1>1, <1>4

\* What is handed out of valid frames, or with the check of the final output, is valid.
LEMMA HandedOut ==
  ASSUME NEW w, cfg \in Configs, cfg.policy # "disabled", cfg.policy = "error" => Valid(w)
  PROVE  Valid(HandOut(w))
<1>1. CASE cfg.policy = "error"
  BY <1>1 DEF HandOut
<1>2. CASE cfg.policy = "sanitize"
  BY <1>2, FrameAssumption DEF HandOut, Valid
<1> QED BY <1>1, <1>2, ConfigTypes

\* The frames of a batch.
LEMMA RawFrames ==
  ASSUME ObTypes, NEW bad, obAge' \in [ObEnv -> Nat], NEW e \in ObEnv
  PROVE  /\ RawFrame(e, bad) \in Kept
         /\ e \notin bad => RawFrame(e, bad) # Invalid
  BY FrameIsValid DEF RawFrame, Kept, ObTypes

\* What passes the delay is a frame of this episode, and valid if they all are.
LEMMA DelayedFrame ==
  ASSUME NEW c \in Configs, NEW D \in Buffer(c.maxLag + 1), NEW ls \in [ObEnv -> 0 .. c.maxLag], NEW e \in ObEnv,
         NEW s \in Seq(Kept), s # <<>>, Holds(D, c.maxLag + 1, s, e)
  PROVE  Peek(D, ls, e) \in Kept /\ (Valid(s) => Peek(D, ls, e) # Invalid)
<1>1. c.maxLag + 1 \in Nat \ {0} /\ 0 .. c.maxLag = 0 .. (c.maxLag + 1) - 1
  BY ConfigAssumption DEF TermConfig
<1> DEFINE i == Max2(Len(s) - ls[e], 1)
<1>2. Peek(D, ls, e) = s[i] /\ i \in 1 .. Len(s)
  BY <1>1, PeekOf
<1> HIDE DEF i
<1>3. s[i] \in Kept /\ i \in DOMAIN s
  BY <1>2
<1> QED BY <1>2, <1>3 DEF Valid

\* A window of valid frames is valid.
LEMMA WindowValid ==
  ASSUME NEW n \in Nat \ {0}, NEW b \in Buffer(n), NEW e \in ObEnv, NEW s \in Seq(Kept), s # <<>>,
         Holds(b, n, s, e), Valid(s)
  PROVE  Valid(Ordered(b, e))
<1>1. /\ Ordered(b, e) = [k \in 1 .. n |-> s[Max2(Len(s) - n + k, 1)]]
      /\ \A k \in 1 .. n : Max2(Len(s) - n + k, 1) \in 1 .. Len(s)
  BY OrderedOf DEF Window
<1>2. \A i \in 1 .. Len(s) : s[i] # Invalid
  BY DEF Valid
<1> QED BY <1>1, <1>2 DEF Valid

\* One frame, or none.
LEMMA OneFrame ==
  ASSUME NEW x \in Kept
  PROVE  /\ <<x>> \in Seq(Kept) /\ <<x>> # <<>>
         /\ x # Invalid => Valid(<<x>>)
         /\ <<>> \in Seq(Kept) /\ Valid(<<>>)
<1>1. /\ <<x>> \in Seq(Kept) /\ <<x>> # <<>> /\ <<>> \in Seq(Kept)
      /\ DOMAIN <<x>> = {1} /\ <<x>>[1] = x
  OBVIOUS
<1>2. ASSUME x # Invalid PROVE Valid(<<x>>)
  BY <1>1, <1>2 DEF Valid
<1>3. Valid(<<>>)
  BY DEF Valid
<1> QED BY <1>1, <1>2, <1>3

\* One frame more.
LEMMA AppendFrame ==
  ASSUME NEW s \in Seq(Kept), NEW x \in Kept
  PROVE  /\ Append(s, x) \in Seq(Kept) /\ Append(s, x) # <<>>
         /\ Valid(s) /\ x # Invalid => Valid(Append(s, x))
<1> DEFINE t == Append(s, x)
<1>1. /\ t \in Seq(Kept) /\ t # <<>> /\ DOMAIN t = 1 .. Len(s) + 1
      /\ \A i \in 1 .. Len(s) + 1 : t[i] = IF i <= Len(s) THEN s[i] ELSE x
  OBVIOUS
<1>2. DOMAIN s = 1 .. Len(s) /\ Len(s) \in Nat
  OBVIOUS
<1> HIDE DEF t
<1>3. ASSUME Valid(s), x # Invalid PROVE Valid(t)
  BY <1>1, <1>2, <1>3 DEF Valid
<1> QED BY <1>1, <1>3 DEF t

\* What computing a batch or some rows leaves alone.
Frozen == UNCHANGED <<cfg, obEpisode>> /\ obAge' \in [ObEnv -> Nat] /\ obResets' = obResets

\* A batch: every row appends its frame, and passes on a frame of its delay.
LEMMA BatchHolds ==
  ASSUME ObInv, Frozen, NEW update \in BOOLEAN, NEW bad \in SUBSET ObEnv, ComputeBatch(update, bad),
         resetting = {}, resetting' = {}
  PROVE  ObInv'
<1> DEFINE frame == [e \in ObEnv |-> RawFrame(e, bad)]
           handed == [e \in ObEnv |-> IF cfg.maxLag > 0 THEN Peek(delay', lags', e) ELSE frame[e]]
           push == cfg.history > 0 /\ (update \/ ~history.init)
<1> USE DEF ObInv
<1>1. /\ cfg \in Configs /\ cfg.maxLag \in Nat /\ cfg.history \in Nat
      /\ DelaySlots \in Nat \ {0} /\ HistorySlots \in Nat \ {0}
      /\ delay \in Buffer(DelaySlots) /\ history \in Buffer(HistorySlots)
      /\ cfg.policy \in {"disabled", "sanitize", "error"}
  BY ConfigTypes DEF ObTypes
<1>2. frame \in [ObEnv -> Kept]
  BY RawFrames DEF Frozen
<1>3. cfg.policy = "error" => \A e \in ObEnv : frame[e] # Invalid
  BY RawFrames DEF Frozen, ComputeBatch, CheckFails
<1>4. seen' = [e \in ObEnv |-> Append(seen[e], frame[e])]
  BY Zenon DEF ComputeBatch
<1>5. /\ cfg.maxLag > 0 => delay' = Appended(delay, frame) /\ lags' \in SampledLags
      /\ ~(cfg.maxLag > 0) => UNCHANGED <<delay, lags>>
  BY Zenon DEF ComputeBatch
<1>6. history' = IF push THEN Appended(history, handed) ELSE history
  BY Zenon DEF ComputeBatch
<1>7. delayed' = [e \in ObEnv |-> IF push \/ cfg.history = 0 THEN Append(delayed[e], handed[e]) ELSE delayed[e]]
  BY Zenon DEF ComputeBatch
<1>8. /\ out' = [e \in ObEnv |-> HandOut(IF cfg.history > 0 THEN Ordered(history', e) ELSE <<handed[e]>>)]
      /\ cached' = out'
      /\ InitializeBias
  BY Zenon DEF ComputeBatch
<1> HIDE DEF frame
<1>9. ASSUME NEW e \in ObEnv
      PROVE  /\ seen[e] \in Seq(Kept) /\ seen'[e] \in Seq(Kept) /\ seen'[e] # <<>>
             /\ cfg.policy = "error" => Valid(seen'[e])
  <2>1. seen[e] \in Seq(Kept) /\ frame[e] \in Kept /\ seen'[e] = Append(seen[e], frame[e])
    BY <1>2, <1>4 DEF ObTypes
  <2> QED BY <2>1, <1>3, AppendFrame DEF Clean
<1>10. /\ delay' \in Buffer(DelaySlots) /\ lags' \in [ObEnv -> 0 .. cfg.maxLag]
       /\ cfg.maxLag > 0 => delay'.init
  BY <1>1, <1>2, <1>5, AppendedType, SampledLagsType DEF ObTypes
<1>11. ASSUME NEW e \in ObEnv, cfg.maxLag > 0 PROVE Holds(delay', DelaySlots, seen'[e], e)
  <2>1. Holds(delay, DelaySlots, seen[e], e) /\ delay' = Appended(delay, frame)
        /\ seen'[e] = Append(seen[e], frame[e])
    BY <1>4, <1>5, <1>11 DEF Contents
  <2>2. Holds(Appended(delay, frame), DelaySlots, Append(seen[e], frame[e]), e)
    BY <2>1, <1>1, <1>2, <1>9, AppendedHolds
  <2> QED BY <2>1, <2>2
<1>12. ASSUME NEW e \in ObEnv PROVE handed[e] \in Kept /\ (cfg.policy = "error" => handed[e] # Invalid)
  <2>1. CASE cfg.maxLag > 0
    <3>1. Holds(delay', cfg.maxLag + 1, seen'[e], e) /\ delay' \in Buffer(cfg.maxLag + 1)
      BY <2>1, <1>10, <1>11 DEF DelaySlots
    <3>2. Peek(delay', lags', e) \in Kept /\ (Valid(seen'[e]) => Peek(delay', lags', e) # Invalid)
      BY <3>1, <1>1, <1>9, <1>10, DelayedFrame
    <3> QED BY <3>2, <2>1, <1>9
  <2>2. CASE ~(cfg.maxLag > 0)
    BY <2>2, <1>2, <1>3
  <2> QED BY <2>1, <2>2
<1>13. handed \in [ObEnv -> Kept]
  BY <1>12
<1> HIDE DEF handed
<1>14. history' \in Buffer(HistorySlots) /\ (cfg.history > 0 => history'.init)
  BY <1>1, <1>6, <1>13, AppendedType
<1>15. ASSUME NEW e \in ObEnv
       PROVE  /\ delayed'[e] \in Seq(Kept) /\ delayed'[e] # <<>>
              /\ cfg.policy = "error" => Valid(delayed'[e])
              /\ cfg.history > 0 => Holds(history', HistorySlots, delayed'[e], e)
  <2>1. /\ delayed[e] \in Seq(Kept) /\ delayed[e] # <<>> /\ handed[e] \in Kept
        /\ cfg.policy = "error" => Valid(delayed[e]) /\ handed[e] # Invalid
        /\ cfg.history > 0 => Holds(history, HistorySlots, delayed[e], e)
    BY <1>12, <1>13 DEF ObTypes, Contents, Clean
  <2>2. CASE push \/ cfg.history = 0
    <3>1. delayed'[e] = Append(delayed[e], handed[e])
      BY <1>7, <2>2
    <3>2. ASSUME cfg.history > 0 PROVE Holds(history', HistorySlots, delayed'[e], e)
      <4>1. history' = Appended(history, handed)
        BY <1>6, <2>2, <3>2
      <4>2. Holds(Appended(history, handed), HistorySlots, Append(delayed[e], handed[e]), e)
        BY <1>1, <1>13, <2>1, <3>2, AppendedHolds
      <4> QED BY <3>1, <4>1, <4>2
    <3> QED BY <2>1, <3>1, <3>2, AppendFrame
  <2>3. CASE ~(push \/ cfg.history = 0)
    BY <1>6, <1>7, <2>1, <2>3
  <2> QED BY <2>2, <2>3
<1>16. ASSUME NEW e \in ObEnv, cfg.policy # "disabled" PROVE Valid(out'[e])
  <2> DEFINE w == IF cfg.history > 0 THEN Ordered(history', e) ELSE <<handed[e]>>
  <2>1. out'[e] = HandOut(w)
    BY <1>8
  <2>2. ASSUME cfg.policy = "error" PROVE Valid(w)
    <3>1. CASE cfg.history > 0
      <4>1. Valid(Ordered(history', e))
        BY <3>1, <2>2, <1>1, <1>14, <1>15, WindowValid
      <4> QED BY <3>1, <4>1
    <3>2. CASE ~(cfg.history > 0)
      <4>1. Valid(<<handed[e]>>)
        BY <2>2, <1>12, OneFrame
      <4> QED BY <3>2, <4>1
    <3> QED BY <3>1, <3>2
  <2> HIDE DEF w
  <2> QED BY <2>1, <2>2, <1>1, <1>16, HandedOut
<1>17. /\ bias' \in [ObEnv -> Nat]
       /\ (\A e \in ObEnv : bias'[e] = 0) \/ (\A e \in ObEnv : bias'[e] >= 1)
       /\ (\A e \in ObEnv : bias[e] >= 1) => \A e \in ObEnv : bias'[e] >= 1
  BY <1>8 DEF InitializeBias, ObTypes, Begun
<1>18. UNCHANGED <<DelaySlots, HistorySlots, cfg>>
  BY DEF Frozen, DelaySlots, HistorySlots
<1>19. ObTypes'
  <2>1. seen' \in [ObEnv -> Seq(Kept)] /\ delayed' \in [ObEnv -> Seq(Kept)]
    BY <1>4, <1>7, <1>9, <1>15
  <2> QED BY <2>1, <1>10, <1>14, <1>17, <1>18 DEF ObTypes, Frozen
<1>20. Contents'
  BY <1>9, <1>11, <1>15, <1>18 DEF Contents
<1>21. Begun'
  <2>1. ObEnv = {} \/ (cfg.noise = "bias" => \A e \in ObEnv : bias[e] >= 1)
    BY DEF Begun
  <2> QED BY <2>1, <1>10, <1>14, <1>17, <1>18 DEF Begun
<1>22. Clean'
  BY <1>8, <1>9, <1>15, <1>16, <1>18 DEF Clean
<1> QED BY <1>19, <1>20, <1>21, <1>22

\* The rows under reset are filled with their first frame; if nothing was observed
\* yet these are all rows.
LEMMA RowsHold ==
  ASSUME ObInv, Frozen, NEW bad \in SUBSET ObEnv, ComputeRows(resetting, bad), resetting # {}, resetting' = {},
         ~CheckFails(IF Temporal THEN bad ELSE bad \cap resetting)
  PROVE  /\ ObInv'
         /\ resetting # ObEnv => \A e \in ObEnv \ resetting : UNCHANGED RowState(e)
<1> DEFINE frame == [e \in ObEnv |-> RawFrame(e, bad)]
           handed == [e \in ObEnv |-> IF cfg.maxLag > 0 THEN Peek(delay', lags', e) ELSE frame[e]]
<1> USE DEF ObInv
<1>1. /\ cfg \in Configs /\ cfg.maxLag \in Nat /\ cfg.history \in Nat
      /\ DelaySlots \in Nat \ {0} /\ HistorySlots \in Nat \ {0}
      /\ delay \in Buffer(DelaySlots) /\ history \in Buffer(HistorySlots)
      /\ cfg.policy \in {"disabled", "sanitize", "error"}
      /\ resetting \subseteq ObEnv
      /\ lags \in [ObEnv -> 0 .. cfg.maxLag]
  BY ConfigTypes DEF ObTypes
<1>2. frame \in [ObEnv -> Kept]
  BY RawFrames DEF Frozen
<1>3. ASSUME cfg.policy = "error"
      PROVE  /\ \A e \in resetting : frame[e] # Invalid
             /\ cfg.maxLag > 0 \/ cfg.history > 0 => \A e \in ObEnv : frame[e] # Invalid
  BY <1>1, <1>3, RawFrames DEF Frozen, CheckFails, Temporal
<1>4. seen' = [e \in ObEnv |-> IF e \in resetting THEN <<frame[e]>> ELSE seen[e]]
  BY Zenon DEF ComputeRows
<1>5. /\ ~(cfg.maxLag > 0) => UNCHANGED <<delay, lags, stepCount>>
      /\ cfg.maxLag > 0 /\ delay.init => delay' = Backfill(delay, frame, resetting) /\ UNCHANGED <<lags,
                  stepCount>>
      /\ cfg.maxLag > 0 /\ ~delay.init => delay' = Appended(delay, frame) /\ lags' \in SampledLags
  <2>1. IF cfg.maxLag = 0 THEN UNCHANGED <<delay, lags, stepCount>>
        ELSE IF delay.init THEN /\ delay' = Backfill(delay, frame, resetting)
                                /\ UNCHANGED <<lags, stepCount>>
        ELSE /\ delay' = Appended(delay, frame)
             /\ lags' \in SampledLags
             /\ stepCount' = [e \in ObEnv |-> stepCount[e] + 1]
    BY Zenon DEF ComputeRows
  <2>2. cfg.maxLag = 0 <=> ~(cfg.maxLag > 0)
    BY <1>1
  <2> QED BY <2>1, <2>2, Zenon
<1>6. history' = IF cfg.history = 0 THEN history
                 ELSE IF history.init THEN Backfill(history, handed, resetting) ELSE Appended(history, handed)
  BY Zenon DEF ComputeRows
<1>7. delayed' = [e \in ObEnv |-> IF e \in resetting THEN <<handed[e]>> ELSE delayed[e]]
  BY Zenon DEF ComputeRows
<1>8. /\ out' = [e \in ObEnv |-> IF e \in resetting
                                 THEN HandOut(IF cfg.history > 0 THEN Ordered(history', e) ELSE <<handed[e]>>)
                                 ELSE out[e]]
      /\ InitializeBias
      /\ UNCHANGED <<cached, phase>>
  BY Zenon DEF ComputeRows
<1> HIDE DEF frame
<1>9. ASSUME NEW e \in ObEnv
      PROVE  /\ seen'[e] \in Seq(Kept) /\ seen'[e] # <<>>
             /\ cfg.policy = "error" => Valid(seen'[e])
  <2>1. CASE e \in resetting
    <3>1. seen'[e] = <<frame[e]>> /\ frame[e] \in Kept
      BY <2>1, <1>2, <1>4
    <3> QED BY <2>1, <3>1, <1>3, OneFrame
  <2>2. CASE e \notin resetting
    BY <2>2, <1>4 DEF ObTypes, Contents, Clean
  <2> QED BY <2>1, <2>2
<1>10. /\ delay' \in Buffer(DelaySlots) /\ lags' \in [ObEnv -> 0 .. cfg.maxLag]
       /\ cfg.maxLag > 0 => delay'.init
  BY <1>1, <1>2, <1>5, AppendedType, BackfillType, SampledLagsType
<1>11. ASSUME NEW e \in ObEnv, cfg.maxLag > 0 PROVE Holds(delay', DelaySlots, seen'[e], e)
  <2>1. Holds(delay, DelaySlots, seen[e], e) /\ seen[e] \in Seq(Kept)
    BY <1>11 DEF Contents, ObTypes
  <2>2. CASE delay.init /\ e \in resetting
    <3>1. Holds(Backfill(delay, frame, resetting), DelaySlots, <<frame[e]>>, e)
      BY <1>1, <1>2, <2>2, BackfillHolds
    <3> QED BY <3>1, <2>2, <1>4, <1>5, <1>11
  <2>3. CASE delay.init /\ e \notin resetting
    <3>1. delay' = Backfill(delay, frame, resetting) /\ seen'[e] = seen[e]
      BY <2>3, <1>4, <1>5, <1>11
    <3>2. SameRow(delay', delay, DelaySlots, e)
      BY <1>1, <1>2, <2>3, <3>1, BackfillHolds
    <3>3. Holds(delay', DelaySlots, seen[e], e)
      BY <1>1, <1>10, <2>1, <3>2, SameReads
    <3> QED BY <3>1, <3>3
  <2>4. CASE ~delay.init
    <3>1. e \in resetting /\ seen[e] = <<>>
      BY <2>4, <1>11 DEF Begun, Contents
    <3>2. Holds(Appended(delay, frame), DelaySlots, Append(<<>>, frame[e]), e)
      BY <1>1, <1>2, <2>1, <3>1, AppendedHolds
    <3>3. frame[e] \in Kept
      BY <1>2
    <3>4. Append(<<>>, frame[e]) = <<frame[e]>>
      BY <3>3
    <3> QED BY <2>4, <3>1, <3>2, <3>4, <1>4, <1>5, <1>11
  <2> QED BY <2>2, <2>3, <2>4
<1>12. ASSUME NEW e \in ObEnv
       PROVE  /\ handed[e] \in Kept
              /\ cfg.policy = "error" /\ (cfg.maxLag > 0 \/ cfg.history > 0
                    \/ e \in resetting) => handed[e] # Invalid
  <2>1. CASE cfg.maxLag > 0
    <3>1. Holds(delay', cfg.maxLag + 1, seen'[e], e) /\ delay' \in Buffer(cfg.maxLag + 1)
      BY <2>1, <1>10, <1>11 DEF DelaySlots
    <3>2. Peek(delay', lags', e) \in Kept /\ (Valid(seen'[e]) => Peek(delay', lags', e) # Invalid)
      BY <3>1, <1>1, <1>9, <1>10, DelayedFrame
    <3> QED BY <3>2, <2>1, <1>9
  <2>2. CASE ~(cfg.maxLag > 0)
    BY <2>2, <1>2, <1>3
  <2> QED BY <2>1, <2>2
<1>13. handed \in [ObEnv -> Kept]
  BY <1>12
<1> HIDE DEF handed
<1>14. history' \in Buffer(HistorySlots) /\ (cfg.history > 0 => history'.init)
  BY <1>1, <1>6, <1>13, AppendedType, BackfillType
<1>15. ASSUME NEW e \in ObEnv
       PROVE  /\ delayed'[e] \in Seq(Kept) /\ delayed'[e] # <<>>
              /\ cfg.policy = "error" => Valid(delayed'[e])
  <2>1. CASE e \in resetting
    <3>1. delayed'[e] = <<handed[e]>> /\ handed[e] \in Kept
      BY <2>1, <1>7, <1>13
    <3> QED BY <2>1, <3>1, <1>12, OneFrame
  <2>2. CASE e \notin resetting
    BY <2>2, <1>7 DEF ObTypes, Contents, Clean
  <2> QED BY <2>1, <2>2
<1>16. ASSUME NEW e \in ObEnv, cfg.history > 0 PROVE Holds(history', HistorySlots, delayed'[e], e)
  <2>1. Holds(history, HistorySlots, delayed[e], e) /\ delayed[e] \in Seq(Kept) /\ cfg.history # 0
    BY <1>1, <1>16 DEF Contents, ObTypes
  <2>2. CASE history.init /\ e \in resetting
    <3>1. Holds(Backfill(history, handed, resetting), HistorySlots, <<handed[e]>>, e)
      BY <1>1, <1>13, <2>2, BackfillHolds
    <3> QED BY <2>1, <3>1, <2>2, <1>6, <1>7
  <2>3. CASE history.init /\ e \notin resetting
    <3>1. history' = Backfill(history, handed, resetting) /\ delayed'[e] = delayed[e]
      BY <2>1, <2>3, <1>6, <1>7
    <3>2. SameRow(history', history, HistorySlots, e)
      BY <1>1, <1>13, <2>3, <3>1, BackfillHolds
    <3>3. Holds(history', HistorySlots, delayed[e], e)
      BY <1>1, <1>14, <2>1, <3>2, SameReads
    <3> QED BY <3>1, <3>3
  <2>4. CASE ~history.init
    <3>1. e \in resetting /\ delayed[e] = <<>>
      BY <2>4, <1>16 DEF Begun, Contents
    <3>2. Holds(Appended(history, handed), HistorySlots, Append(<<>>, handed[e]), e)
      BY <1>1, <1>13, <2>1, <3>1, AppendedHolds
    <3>3. handed[e] \in Kept
      BY <1>13
    <3>4. Append(<<>>, handed[e]) = <<handed[e]>>
      BY <3>3
    <3> QED BY <2>1, <2>4, <3>1, <3>2, <3>4, <1>6, <1>7
  <2> QED BY <2>2, <2>3, <2>4
<1>17. ASSUME NEW e \in resetting, cfg.policy # "disabled" PROVE Valid(out'[e])
  <2> DEFINE w == IF cfg.history > 0 THEN Ordered(history', e) ELSE <<handed[e]>>
  <2>1. out'[e] = HandOut(w) /\ e \in ObEnv
    BY <1>1, <1>8
  <2>2. ASSUME cfg.policy = "error" PROVE Valid(w)
    <3>1. CASE cfg.history > 0
      <4>1. Valid(Ordered(history', e))
        BY <3>1, <2>1, <2>2, <1>1, <1>14, <1>15, <1>16, WindowValid
      <4> QED BY <3>1, <4>1
    <3>2. CASE ~(cfg.history > 0)
      <4>1. Valid(<<handed[e]>>)
        BY <2>1, <2>2, <1>12, OneFrame
      <4> QED BY <3>2, <4>1
    <3> QED BY <3>1, <3>2
  <2> HIDE DEF w
  <2> QED BY <2>1, <2>2, <1>1, <1>17, HandedOut
<1>18. /\ bias' \in [ObEnv -> Nat]
       /\ (\A e \in ObEnv : bias'[e] = 0) \/ (\A e \in ObEnv : bias'[e] >= 1)
       /\ cfg.noise = "bias" => \A e \in ObEnv : bias'[e] >= 1
       /\ resetting # ObEnv => bias' = bias
  <2>1. CASE ~(cfg.noise = "bias")
    BY <2>1, <1>8 DEF InitializeBias, ObTypes, Begun
  <2>2. CASE cfg.noise = "bias" /\ \A e \in ObEnv : bias[e] = 0
    <3>1. bias' = [e \in ObEnv |-> 1]
      BY <2>2, <1>8 DEF InitializeBias
    <3>2. resetting = ObEnv
      BY <2>2, <1>1 DEF Begun
    <3> QED BY <3>1, <3>2
  <2>3. CASE cfg.noise = "bias" /\ \A e \in ObEnv : bias[e] >= 1
    BY <2>3, <1>1, <1>8 DEF InitializeBias, ObTypes
  <2> QED BY <2>1, <2>2, <2>3 DEF Begun
<1>19. UNCHANGED <<DelaySlots, HistorySlots, cfg>>
  BY DEF Frozen, DelaySlots, HistorySlots
<1>20. ObTypes'
  <2>1. seen' \in [ObEnv -> Seq(Kept)] /\ delayed' \in [ObEnv -> Seq(Kept)]
    BY <1>4, <1>7, <1>9, <1>15
  <2> QED BY <2>1, <1>10, <1>14, <1>18, <1>19 DEF ObTypes, Frozen
<1>21. Contents'
  BY <1>9, <1>11, <1>15, <1>16, <1>19 DEF Contents
<1>22. Begun'
  BY <1>10, <1>14, <1>18, <1>19 DEF Begun
<1>23. Clean'
  <2>1. \A e \in ObEnv : e \notin resetting => out'[e] = out[e]
    BY <1>8
  <2> QED BY <2>1, <1>8, <1>9, <1>15, <1>17, <1>19 DEF Clean
<1>24. ASSUME resetting # ObEnv, NEW e \in ObEnv \ resetting PROVE UNCHANGED RowState(e)
  <2>1. /\ cfg.maxLag > 0 => delay.init
        /\ cfg.history > 0 => history.init
    BY <1>24 DEF Begun
  <2>2. lags' = lags /\ stepCount' = stepCount /\ phase' = phase /\ bias' = bias
    BY <1>5, <1>8, <1>18, <1>24, <2>1
  <2>3. SameRow(delay', delay, DelaySlots, e)
    <3>1. CASE cfg.maxLag > 0
      BY <3>1, <2>1, <1>1, <1>2, <1>5, <1>24, BackfillHolds
    <3>2. CASE ~(cfg.maxLag > 0)
      BY <3>2, <1>5 DEF SameRow
    <3> QED BY <3>1, <3>2
  <2>4. SameRow(history', history, HistorySlots, e)
    <3>1. CASE cfg.history > 0
      <4>1. cfg.history # 0 /\ history.init /\ e \notin resetting
        BY <3>1, <2>1, <1>24
      <4>2. history' = Backfill(history, handed, resetting)
        BY <1>6, <4>1, Zenon
      <4> QED BY <4>1, <4>2, <1>1, <1>13, BackfillHolds
    <3>2. CASE cfg.history = 0
      BY <3>2, <1>6 DEF SameRow
    <3> QED BY <3>1, <3>2, <1>1
  <2>5. lags \in [ObEnv -> Nat]
    BY <1>1
  <2>6. Peek(delay', lags, e) = Peek(delay, lags, e)
    BY <1>1, <1>10, <2>3, <2>5, SameReads
  <2>7. Ordered(history', e) = Ordered(history, e)
    BY <1>1, <1>14, <2>4, SameReads
  <2> QED BY <2>2, <2>6, <2>7 DEF RowState
<1> QED BY <1>20, <1>21, <1>22, <1>23, <1>24

\* The rows named lose their frames, lags and counters; the others keep theirs.
LEMMA ResetTermsHolds ==
  ASSUME ObInv, NEW rows \in SUBSET ObEnv, ResetTerms(rows)
  PROVE  /\ ObInv'
         /\ \A e \in ObEnv \ rows : UNCHANGED RowState(e)
<1> USE DEF ObInv
<1>1. /\ cfg \in Configs /\ cfg.maxLag \in Nat /\ cfg.history \in Nat
      /\ DelaySlots \in Nat \ {0} /\ HistorySlots \in Nat \ {0}
      /\ delay \in Buffer(DelaySlots) /\ history \in Buffer(HistorySlots)
      /\ lags \in [ObEnv -> 0 .. cfg.maxLag] /\ bias \in [ObEnv -> Nat]
  BY ConfigTypes DEF ObTypes
<1>2. /\ resetting = {} /\ rows # {} /\ resetting' = rows /\ cached' = NoRow
      /\ obResets' = obResets + 1
      /\ obEpisode' = [e \in ObEnv |-> IF e \in rows THEN obResets + 1 ELSE obEpisode[e]]
      /\ obAge' = [e \in ObEnv |-> IF e \in rows THEN 0 ELSE obAge[e]]
      /\ delay' = ResetBuffer(delay, rows) /\ history' = ResetBuffer(history, rows)
      /\ lags' = [e \in ObEnv |-> IF e \in rows THEN 0 ELSE lags[e]]
      /\ stepCount' = [e \in ObEnv |-> IF e \in rows THEN 0 ELSE stepCount[e]]
     
           
                 
                       
                              /\ bias' = IF cfg.noise = "bias" THEN [e \in ObEnv |-> IF e \in rows THEN bias[e] + 1 ELSE bias[e]] ELSE bias
      /\ seen' = [e \in ObEnv |-> IF e \in rows THEN <<>> ELSE seen[e]]
      /\ delayed' = [e \in ObEnv |-> IF e \in rows THEN <<>> ELSE delayed[e]]
      /\ cfg' = cfg /\ out' = out
  BY Zenon DEF ResetTerms
<1>3. \E draws \in PhaseOffsets : phase' = [e \in ObEnv |-> IF e \in rows THEN draws[e] ELSE phase[e]]
  BY Zenon DEF ResetTerms
<1>4. /\ delay' \in Buffer(DelaySlots) /\ history' \in Buffer(HistorySlots)
      /\ delay'.init = delay.init /\ history'.init = history.init
  BY <1>1, <1>2, ResetType
<1>5. <<>> \in Seq(Kept) /\ Valid(<<>>)
  BY DEF Valid
<1>6. UNCHANGED <<DelaySlots, HistorySlots, cfg>>
  BY <1>2 DEF DelaySlots, HistorySlots
<1>7. ASSUME NEW e \in ObEnv \ rows
      PROVE  SameRow(delay', delay, DelaySlots, e) /\ SameRow(history', history, HistorySlots, e)
  BY <1>1, <1>2, <1>7, ResetHolds
<1>8. ASSUME NEW e \in ObEnv
      PROVE  /\ seen'[e] = <<>> <=> e \in rows
             /\ delayed'[e] = <<>> <=> e \in rows
             /\ seen'[e] \in Seq(Kept) /\ delayed'[e] \in Seq(Kept)
             /\ cfg.policy = "error" => Valid(seen'[e]) /\ Valid(delayed'[e])
             /\ cfg.maxLag > 0 => Holds(delay', DelaySlots, seen'[e], e)
             /\ cfg.history > 0 => Holds(history', HistorySlots, delayed'[e], e)
  <2>1. CASE e \in rows
    <3>1. seen'[e] = <<>> /\ delayed'[e] = <<>>
      BY <1>2, <2>1
    <3>2. Holds(delay', DelaySlots, <<>>, e) /\ Holds(history', HistorySlots, <<>>, e)
      BY <1>1, <1>2, <2>1, ResetHolds
    <3> QED BY <2>1, <3>1, <3>2, <1>5
  <2>2. CASE e \notin rows
    <3>1. seen'[e] = seen[e] /\ delayed'[e] = delayed[e]
      BY <1>2, <2>2
    <3>2. /\ seen[e] # <<>> /\ delayed[e] # <<>> /\ seen[e] \in Seq(Kept) /\ delayed[e] \in Seq(Kept)
          /\ cfg.policy = "error" => Valid(seen[e]) /\ Valid(delayed[e])
          /\ cfg.maxLag > 0 => Holds(delay, DelaySlots, seen[e], e)
          /\ cfg.history > 0 => Holds(history, HistorySlots, delayed[e], e)
      BY <1>2 DEF ObTypes, Contents, Clean
    <3>3. /\ Holds(delay, DelaySlots, seen[e], e) => Holds(delay', DelaySlots, seen[e], e)
          /\ Holds(history, HistorySlots, delayed[e], e) => Holds(history', HistorySlots, delayed[e], e)
      BY <1>1, <1>4, <1>7, <2>2, <3>2, SameReads
    <3> QED BY <2>2, <3>1, <3>2, <3>3
  <2> QED BY <2>1, <2>2
<1>9. /\ bias' \in [ObEnv -> Nat]
      /\ (\A e \in ObEnv : bias[e] >= 1) => \A e \in ObEnv : bias'[e] >= 1
      /\ cfg.noise # "bias" => bias' = bias
  BY <1>1, <1>2
<1>10. ObTypes'
  <2>1. seen' \in [ObEnv -> Seq(Kept)] /\ delayed' \in [ObEnv -> Seq(Kept)]
    BY <1>2, <1>8
  <2>2. /\ obEpisode' \in [ObEnv -> Nat] /\ obAge' \in [ObEnv -> Nat] /\ obResets' \in Nat
        /\ lags' \in [ObEnv -> 0 .. cfg.maxLag]
    <3>1. obEpisode \in [ObEnv -> Nat] /\ obAge \in [ObEnv -> Nat] /\ obResets \in Nat
      BY DEF ObTypes
    <3>2. obEpisode' \in [ObEnv -> Nat] /\ obResets' \in Nat
      BY <1>2, <3>1
    <3>3. obAge' \in [ObEnv -> Nat]
      BY <1>2, <3>1
    <3>4. lags' \in [ObEnv -> 0 .. cfg.maxLag]
      BY <1>1, <1>2
    <3> QED BY <3>2, <3>3, <3>4
  <2> QED BY <2>1, <2>2, <1>2, <1>4, <1>6, <1>9 DEF ObTypes
<1>11. Contents'
  BY <1>2, <1>6, <1>8 DEF Contents
<1>12. resetting # ObEnv
  BY <1>2
<1>13. Begun'
  BY <1>4, <1>6, <1>9, <1>12 DEF Begun
<1>14. Clean'
  BY <1>2, <1>6, <1>8 DEF Clean
<1>15. ASSUME NEW e \in ObEnv \ rows PROVE UNCHANGED RowState(e)
  <2>1. UNCHANGED <<lags[e], stepCount[e], phase[e], bias[e]>>
    BY <1>2, <1>3, <1>15
  <2>2. lags \in [ObEnv -> Nat] /\ lags' \in [ObEnv -> Nat]
    BY <1>1, <1>2
  <2>3. Peek(delay', lags', e) = Peek(delay, lags', e) /\ Ordered(history', e) = Ordered(history, e)
    BY <1>1, <1>4, <1>7, <1>15, <2>2, SameReads
  <2>4. Peek(delay, lags', e) = Peek(delay, lags, e)
    BY <2>1 DEF Peek
  <2> QED BY <2>1, <2>3, <2>4 DEF RowState
<1> QED BY <1>10, <1>11, <1>13, <1>14, <1>15

\* Before the first observation the buffers are empty.
LEMMA ObInitHolds == ASSUME ObInit PROVE ObInv
<1> USE DEF ObInit
<1>1. cfg \in Configs /\ cfg.maxLag \in Nat /\ DelaySlots \in Nat \ {0} /\ HistorySlots \in Nat \ {0}
  BY ConfigTypes
<1>2. ASSUME NEW n \in Nat \ {0}
      PROVE  NewBuffer(n) \in Buffer(n) /\ \A e \in ObEnv : Holds(NewBuffer(n), n, <<>>, e)
  <2>1. NewBuffer(n) \in Buffer(n)
    <3>1. /\ [i \in 0 .. n - 1 |-> [e \in ObEnv |-> Zero]] \in [0 .. n - 1 -> [ObEnv -> Kept]]
          /\ n - 1 \in 0 .. n - 1 /\ [e \in ObEnv |-> 0] \in [ObEnv -> Nat]
      BY DEF Kept
    <3>2. FALSE \in BOOLEAN
      BY Zenon
    <3> QED BY <3>1, <3>2, Zenon DEF NewBuffer, Buffer
  <2>2. \A e \in ObEnv : Holds(NewBuffer(n), n, <<>>, e)
    BY DEF NewBuffer, Holds
  <2> QED BY <2>1, <2>2
<1>3. delay = NewBuffer(DelaySlots) /\ history = NewBuffer(HistorySlots)
  BY DEF DelaySlots, HistorySlots
<1>4. <<>> \in Seq(Kept) /\ Valid(<<>>)
  BY DEF Valid
<1>5. ObTypes
  BY <1>1, <1>2, <1>3, <1>4 DEF ObTypes
<1>6. Contents
  BY <1>1, <1>2, <1>3 DEF Contents
<1>7. Begun
  BY DEF Begun
<1>8. Clean
  BY <1>4 DEF Clean
<1> QED BY <1>5, <1>6, <1>7, <1>8 DEF ObInv

\* Every step; and a row that is not reset notices nothing of the rows that are.
LEMMA ObStepHolds ==
  ASSUME ObInv, [ObNext]_obsbufvars
  PROVE  /\ ObInv'
         /\ resetting' \cup resetting # {} /\ resetting # ObEnv =>
              \A e \in ObEnv \ (resetting \cup resetting') : UNCHANGED RowState(e)
<1>1. ASSUME NEW bad \in SUBSET ObEnv, ObStep(bad) PROVE ObInv' /\ resetting = {} /\ resetting' = {}
  <2>1. /\ resetting = {} /\ resetting' = {} /\ ComputeBatch(TRUE, bad)
        /\ obAge' = [e \in ObEnv |-> obAge[e] + 1] /\ UNCHANGED <<cfg, obEpisode, obResets>>
    BY <1>1, Zenon DEF ObStep
  <2>2. obAge \in [ObEnv -> Nat]
    BY DEF ObInv, ObTypes
  <2>3. Frozen /\ TRUE \in BOOLEAN
    BY <2>1, <2>2 DEF Frozen
  <2> QED BY <2>1, <2>3, BatchHolds
<1>2. ASSUME NEW bad \in SUBSET ObEnv, Query(bad) PROVE ObInv' /\ resetting = {} /\ resetting' = {}
  <2>1. resetting = {} /\ resetting' = {} /\ UNCHANGED <<cfg, obEpisode, failed, obResets>>
    BY <1>2 DEF Query
  <2>2. CASE cached = NoRow
    <3>1. Frozen /\ ComputeBatch(FALSE, bad)
      BY <1>2, <2>2 DEF Query, Frozen, ObInv, ObTypes
    <3> QED BY <2>1, <3>1, BatchHolds
  <2>3. CASE cached # NoRow
    <3>1. out' = cached /\ UNCHANGED <<obAge, bufvars, cached, ghostvars>>
      BY <1>2, <2>3 DEF Query
    <3>2. ObTypes' /\ Contents' /\ Begun'
      BY <2>1, <3>1 DEF ObInv, ObTypes, Contents, Begun, bufvars, ghostvars, DelaySlots, HistorySlots
    <3>3. Clean'
      BY <2>1, <2>3, <3>1 DEF ObInv, Clean, ghostvars
    <3> QED BY <2>1, <3>2, <3>3 DEF ObInv
  <2> QED BY <2>2, <2>3
<1>3. ASSUME NEW bad \in SUBSET ObEnv, ObserveReset(bad)
      PROVE  /\ ObInv'
             /\ resetting # ObEnv => \A e \in ObEnv \ resetting : UNCHANGED RowState(e)
  <2>1. /\ Frozen /\ ComputeRows(resetting, bad) /\ resetting # {} /\ resetting' = {}
        /\ ~CheckFails(IF Temporal THEN bad ELSE bad \cap resetting)
    BY <1>3 DEF ObserveReset, Frozen, ObInv, ObTypes
  <2> QED BY <2>1, RowsHold
<1>4. ASSUME UNCHANGED <<cfg, obEpisode, obAge, bufvars, cached, out, resetting, ghostvars, obResets>>
      PROVE  ObInv' /\ \A e \in ObEnv : UNCHANGED RowState(e)
  BY <1>4 DEF ObInv, ObTypes, Contents, Begun, Clean, bufvars, ghostvars, DelaySlots, HistorySlots, RowState
<1>5. ASSUME NEW bad \in SUBSET ObEnv, Raise(bad) PROVE ObInv' /\ \A e \in ObEnv : UNCHANGED RowState(e)
  BY <1>4, <1>5 DEF Raise
<1>6. ASSUME NEW rows \in SUBSET ObEnv, ResetTerms(rows)
      PROVE  /\ ObInv'
             /\ \A e \in ObEnv \ resetting' : UNCHANGED RowState(e)
  BY <1>6, ResetTermsHolds DEF ResetTerms
<1>7. ASSUME UNCHANGED obsbufvars PROVE ObInv' /\ \A e \in ObEnv : UNCHANGED RowState(e)
  BY <1>4, <1>7 DEF obsbufvars
<1> QED BY <1>1, <1>2, <1>3, <1>5, <1>6, <1>7 DEF ObNext

\* The three state properties, of the buffers and of what was handed out.
LEMMA ObInvIsSound == ASSUME ObInv PROVE DelayedByLag /\ WindowOfThisEpisode /\ NothingInvalidHandedOut
<1>1. /\ cfg \in Configs /\ cfg.maxLag \in Nat /\ cfg.history \in Nat
      /\ DelaySlots \in Nat \ {0} /\ HistorySlots \in Nat \ {0}
      /\ delay \in Buffer(DelaySlots) /\ history \in Buffer(HistorySlots)
      /\ cfg.history > 0 => HistorySlots = cfg.history
  BY ConfigTypes DEF ObInv, ObTypes
<1>2. DelayedByLag
  <2>1. SUFFICES ASSUME cfg.maxLag > 0, NEW e \in ObEnv, seen[e] # <<>>
                 PROVE  Peek(delay, lags, e) = seen[e][Max2(Len(seen[e]) - lags[e], 1)]
    BY DEF DelayedByLag
  <2>2. Holds(delay, DelaySlots, seen[e], e) /\ seen[e] \in Seq(Kept)
    BY <2>1 DEF ObInv, Contents, ObTypes
  <2>3. lags \in [ObEnv -> 0 .. DelaySlots - 1]
    BY <1>1 DEF ObInv, ObTypes, DelaySlots
  <2> QED BY <1>1, <2>1, <2>2, <2>3, PeekOf
<1>3. WindowOfThisEpisode
  <2>1. SUFFICES ASSUME cfg.history > 0, NEW e \in ObEnv, delayed[e] # <<>>
                 PROVE  Ordered(history, e) =
                          [k \in 1 .. cfg.history |-> delayed[e][Max2(Len(delayed[e]) - cfg.history + k, 1)]]
    BY DEF WindowOfThisEpisode
  <2>2. Holds(history, HistorySlots, delayed[e], e) /\ delayed[e] \in Seq(Kept)
    BY <2>1 DEF ObInv, Contents, ObTypes
  <2>3. Ordered(history, e) = Window(delayed[e], HistorySlots)
    <3>1. /\ HistorySlots \in Nat \ {0} /\ history \in Buffer(HistorySlots)
          /\ delayed[e] \in Seq(Kept) /\ delayed[e] # <<>>
      BY <1>1, <2>1, <2>2
    <3> QED BY <2>1, <2>2, <3>1, OrderedOf
  <2> QED BY <1>1, <2>1, <2>3 DEF Window
<1>4. NothingInvalidHandedOut
  BY DEF ObInv, Clean, Valid, NothingInvalidHandedOut
<1> QED BY <1>2, <1>3, <1>4

\* Whatever the delays, histories, checks and noise of a term, and however the rows
\* are reset: BuffersOfThisEpisode.
THEOREM BuffersAreOfThisEpisode == ObSpec => BuffersOfThisEpisode
<1>1. ObInit => ObInv
  BY ObInitHolds
<1>2. ObInv /\ [ObNext]_obsbufvars => ObInv'
  BY ObStepHolds
<1>3. ObInv => DelayedByLag /\ WindowOfThisEpisode /\ NothingInvalidHandedOut
  BY ObInvIsSound
<1>4. ObInv /\ [ObNext]_obsbufvars =>
        [resetting' \cup resetting # {} /\ resetting # ObEnv =>
           \A e \in ObEnv \ (resetting \cup resetting') : RowState(e)' = RowState(e)]_obsbufvars
  BY ObStepHolds
<1>5. ObSpec => []ObInv
  BY <1>1, <1>2, PTL DEF ObSpec
<1>6. ObSpec => [](DelayedByLag /\ WindowOfThisEpisode /\ NothingInvalidHandedOut)
  BY <1>3, <1>5, PTL
<1>7. ObSpec => OtherRowsUntouched
  BY <1>4, <1>5, PTL DEF ObSpec, OtherRowsUntouched
<1> QED BY <1>6, <1>7, Zenon DEF BuffersOfThisEpisode

------------------------------------------------------------------------------
(* The body impulse.                                                          *)

ImTypes ==
    /\ imPc \in {"step", "stepEvents", "intervalEvents", "resets"}
    /\ active \subseteq ImEnv /\ forced \subseteq ImEnv /\ staged \subseteq ImEnv
    /\ remaining \in [ImEnv -> Int] /\ cooldown \in [ImEnv -> Int]
    /\ felt \in [ImEnv -> Nat] /\ length \in [ImEnv -> Nat]
    /\ lifted \in BOOLEAN /\ imSteps \in Nat

\* The term's forces are those of the running impulses, and so is the backend's pending
\* wrench until something takes it back; between a step of the physics and the events
\* that follow nothing is pending.
Staging ==
    /\ forced = active
    /\ staged = IF lifted \/ imPc = "stepEvents" THEN {} ELSE active
    /\ imPc = "intervalEvents" => ~lifted

\* The steps felt and the steps that remain add up to what was drawn; a step that
\* the physics has taken is counted in remaining by the events after it.
Budget ==
    \A e \in active :
        /\ imPc = "stepEvents" => felt[e] + remaining[e] <= length[e] + 1
        /\ imPc # "stepEvents" => /\ felt[e] + remaining[e] <= length[e]
                                  /\ remaining[e] >= 1 \/ felt[e] = 0

ImInv == ImTypes /\ Staging /\ Budget

USE ImpulseAssumption

\* What is drawn for the rows is a whole number of steps for each.
LEMMA DrawnIsInt ==
  ASSUME NEW S \in SUBSET Nat, NEW f \in [ImEnv -> S]
  PROVE  f \in [ImEnv -> Int] /\ f \in [ImEnv -> Nat]
<1>1. ASSUME NEW e \in ImEnv PROVE f[e] \in Nat /\ f[e] \in Int
  <2>1. f[e] \in Nat
    BY Zenon
  <2>2. \A n \in Nat : n \in Int
    BY ONLY SMT
  <2> QED
    BY <2>1, <2>2, Zenon
<1>2. f = [e \in ImEnv |-> f[e]]
  OBVIOUS
<1> QED
  BY <1>1, <1>2, Zenon

LEMMA ImInit_Holds == ImInit => ImInv
<1> SUFFICES ASSUME ImInit PROVE ImInv
  OBVIOUS
<1> USE DEF ImInit
<1>1. cooldown \in [ImEnv -> Int]
  BY DrawnIsInt
<1>2. ImTypes
  <2>1. lifted \in BOOLEAN
    BY Zenon
  <2> QED
    BY <1>1, <2>1, SMT DEF ImTypes
<1> QED
  BY <1>2, SMT DEF ImInv, Staging, Budget

LEMMA Physics_Holds == ImInv /\ PhysicsStep => ImInv'
<1> SUFFICES ASSUME ImInv, PhysicsStep PROVE ImInv'
  OBVIOUS
<1> USE DEF ImInv, PhysicsStep
<1>1. ImTypes'
  BY SMT DEF ImTypes
<1>2. Staging'
  BY SMT DEF ImTypes, Staging
<1>3. Budget'
  BY SMT DEF ImTypes, Staging, Budget
<1> QED
  BY <1>1, <1>2, <1>3

\* Expiry takes a row whose last step has been felt; a row that is struck starts
\* from nothing felt.
LEMMA Apply_Holds ==
  ASSUME ImInv,
         NEW draws \in [ImEnv -> Cooldowns], NEW again \in [ImEnv -> Cooldowns],
         NEW duration \in [ImEnv -> Durations], ApplyBodyImpulse(draws, again, duration)
  PROVE  ImInv'
<1> DEFINE left == CooldownAfter(draws)
           struck == Eligible(left)
           running == (active \ Expired) \cup struck
<1>1. /\ imPc = "stepEvents" /\ imPc' = "intervalEvents" /\ imSteps' = imSteps /\ lifted' = FALSE
      /\ active' = running
      /\ forced' = (forced \ Expired) \cup struck
      /\ remaining' = [e \in ImEnv |-> IF e \in struck THEN duration[e]
                                       ELSE IF e \in Expired THEN 0
                                       ELSE IF e \in active THEN remaining[e] - 1 ELSE remaining[e]]
      /\ cooldown' = [e \in ImEnv |-> IF e \in struck THEN again[e] ELSE left[e]]
      /\ IF running # {} \/ Expired # {} THEN staged' = forced' ELSE staged' = staged
      /\ felt' = [e \in ImEnv |-> IF e \in struck THEN 0 ELSE felt[e]]
      /\ length' = [e \in ImEnv |-> IF e \in struck THEN duration[e] ELSE length[e]]
  BY Zenon DEF ApplyBodyImpulse, StagePlan
<1>2. struck \subseteq ImEnv /\ Expired = {e \in active : remaining[e] - 1 <= 0}
  BY DEF Eligible, Expired
<1>3. draws \in [ImEnv -> Int] /\ again \in [ImEnv -> Int] /\ duration \in [ImEnv -> Nat]
  BY DrawnIsInt
<1>4. left \in [ImEnv -> Int]
  BY <1>3, SMT DEF CooldownAfter, ImInv, ImTypes
<1> HIDE DEF left, struck
<1>5. ImTypes'
  <2>1. active' \subseteq ImEnv /\ forced' \subseteq ImEnv /\ staged' \subseteq ImEnv
    BY <1>1, <1>2, SMT DEF ImInv, ImTypes
  <2>2. remaining' \in [ImEnv -> Int] /\ cooldown' \in [ImEnv -> Int]
    BY <1>1, <1>3, <1>4, SMT DEF ImInv, ImTypes
  <2>3. felt' \in [ImEnv -> Nat] /\ length' \in [ImEnv -> Nat]
    BY <1>1, <1>3, SMT DEF ImInv, ImTypes
  <2> QED
    BY <1>1, <2>1, <2>2, <2>3 DEF ImInv, ImTypes
<1>6. Staging'
  BY <1>1, <1>2, SMT DEF ImInv, Staging
<1>7. Budget'
  <2> SUFFICES ASSUME NEW e \in active'
               PROVE  /\ felt'[e] + remaining'[e] <= length'[e]
                      /\ remaining'[e] >= 1 \/ felt'[e] = 0
    BY <1>1 DEF Budget
  <2>1. e \in ImEnv
    BY <1>1, <1>2 DEF ImInv, ImTypes
  <2>2. CASE e \in struck
    BY <1>1, <1>3, <2>1, <2>2, SMT
  <2>3. CASE e \notin struck
    BY <1>1, <1>2, <2>1, <2>3, SMT DEF ImInv, ImTypes, Budget
  <2> QED
    BY <2>2, <2>3
<1> QED
  BY <1>5, <1>6, <1>7 DEF ImInv

LEMMA Interval_Holds ==
  ASSUME ImInv, NEW pushed \in BOOLEAN, IntervalEvents(pushed)
  PROVE  ImInv'
<1> USE DEF ImInv, IntervalEvents, StagePlan
<1>1. ImTypes'
  <2>1. lifted' \in BOOLEAN
    BY Zenon
  <2>2. staged' \subseteq ImEnv
    BY Zenon DEF ImTypes
  <2>3. /\ imPc' = "resets" /\ active' = active /\ forced' = forced /\ remaining' = remaining
        /\ cooldown' = cooldown /\ felt' = felt /\ length' = length /\ imSteps' = imSteps
    OBVIOUS
  <2> QED
    BY ONLY ImTypes, <2>1, <2>2, <2>3, Zenon DEF ImTypes
<1>2. Staging'
  <2>1. imPc = "intervalEvents" /\ imPc' = "resets" /\ active' = active /\ forced' = forced
    OBVIOUS
  <2>2. staged' = IF pushed THEN {} ELSE staged
    OBVIOUS
  <2>3. staged = active
    BY <2>1 DEF Staging
  <2>4. lifted' <=> pushed
    OBVIOUS
  <2> QED
    BY <2>1, <2>2, <2>3, <2>4, Zenon DEF Staging
<1>3. Budget'
  BY SMT DEF Budget
<1> QED
  BY <1>1, <1>2, <1>3

\* A reset of a row under an impulse takes the whole pending wrench back.
LEMMA Reset_Holds ==
  ASSUME ImInv, NEW rows \in SUBSET ImEnv, NEW draws \in [ImEnv -> Cooldowns],
         ResetImpulse(rows, draws)
  PROVE  ImInv'
<1> USE DEF ImInv, ResetImpulse, Withdraw, StagePlan
<1>1. ImTypes'
  <2>1. cooldown' \in [ImEnv -> Int]
    BY DrawnIsInt, SMT DEF ImTypes
  <2>2. lifted' \in BOOLEAN
    BY Zenon
  <2> QED
    BY <2>1, <2>2, SMT DEF ImTypes
<1>2. Staging'
  <2>1. CASE rows \cap active = {}
    <3>1. staged' = staged /\ active' = active /\ forced' = forced
      BY <2>1, SMT DEF Staging
    <3>2. lifted' <=> lifted
      BY <2>1, Zenon
    <3>3. imPc = "resets" /\ imPc' = "step"
      OBVIOUS
    <3> QED
      BY <3>1, <3>2, <3>3, Zenon DEF Staging
  <2>2. CASE rows \cap active # {}
    <3>1. staged' = {} /\ forced' = active'
      BY <2>2, SMT DEF Staging
    <3>2. lifted'
      BY <2>2, Zenon
    <3> QED
      BY <3>1, <3>2, Zenon DEF Staging
  <2> QED
    BY <2>1, <2>2
<1>3. Budget'
  BY SMT DEF ImTypes, Budget
<1> QED
  BY <1>1, <1>2, <1>3

LEMMA ImInvariant == ImSpec => []ImInv
<1>1. ImInv /\ [ImNext]_imvars => ImInv'
  <2> SUFFICES ASSUME ImInv, [ImNext]_imvars PROVE ImInv'
    OBVIOUS
  <2>1. CASE UNCHANGED imvars
    BY <2>1, Zenon DEF imvars, ImInv, ImTypes, Staging, Budget
  <2> QED
    BY <2>1, Physics_Holds, Apply_Holds, Interval_Holds, Reset_Holds DEF ImNext
<1> QED
  BY <1>1, ImInit_Holds, PTL DEF ImSpec

\* The force of ApplyBodyImpulse acts in a control step only on rows whose impulse
\* is running, no row is pushed again after its reset by what was staged before,
\* and no impulse is felt for longer than drawn: for any number of environments.
THEOREM ForceOnlyActive == ImSpec => []ForceOnlyWhileActive
<1>1. ImInv => ForceOnlyWhileActive
  BY SMT DEF ImInv, ImTypes, Staging, Budget, ForceOnlyWhileActive, Longer
<1> QED
  BY <1>1, ImInvariant, PTL

\* And it acts on every such row in every control step, unless a push of any rows or the
\* reset of a row with a running impulse came between the step events and the step.
LEMMA ForceActsUnlessLifted == ImSpec => []ForceUnlessLifted
<1>1. ImInv => ForceUnlessLifted
  BY SMT DEF ImInv, ImTypes, Staging, ForceUnlessLifted
<1> QED
  BY <1>1, ImInvariant, PTL

HIDE EnvAssumption

LEMMA SmallestOf ==
  ASSUME NEW T \in SUBSET Nat, T # {}
  PROVE  \E x \in T : \A y \in T : x <= y
<1> DEFINE Up == {1 .. x : x \in T}
           R == StrictSubsetOrdering(Nat)
<1>1. IsWellFoundedOn(R, FiniteSubsetsOf(Nat))
  BY FS_StrictSubsetOrderingWellFounded
<1>2. Up \subseteq FiniteSubsetsOf(Nat) /\ Up # {}
  <2>1. ASSUME NEW x \in T PROVE 1 .. x \in FiniteSubsetsOf(Nat)
    <3>1. x \in Nat /\ 1 \in Int /\ x \in Int
      OBVIOUS
    <3>2. IsFiniteSet(1 .. x)
      BY <3>1, FS_Interval
    <3> QED BY <3>1, <3>2 DEF FiniteSubsetsOf
  <2> QED BY <2>1
<1>3. \E u \in Up : \A w \in Up : ~ (<<w, u>> \in R)
  <2> HIDE DEF Up, R
  <2> QED BY <1>1, <1>2, WFMin
<1>4. PICK x \in T : \A y \in T : ~ (<<1 .. y, 1 .. x>> \in R)
  BY <1>3
<1>5. ASSUME NEW y \in T PROVE x <= y
  <2>1. SUFFICES ASSUME y < x PROVE FALSE
    OBVIOUS
  <2>2. 1 .. y \subseteq 1 .. x /\ x \in 1 .. x /\ x \notin 1 .. y
    BY <2>1
  <2>3. 1 .. y \in SUBSET Nat /\ 1 .. x \in SUBSET Nat
    OBVIOUS
  <2> QED BY <1>4, <2>2, <2>3 DEF StrictSubsetOrdering
<1> QED BY <1>5

LEMMA GreatestOf ==
  ASSUME NEW n \in Nat, NEW T \in SUBSET (1 .. n), T # {}
  PROVE  \E x \in T : \A y \in T : x >= y
<1> DEFINE M == {n - x : x \in T}
<1>1. M \in SUBSET Nat /\ M # {}
  <2>1. ASSUME NEW x \in T PROVE n - x \in Nat
    <3>1. x \in 1 .. n
      OBVIOUS
    <3> QED BY <3>1
  <2> QED BY <2>1
<1>2. PICK m \in M : \A k \in M : m <= k
  <2> HIDE DEF M
  <2> QED BY <1>1, SmallestOf
<1>3. PICK x \in T : m = n - x
  OBVIOUS
<1>4. ASSUME NEW y \in T PROVE x >= y
  <2>1. n - y \in M
    OBVIOUS
  <2> QED BY <1>2, <1>3, <2>1
<1> QED BY <1>4

------------------------------------------------------------------------------
(* Randomisation: a value is one draw from its default.                        *)

Pairs == Int \X Int

\* The fields of a term that no curriculum changes.
SameTerm(t, u) ==
    /\ u \in EvTerms
    /\ u.kind = t.kind /\ u.operation = t.operation /\ u.distribution = t.distribution /\ u.shared = t.shared

\* What construction has left in place: a pair for each element and axis it selected, all of
\* them for the terms that select nothing, and parameters a term of its kind accepts.
RangesBound ==
    /\ DOMAIN bound.ranges \subseteq Element /\ bound.axes \subseteq Axis
    /\ \A el \in DOMAIN bound.ranges : \A ax \in bound.axes : bound.ranges[el][ax] \in Pairs
    /\ term.kind # "field" => DOMAIN bound.ranges = Element /\ bound.axes = Axis
    /\ term.kind \in {"field", "gains", "mass", "gravity"} => term.operation \in Operations
    /\ term.kind \in {"massInertia", "bias"} => term.distribution = "uniform"

\* Masses and inertias are the defaults under scales drawn once.
ScaleOf(e, el, ax) == scales[e][el][ax] \in bound.ranges[el][ax][1] .. bound.ranges[el][ax][2]
ScaledOnce ==
    /\ inertia = value
    /\ scales = None => drawn = {}
    /\ scales # None => \A e \in EvEnv : \A el \in Element, ax \in Axis : ScaleOf(e, el, ax)
    /\ \A e \in drawn : value[e] = Scaled(e, scales[e])

EvKinds ==
    /\ term \in EvTerms /\ stages \in StageLists /\ drawn \subseteq EvEnv
    /\ stepCounter \in Nat /\ stagedAt \in Int
    /\ evPc \in {"construct", "ready", "refused", "raised"}
Unbuilt ==
    /\ term \in TermConfigs
    /\ drawn = {} /\ stagedAt = -1 /\ scales = None /\ value = EvDefault /\ inertia = EvDefault

EvInv ==
    /\ EvKinds
    /\ evPc = "construct" => Unbuilt
    /\ evPc = "ready" => RangesBound
    /\ evPc = "ready" /\ term.kind = "massInertia" => ScaledOnce
    /\ OneDrawFromDefault /\ PhysicalValues /\ StageInForce

LEMMA TermFields ==
  ASSUME NEW t \in EvTerms
  PROVE  /\ t.kind \in EventKinds /\ t.ranges \in EvRanges /\ t.by \in {"all", "axis", "pattern"}
         /\ t.shared \in BOOLEAN
         /\ \A r \in EvRanges : LET u == [t EXCEPT !.ranges = r] IN SameTerm(t, u) /\ u.ranges = r
<1>1. t.kind \in EventKinds /\ t.ranges \in EvRanges /\ t.by \in {"all", "axis", "pattern"}
  BY Zenon DEF EvTerms
<1>2. t.shared \in BOOLEAN
  BY Zenon DEF EvTerms
<1>3. ASSUME NEW r \in EvRanges PROVE [t EXCEPT !.ranges = r] \in EvTerms
  <2> HIDE DEF EvRanges
  <2> QED BY Zenon DEF EvTerms
<1>4. ASSUME NEW r \in EvRanges
      PROVE  /\ [t EXCEPT !.ranges = r].kind = t.kind /\ [t EXCEPT !.ranges = r].operation = t.operation
             /\ [t EXCEPT !.ranges = r].distribution = t.distribution /\ [t EXCEPT !.ranges = r].shared = t.shared
             /\ [t EXCEPT !.ranges = r].ranges = r
  BY DEF EvTerms
<1> QED
  BY <1>1, <1>2, <1>3, <1>4 DEF SameTerm

LEMMA StageOf ==
  ASSUME NEW list \in EvStages, NEW i \in DOMAIN list
  PROVE  i \in Nat /\ list[i].step \in Nat /\ list[i].ranges \in EvRanges
<1> DEFINE S == [step : Nat, key : STRING, ranges : EvRanges]
<1>1. list \in Seq(S)
  BY DEF EvStages
<1>2. \A s \in S : s.step \in Nat /\ s.ranges \in EvRanges
  <2> HIDE DEF EvRanges
  <2> QED OBVIOUS
<1> HIDE DEF S
<1>3. i \in 1 .. Len(list) /\ list[i] \in S
  BY <1>1
<1> QED
  BY <1>2, <1>3

\* The curriculum changes the ranges alone.
LEMMA Staged ==
  ASSUME NEW t \in EvTerms, stages \in StageLists, stepCounter \in Nat
  PROVE  /\ SameTerm(t, ComputeCurriculum(t))
         /\ stages # None => \A i \in DOMAIN stages :
               stages[i].step <= stepCounter /\ (\A j \in DOMAIN stages : j > i => stages[j].step > stepCounter)
                   => ComputeCurriculum(t).ranges = stages[i].ranges
<1> DEFINE due == {i \in DOMAIN stages : stepCounter >= stages[i].step}
           last == CHOOSE i \in due : \A j \in due : i >= j
<1>1. CASE stages = None
  <2>1. ComputeCurriculum(t) = t
    BY <1>1 DEF ComputeCurriculum
  <2> QED
    BY <1>1, <2>1 DEF SameTerm
<1>2. CASE stages # None
  <2>1. stages \in EvStages
    BY EventAssumption
  <2>2. \A i \in DOMAIN stages : i \in Nat /\ stages[i].step \in Nat /\ stages[i].ranges \in EvRanges
    BY <2>1, StageOf
  <2>3. CASE due = {}
    <3>1. ComputeCurriculum(t) = t
      BY <1>2, <2>3 DEF ComputeCurriculum, ApplyStages
    <3>2. ASSUME NEW i \in DOMAIN stages, stages[i].step <= stepCounter PROVE FALSE
      BY <2>2, <2>3, <3>2
    <3> QED
      BY <3>1, <3>2 DEF SameTerm
  <2>4. CASE due # {}
    <3>1. due \subseteq 1 .. Len(stages) /\ Len(stages) \in Nat
      BY <2>1 DEF EvStages
    <3>2. \E i \in due : \A j \in due : i >= j
      <4> HIDE DEF due
      <4> QED BY <2>4, <3>1, GreatestOf
    <3>3. last \in due /\ \A j \in due : last >= j
      <4> HIDE DEF due
      <4> QED BY <3>2
    <3>4. ComputeCurriculum(t) = [t EXCEPT !.ranges = stages[last].ranges]
      BY <1>2, <2>4 DEF ComputeCurriculum, ApplyStages
    <3>5. last \in DOMAIN stages /\ last \in Nat
      BY <3>3, <2>2
    <3> HIDE DEF last
    <3>6. stages[last].ranges \in EvRanges
      BY <2>2, <3>5
    <3>7. SameTerm(t, ComputeCurriculum(t)) /\ ComputeCurriculum(t).ranges = stages[last].ranges
      BY <3>4, <3>6, TermFields
    <3>8. ASSUME NEW i \in DOMAIN stages,
                 stages[i].step <= stepCounter, \A j \in DOMAIN stages : j > i => stages[j].step > stepCounter
          PROVE  i = last
      <4>1. i \in due
        BY <2>2, <3>8
      <4>2. ~ (last > i)
        BY <2>2, <3>3, <3>5, <3>8
      <4> QED
        BY <2>2, <3>3, <3>5, <4>1, <4>2
    <3> QED
      BY <3>7, <3>8
  <2> QED
    BY <2>3, <2>4
<1> QED
  BY <1>1, <1>2

------------------------------------------------------------------------------
(* Samples, and what is written from them.                                    *)

\* One draw, of the fields that bear on it.
OneDrawOf(kind, operation, distribution, r, d) ==
    LET s == SampleDistribution(r, distribution)
    IN CASE kind = "mass" -> {AtLeastMinMass(ApplyRandomizationOperation(d, x, operation)) : x \in s}
         [] kind = "massInertia" -> {d * x : x \in r[1] .. r[2]}
         [] kind = "com" -> {d + x : x \in -1 .. 4}
         [] kind = "bias" -> r[1] .. r[2]
         [] OTHER -> {ApplyRandomizationOperation(d, x, operation) : x \in s}

\* What OneDrawFromDefault says of a value v.
Drawn(e, el, ax, v) ==
    IF el \in DOMAIN bound.ranges /\ ax \in bound.axes
    THEN v \in OneDrawOf(term.kind, term.operation, term.distribution, bound.ranges[el][ax], EvDefault[e][el][ax])
    ELSE v = EvDefault[e][el][ax]
Physical(kind, v) == (kind = "field" => v >= 0) /\ (kind = "mass" => v >= MinMass)

LEMMA DrawnIs ==
  /\ OneDrawFromDefault <=> (evPc = "ready" /\ term.kind # "push" =>
        \A e \in drawn, el \in Element, ax \in Axis : Drawn(e, el, ax, value[e][el][ax]))
  /\ OneDrawFromDefault' <=> (evPc' = "ready" /\ term'.kind # "push" =>
        \A e \in drawn', el \in Element, ax \in Axis : Drawn(e, el, ax, value[e][el][ax])')
  /\ PhysicalValues <=> (evPc = "ready" => \A e \in drawn, el \in Element, ax \in Axis : Physical(term.kind, value[e][el][ax]))
  /\ PhysicalValues' <=> (evPc' = "ready" => \A e \in drawn', el \in Element, ax \in Axis : Physical(term'.kind, value'[e][el][ax]))
<1>1. \A e, el, ax : OneDraw(e, el, ax)
          = OneDrawOf(term.kind, term.operation, term.distribution, bound.ranges[el][ax], EvDefault[e][el][ax])
  BY Zenon DEF OneDraw, OneDrawOf
<1>2. \A e, el, ax : OneDraw(e, el, ax)'
          = OneDrawOf(term'.kind, term'.operation, term'.distribution, bound'.ranges[el][ax], EvDefault[e][el][ax])
  BY Zenon DEF OneDraw, OneDrawOf
<1>3. OneDrawFromDefault <=> (evPc = "ready" /\ term.kind # "push" =>
        \A e \in drawn, el \in Element, ax \in Axis : Drawn(e, el, ax, value[e][el][ax]))
  BY <1>1, Zenon DEF OneDrawFromDefault, Drawn
<1>4. OneDrawFromDefault' <=> (evPc' = "ready" /\ term'.kind # "push" =>
        \A e \in drawn', el \in Element, ax \in Axis : Drawn(e, el, ax, value[e][el][ax])')
  BY <1>2, Zenon DEF OneDrawFromDefault, Drawn
<1> QED
  BY <1>3, <1>4, Zenon DEF PhysicalValues, Physical

LEMMA SampleIs ==
  ASSUME RangesBound, NEW s \in SampleAxes, NEW el \in DOMAIN bound.ranges
  PROVE  /\ DOMAIN s = DOMAIN bound.ranges /\ DOMAIN s[el] = bound.axes
         /\ \A ax \in bound.axes : /\ bound.ranges[el][ax] \in Pairs
                                   /\ s[el][ax] \in SampleDistribution(bound.ranges[el][ax], term.distribution)
                                   /\ s[el][ax] \in Int
<1>1. /\ s \in [DOMAIN bound.ranges -> [bound.axes -> Samples]]
      /\ \A a \in DOMAIN bound.ranges, ax \in bound.axes :
            s[a][ax] \in SampleDistribution(bound.ranges[a][ax], term.distribution)
  BY DEF SampleAxes
<1>2. \A r \in Pairs : SampleDistribution(r, term.distribution) \subseteq Int
  BY DEF Pairs, SampleDistribution
<1>3. \A ax \in bound.axes : bound.ranges[el][ax] \in Pairs
  BY DEF RangesBound
<1> HIDE DEF Pairs, SampleDistribution
<1>4. DOMAIN s = DOMAIN bound.ranges /\ DOMAIN s[el] = bound.axes
  BY <1>1
<1>5. ASSUME NEW ax \in bound.axes
      PROVE  /\ bound.ranges[el][ax] \in Pairs
             /\ s[el][ax] \in SampleDistribution(bound.ranges[el][ax], term.distribution)
             /\ s[el][ax] \in Int
  BY <1>1, <1>2, <1>3
<1> QED
  BY <1>4, <1>5

LEMMA Applied ==
  ASSUME NEW d \in Int, NEW x \in Int, NEW operation \in Operations
  PROVE  ApplyRandomizationOperation(d, x, operation) \in Int
BY DEF ApplyRandomizationOperation, Operations

LEMMA DefaultIs ==
  ASSUME NEW e \in EvEnv, NEW el \in Element, NEW ax \in Axis
  PROVE  EvDefault[e][el][ax] \in Int
BY EventAssumption

\* Of the terms that apply an operation to the default.
LEMMA RandomizedIs ==
  ASSUME RangesBound, term.operation \in Operations,
         NEW e \in EvEnv, NEW s \in SampleAxes, NEW el \in Element, NEW ax \in Axis
  PROVE  /\ Randomized(e, s)[el][ax] \in Int
         /\ IF el \in DOMAIN bound.ranges /\ ax \in bound.axes
            THEN \E x \in SampleDistribution(bound.ranges[el][ax], term.distribution) :
                    Randomized(e, s)[el][ax] = ApplyRandomizationOperation(EvDefault[e][el][ax], x, term.operation)
            ELSE Randomized(e, s)[el][ax] = EvDefault[e][el][ax]
<1>1. EvDefault[e][el][ax] \in Int
  BY DefaultIs
<1>2. Randomized(e, s)[el][ax] =
        IF el \in DOMAIN s /\ ax \in DOMAIN s[el]
        THEN ApplyRandomizationOperation(EvDefault[e][el][ax], s[el][ax], term.operation)
        ELSE EvDefault[e][el][ax]
  BY DEF Randomized, SelectedResetDefaults
<1>3. CASE el \in DOMAIN bound.ranges /\ ax \in bound.axes
  <2>1. el \in DOMAIN s /\ ax \in DOMAIN s[el] /\ s[el][ax] \in Int
        /\ s[el][ax] \in SampleDistribution(bound.ranges[el][ax], term.distribution)
    BY <1>3, SampleIs
  <2>2. Randomized(e, s)[el][ax] = ApplyRandomizationOperation(EvDefault[e][el][ax], s[el][ax], term.operation)
    BY <1>2, <2>1, Zenon
  <2>3. ApplyRandomizationOperation(EvDefault[e][el][ax], s[el][ax], term.operation) \in Int
    BY <1>1, <2>1, Applied
  <2> QED
    BY <1>3, <2>1, <2>2, <2>3, Zenon
<1>4. CASE ~ (el \in DOMAIN bound.ranges /\ ax \in bound.axes)
  <2>0. SampleAxes \subseteq [DOMAIN bound.ranges -> [bound.axes -> Samples]]
    BY DEF SampleAxes
  <2>1. ~ (el \in DOMAIN s /\ ax \in DOMAIN s[el])
    BY <1>4, <2>0, SampleIs
  <2> QED
    BY <1>1, <1>2, <1>4, <2>1, Zenon
<1> QED
  BY <1>3, <1>4

\* A write of some rows, each value of them one draw from the default.
LEMMA Wrote ==
  ASSUME EvInv, evPc = "ready", NEW kinds, BeginTerm(kinds), NEW rows \in SUBSET EvEnv, NEW new, Write(rows, new),
         UNCHANGED <<bound, stages, stepCounter>>,
         \A e \in rows, el \in Element, ax \in Axis : Drawn(e, el, ax, new[e][el][ax]) /\ Physical(term.kind, new[e][el][ax]),
         term.kind = "massInertia" => ScaledOnce'
  PROVE  EvInv'
<1>1. /\ term \in EvTerms /\ stages \in StageLists /\ drawn \subseteq EvEnv /\ stepCounter \in Nat /\ RangesBound
      /\ OneDrawFromDefault /\ PhysicalValues
  BY DEF EvInv, EvKinds
<1>2. term' = ComputeCurriculum(term) /\ stagedAt' = stepCounter
  BY DEF BeginTerm
<1>3. SameTerm(term, term')
  BY <1>1, <1>2, Staged
<1>4. /\ value' = [e \in EvEnv |-> IF e \in rows THEN new[e] ELSE value[e]]
      /\ drawn' = drawn \cup rows /\ evPc' = "ready"
  BY DEF Write
<1>5. EvKinds'
  BY <1>1, <1>2, <1>3, <1>4, SMT DEF EvKinds, SameTerm
<1>6. RangesBound'
  BY <1>1, <1>3 DEF RangesBound, SameTerm
<1>7. \A e, el, ax, v : Drawn(e, el, ax, v)' <=> Drawn(e, el, ax, v)
  BY <1>3, Zenon DEF Drawn, SameTerm
<1>8. ASSUME NEW e \in drawn', NEW el \in Element, NEW ax \in Axis
      PROVE  /\ term.kind # "push" => Drawn(e, el, ax, value[e][el][ax])'
             /\ Physical(term'.kind, value'[e][el][ax])
  <2>1. e \in EvEnv /\ term'.kind = term.kind
    BY <1>1, <1>3, <1>4 DEF SameTerm
  <2>2. CASE e \in rows
    <3>1. value'[e] = new[e]
      BY <1>4, <2>1, <2>2
    <3>2. Drawn(e, el, ax, new[e][el][ax]) /\ Physical(term.kind, new[e][el][ax])
      BY <2>2
    <3>3. Drawn(e, el, ax, new[e][el][ax])'
      BY <1>7, <3>2
    <3> QED
      BY <2>1, <3>1, <3>2, <3>3, Zenon DEF Drawn
  <2>3. CASE e \notin rows
    <3>1. value'[e] = value[e] /\ e \in drawn
      BY <1>4, <2>1, <2>3
    <3>2. (term.kind # "push" => Drawn(e, el, ax, value[e][el][ax])) /\ Physical(term.kind, value[e][el][ax])
      BY <1>1, <3>1, DrawnIs
    <3> QED
      BY <1>7, <2>1, <3>1, <3>2, Zenon DEF Drawn
  <2> QED
    BY <2>2, <2>3
<1>9. OneDrawFromDefault' /\ PhysicalValues'
  BY <1>3, <1>8, DrawnIs, Zenon DEF SameTerm
<1>10. StageInForce'
  BY <1>1, <1>2, Staged DEF StageInForce
<1> QED
  BY <1>3, <1>4, <1>5, <1>6, <1>9, <1>10 DEF EvInv, SameTerm

\* A term that raises writes nothing and is never asked again.
LEMMA Raised ==
  ASSUME EvInv, NEW kinds, BeginTerm(kinds), TermRaises, UNCHANGED <<bound, stages, stepCounter>>
  PROVE  EvInv'
<1>1. /\ term \in EvTerms /\ stages \in StageLists /\ drawn \subseteq EvEnv /\ stepCounter \in Nat
  BY DEF EvInv, EvKinds
<1>2. term' = ComputeCurriculum(term) /\ stagedAt' = stepCounter /\ evPc' = "raised" /\ drawn' = drawn
  BY DEF BeginTerm, TermRaises
<1>3. term' \in EvTerms
  BY <1>1, <1>2, Staged DEF SameTerm
<1>4. EvKinds'
  BY <1>1, <1>2, <1>3 DEF EvKinds
<1> QED
  BY <1>2, <1>4 DEF EvInv, OneDrawFromDefault, PhysicalValues, StageInForce

------------------------------------------------------------------------------
(* Construction.                                                              *)

LEMMA EntryPair ==
  ASSUME NEW r \in EvRanges, NEW x \in r
  PROVE  x.pair \in Pairs
<1>1. x \in [names : SUBSET Element, axis : Int, pair : Int \X Int]
  BY DEF EvRanges
<1> QED
  BY <1>1 DEF Pairs

LEMMA TheOf ==
  ASSUME NEW r \in EvRanges, r # {}
  PROVE  The(r).pair \in Pairs
<1>1. The(r) \in r
  BY DEF The
<1> QED
  BY <1>1, EntryPair

LEMMA AxisOf ==
  ASSUME NEW r \in EvRanges, NEW ax \in Keys(r)
  PROVE  AtAxis(r, ax) \in Pairs
<1>1. \E x \in r : x.axis = ax
  BY DEF Keys
<1> DEFINE y == CHOOSE x \in r : x.axis = ax
<1>2. y \in r
  BY <1>1
<1>3. AtAxis(r, ax) = y.pair
  BY DEF AtAxis
<1> HIDE DEF y
<1> QED
  BY <1>2, <1>3, EntryPair

\* The ranges of a model field.
LEMMA FieldBound ==
  ASSUME NEW t \in TermConfigs, t.kind = "field", ModelFieldAccepted(t)
  PROVE  /\ SelectedElements(t) \subseteq Element /\ ResolveAxes(t) \subseteq Axis
         /\ DOMAIN ResolveRanges(t) = SelectedElements(t)
         /\ \A el \in SelectedElements(t) : \A ax \in ResolveAxes(t) : ResolveRanges(t)[el][ax] \in Pairs
<1>1. t \in EvTerms /\ t.ranges \in EvRanges /\ t.by \in {"all", "axis", "pattern"}
  BY EventAssumption, TermFields
<1>2. SelectedElements(t) \subseteq Element /\ ResolveAxes(t) \subseteq Axis
  <2>1. SelectedElements(t) \subseteq Element
    BY DEF SelectedElements
  <2> QED
    BY <2>1 DEF ModelFieldAccepted, AxesAccepted
<1>3. t.by = "axis" => Keys(t.ranges) = ResolveAxes(t)
  BY DEF ModelFieldAccepted, RangesAccepted
<1>4. t.by = "all" => t.ranges # {}
  BY EventAssumption
<1>5. ASSUME NEW el \in SelectedElements(t), NEW ax \in ResolveAxes(t)
      PROVE  ResolveRanges(t)[el][ax] \in Pairs
  <2>0. ResolveRanges(t)[el][ax] =
            CASE t.by = "pattern" -> (CHOOSE x \in t.ranges : el \in x.names).pair
              [] t.by = "axis"    -> AtAxis(t.ranges, ax)
              [] t.by = "all"     -> The(t.ranges).pair
    BY DEF ResolveRanges
  <2>1. CASE t.by = "pattern"
    <3> DEFINE y == CHOOSE x \in t.ranges : el \in x.names
    <3>1. \E x \in t.ranges : el \in x.names
      BY <2>1 DEF SelectedElements, NamesElements
    <3>2. y \in t.ranges
      BY <3>1
    <3>3. ResolveRanges(t)[el][ax] = y.pair
      BY <2>0, <2>1
    <3> HIDE DEF y
    <3> QED
      BY <1>1, <3>2, <3>3, EntryPair
  <2>2. CASE t.by = "axis"
    <3>1. ResolveRanges(t)[el][ax] = AtAxis(t.ranges, ax)
      BY <2>0, <2>2
    <3> QED
      BY <1>1, <1>3, <2>2, <3>1, AxisOf
  <2>3. CASE t.by = "all"
    <3>1. ResolveRanges(t)[el][ax] = The(t.ranges).pair
      BY <2>0, <2>3
    <3> QED
      BY <1>1, <1>4, <2>3, <3>1, TheOf
  <2> QED
    BY <1>1, <2>1, <2>2, <2>3
<1> QED
  BY <1>2, <1>5 DEF ResolveRanges

LEMMA AcceptedParameters ==
  ASSUME NEW t \in TermConfigs, TermAccepted(t)
  PROVE  /\ t.kind = "field" => ModelFieldAccepted(t)
         /\ t.kind \in {"field", "gains", "mass", "gravity"} => t.operation \in Operations
         /\ t.kind \in {"massInertia", "bias"} => t.distribution = "uniform"
<1>1. t.kind \in EventKinds
  BY EventAssumption, TermFields
<1>2. t.kind = "field" => ModelFieldAccepted(t)
  BY DEF TermAccepted
<1>3. t.kind = "gains" => PdGainsAccepted(t)
  BY DEF TermAccepted
<1>4. t.kind = "mass" => BodyMassAccepted(t)
  BY DEF TermAccepted
<1>5. t.kind = "massInertia" => MassInertiaAccepted(t)
  BY DEF TermAccepted
<1>6. t.kind = "gravity" => GravityAccepted(t)
  BY DEF TermAccepted
<1>7. t.kind = "bias" => EncoderBiasAccepted(t)
  BY DEF TermAccepted
<1>8. t.kind \in {"massInertia", "bias"} => "distribution" \notin t.given
  BY <1>5, <1>7 DEF MassInertiaAccepted, EncoderBiasAccepted, ValidateEventTerm
<1>9. "distribution" \notin t.given => t.distribution = "uniform"
  BY EventAssumption
<1>10. t.kind \in {"field", "gains", "mass", "gravity"} => t.operation \in Operations
  BY <1>2, <1>3, <1>4, <1>6 DEF ModelFieldAccepted, PdGainsAccepted, BodyMassAccepted, GravityAccepted, EventChoice, Operations
<1> QED
  BY <1>2, <1>8, <1>9, <1>10

LEMMA BoundPairs ==
  ASSUME NEW t \in TermConfigs, TermAccepted(t)
  PROVE  /\ DOMAIN BoundRanges(t) \subseteq Element /\ BoundAxes(t) \subseteq Axis
         /\ \A el \in DOMAIN BoundRanges(t) : \A ax \in BoundAxes(t) : BoundRanges(t)[el][ax] \in Pairs
         /\ t.kind # "field" => DOMAIN BoundRanges(t) = Element /\ BoundAxes(t) = Axis
<1>1. t \in EvTerms /\ t.ranges \in EvRanges /\ t.kind \in EventKinds
  BY EventAssumption, TermFields
<1>2. CASE t.kind = "field"
  <2>1. BoundRanges(t) = ResolveRanges(t) /\ BoundAxes(t) = ResolveAxes(t)
    BY <1>2 DEF BoundRanges, BoundAxes
  <2> QED
    BY <1>2, <2>1, AcceptedParameters, FieldBound
<1>3. CASE t.kind # "field"
  <2>1. /\ DOMAIN BoundRanges(t) = Element /\ BoundAxes(t) = Axis
        /\ \A el \in Element, ax \in Axis : BoundRanges(t)[el][ax] =
              IF t.kind \in {"com", "push"} THEN AxisRange(t.ranges, ax) ELSE The(t.ranges).pair
    BY <1>3 DEF BoundRanges, BoundAxes
  <2>2. ASSUME NEW el \in Element, NEW ax \in Axis
        PROVE  BoundRanges(t)[el][ax] \in Pairs
    <3>1. CASE t.kind \in {"com", "push"}
      <4>1. <<0, 0>> \in Pairs
        BY DEF Pairs
      <4>2. AxisRange(t.ranges, ax) \in Pairs
        BY <1>1, <4>1, AxisOf DEF AxisRange
      <4> QED
        BY <2>1, <3>1, <4>2
    <3>2. CASE t.kind \notin {"com", "push"}
      <4>1. t.ranges # {}
        BY <1>1, <1>3, <3>2, EventAssumption DEF EventKinds
      <4>2. The(t.ranges).pair \in Pairs
        BY <1>1, <4>1, TheOf
      <4> QED
        BY <2>1, <3>2, <4>2
    <3> QED
      BY <3>1, <3>2
  <2> QED
    BY <1>3, <2>1, <2>2
<1> QED
  BY <1>2, <1>3

LEMMA Construct_Holds == EvInv /\ Construct => EvInv'
<1> SUFFICES ASSUME EvInv, Construct PROVE EvInv'
  OBVIOUS
<1>1. /\ EvKinds /\ Unbuilt /\ evPc = "construct" /\ stages \in EvStages
  BY EventAssumption DEF EvInv, Construct, EvKinds
<1>2. UNCHANGED <<term, stages, stepCounter, stagedAt, value, inertia, scales, drawn>> /\ evPc' \in {"ready", "refused"}
  BY DEF Construct
<1>3. EvKinds'
  BY <1>1, <1>2 DEF EvKinds
<1>4. drawn' = {} /\ stagedAt' = -1
  BY <1>1, <1>2 DEF Unbuilt
<1>5. OneDrawFromDefault' /\ PhysicalValues'
  BY <1>4, Zenon DEF OneDrawFromDefault, PhysicalValues
<1>6. StageInForce'
  <2>1. \A i \in DOMAIN stages : stages[i].step \in Nat
    BY <1>1, StageOf
  <2>2. \A i \in DOMAIN stages : ~ (stages[i].step <= -1)
    BY <2>1
  <2>3. stages' = stages /\ stagedAt' = -1
    BY <1>2, <1>4
  <2> QED
    BY <2>2, <2>3 DEF StageInForce
<1>7. evPc' = "ready" => RangesBound'
  <2> SUFFICES ASSUME evPc' = "ready" PROVE RangesBound'
    OBVIOUS
  <2>1. TermAccepted(term) /\ bound' = [ranges |-> BoundRanges(term), axes |-> BoundAxes(term)] /\ term \in TermConfigs
    BY <1>1 DEF Construct, Unbuilt
  <2>2. bound'.ranges = BoundRanges(term) /\ bound'.axes = BoundAxes(term) /\ term' = term
    BY <1>2, <2>1
  <2> QED
    BY <2>1, <2>2, AcceptedParameters, BoundPairs DEF RangesBound
<1>8. ScaledOnce'
  BY <1>1, <1>2 DEF ScaledOnce, Unbuilt
<1> QED
  BY <1>2, <1>3, <1>5, <1>6, <1>7, <1>8 DEF EvInv

------------------------------------------------------------------------------
(* The terms.                                                                 *)

LEMMA OneOf ==
  ASSUME NEW kind, NEW operation, NEW distribution, NEW r, NEW d,
         NEW x \in SampleDistribution(r, distribution), kind \in {"field", "gains", "gravity"}
  PROVE  ApplyRandomizationOperation(d, x, operation) \in OneDrawOf(kind, operation, distribution, r, d)
<1>1. OneDrawOf(kind, operation, distribution, r, d)
        = {ApplyRandomizationOperation(d, y, operation) : y \in SampleDistribution(r, distribution)}
  BY DEF OneDrawOf
<1> QED
  BY <1>1, Zenon

\* A random field, gain or gravity.
LEMMA RandomizedDrawn ==
  ASSUME RangesBound, term.kind \in {"field", "gains", "gravity"},
         NEW e \in EvEnv, NEW s \in SampleAxes, NEW el \in Element, NEW ax \in Axis
  PROVE  Drawn(e, el, ax, Randomized(e, s)[el][ax])
<1>1. term.operation \in Operations
  BY DEF RangesBound
<1>2. CASE el \in DOMAIN bound.ranges /\ ax \in bound.axes
  <2>1. PICK x \in SampleDistribution(bound.ranges[el][ax], term.distribution) :
           Randomized(e, s)[el][ax] = ApplyRandomizationOperation(EvDefault[e][el][ax], x, term.operation)
    BY <1>1, <1>2, RandomizedIs
  <2>2. ApplyRandomizationOperation(EvDefault[e][el][ax], x, term.operation)
          \in OneDrawOf(term.kind, term.operation, term.distribution, bound.ranges[el][ax], EvDefault[e][el][ax])
    BY OneOf
  <2> QED
    BY <1>2, <2>1, <2>2 DEF Drawn
<1>3. CASE ~ (el \in DOMAIN bound.ranges /\ ax \in bound.axes)
  BY <1>1, <1>3, RandomizedIs, Zenon DEF Drawn
<1> QED
  BY <1>2, <1>3

LEMMA ReadyParts ==
  ASSUME EvInv, NEW kinds, BeginTerm(kinds)
  PROVE  evPc = "ready" /\ RangesBound /\ term.kind \in kinds
BY DEF EvInv, BeginTerm

LEMMA Field_Holds == \A rows \in SUBSET EvEnv : EvInv /\ RandomizeField(rows) => EvInv'
<1> SUFFICES ASSUME NEW rows \in SUBSET EvEnv, EvInv, RandomizeField(rows) PROVE EvInv'
  OBVIOUS
<1>1. BeginTerm({"field"}) /\ UNCHANGED <<bound, stages, stepCounter, inertia, scales>>
  BY DEF RandomizeField
<1>2. evPc = "ready" /\ RangesBound /\ term.kind = "field"
  BY <1>1, ReadyParts
<1>3. PICK s \in [rows -> SampleAxes] :
         LET new == [e \in rows |-> Randomized(e, s[e])]
         IN IF InvalidField(new) THEN TermRaises ELSE Write(rows, new)
  BY Zenon DEF RandomizeField
<1>4. PICK new : new = [e \in rows |-> Randomized(e, s[e])]
  OBVIOUS
<1>5. IF InvalidField(new) THEN TermRaises ELSE Write(rows, new)
  BY <1>3, <1>4, Zenon
<1>6. CASE InvalidField(new)
  BY <1>1, <1>5, <1>6, Raised
<1>7. CASE ~InvalidField(new)
  <2>1. Write(rows, new)
    BY <1>5, <1>7
  <2>2. ASSUME NEW e \in rows, NEW el \in Element, NEW ax \in Axis
        PROVE  Drawn(e, el, ax, new[e][el][ax]) /\ Physical(term.kind, new[e][el][ax])
    <3>1. e \in EvEnv /\ s[e] \in SampleAxes /\ new[e] = Randomized(e, s[e]) /\ DOMAIN new = rows
      BY <1>4, Zenon
    <3>2. Drawn(e, el, ax, new[e][el][ax])
      BY <1>2, <3>1, RandomizedDrawn
    <3>3. new[e][el][ax] \in Int
      BY <1>2, <3>1, RandomizedIs DEF RangesBound
    <3>4. ~ (new[e][el][ax] < 0)
      BY <1>7, <3>1 DEF InvalidField
    <3> QED
      BY <1>2, <3>2, <3>3, <3>4 DEF Physical
  <2> QED
    BY <1>1, <1>2, <2>1, <2>2, Wrote
<1> QED
  BY <1>6, <1>7

\* The gains and the gravity of rows.
LEMMA PlainWrote ==
  ASSUME EvInv, NEW kinds, BeginTerm(kinds), kinds \subseteq {"gains", "gravity"}, NEW rows \in SUBSET EvEnv,
         NEW s \in [rows -> SampleAxes], Write(rows, [e \in rows |-> Randomized(e, s[e])]),
         UNCHANGED <<bound, stages, stepCounter>>
  PROVE  EvInv'
<1>1. evPc = "ready" /\ RangesBound /\ term.kind \in {"gains", "gravity"}
  BY ReadyParts
<1>2. PICK new : new = [e \in rows |-> Randomized(e, s[e])]
  OBVIOUS
<1>3. ASSUME NEW e \in rows, NEW el \in Element, NEW ax \in Axis
      PROVE  Drawn(e, el, ax, new[e][el][ax]) /\ Physical(term.kind, new[e][el][ax])
  <2>1. e \in EvEnv /\ s[e] \in SampleAxes /\ new[e] = Randomized(e, s[e])
    BY <1>2, Zenon
  <2>2. Drawn(e, el, ax, new[e][el][ax])
    BY <1>1, <2>1, RandomizedDrawn
  <2> QED
    BY <1>1, <2>2 DEF Physical
<1>4. Write(rows, new)
  BY <1>2
<1> QED
  BY <1>1, <1>3, <1>4, Wrote

LEMMA Gains_Holds == \A rows \in SUBSET EvEnv : EvInv /\ RandomizeGains(rows) => EvInv'
<1> SUFFICES ASSUME NEW rows \in SUBSET EvEnv, EvInv, RandomizeGains(rows) PROVE EvInv'
  OBVIOUS
<1>1. BeginTerm({"gains"}) /\ UNCHANGED <<bound, stages, stepCounter, inertia, scales>>
  BY DEF RandomizeGains
<1>2. PICK s \in [rows -> SampleAxes] : Write(rows, [e \in rows |-> Randomized(e, s[e])])
  BY DEF RandomizeGains
<1> QED
  BY <1>1, <1>2, PlainWrote

LEMMA Gravity_Holds == \A rows \in SUBSET EvEnv : EvInv /\ RandomizeGravity(rows) => EvInv'
<1> SUFFICES ASSUME NEW rows \in SUBSET EvEnv, EvInv, RandomizeGravity(rows) PROVE EvInv'
  OBVIOUS
<1>1. BeginTerm({"gravity"}) /\ UNCHANGED <<bound, stages, stepCounter, inertia, scales>>
  BY DEF RandomizeGravity
<1>2. PICK s \in [rows -> SampleAxes] : Write(rows, [e \in rows |-> Randomized(e, s[e])])
  BY DEF RandomizeGravity
<1> QED
  BY <1>1, <1>2, PlainWrote

LEMMA Mass_Holds == \A rows \in SUBSET EvEnv : EvInv /\ RandomizeBodyMass(rows) => EvInv'
<1> SUFFICES ASSUME NEW rows \in SUBSET EvEnv, EvInv, RandomizeBodyMass(rows) PROVE EvInv'
  OBVIOUS
<1>1. BeginTerm({"mass"}) /\ UNCHANGED <<bound, stages, stepCounter, inertia, scales>>
  BY DEF RandomizeBodyMass
<1>2. evPc = "ready" /\ RangesBound /\ term.kind = "mass" /\ term.operation \in Operations
  BY <1>1, ReadyParts DEF RangesBound
<1>3. PICK s \in [rows -> SampleAxes] :
        Write(rows, [e \in rows |-> [el \in Element |-> [ax \in Axis |-> AtLeastMinMass(Randomized(e, s[e])[el][ax])]]])
  BY DEF RandomizeBodyMass
<1>4. PICK new : new = [e \in rows |-> [el \in Element |-> [ax \in Axis |-> AtLeastMinMass(Randomized(e, s[e])[el][ax])]]]
  OBVIOUS
<1>5. ASSUME NEW e \in rows, NEW el \in Element, NEW ax \in Axis
      PROVE  Drawn(e, el, ax, new[e][el][ax]) /\ Physical(term.kind, new[e][el][ax])
  <2>1. e \in EvEnv /\ s[e] \in SampleAxes /\ new[e][el][ax] = AtLeastMinMass(Randomized(e, s[e])[el][ax])
    BY <1>4, Zenon
  <2>2. el \in DOMAIN bound.ranges /\ ax \in bound.axes
    BY <1>2 DEF RangesBound
  <2>3. PICK x \in SampleDistribution(bound.ranges[el][ax], term.distribution) :
           Randomized(e, s[e])[el][ax] = ApplyRandomizationOperation(EvDefault[e][el][ax], x, term.operation)
    BY <1>2, <2>1, <2>2, RandomizedIs
  <2>4. Randomized(e, s[e])[el][ax] \in Int
    BY <1>2, <2>1, RandomizedIs
  <2>5. OneDrawOf("mass", term.operation, term.distribution, bound.ranges[el][ax], EvDefault[e][el][ax])
          = {AtLeastMinMass(ApplyRandomizationOperation(EvDefault[e][el][ax], y, term.operation)) :
                y \in SampleDistribution(bound.ranges[el][ax], term.distribution)}
    BY DEF OneDrawOf
  <2>6. Drawn(e, el, ax, new[e][el][ax])
    BY <1>2, <2>1, <2>2, <2>3, <2>5, Zenon DEF Drawn
  <2>7. new[e][el][ax] >= MinMass
    BY <2>1, <2>4, EventAssumption DEF AtLeastMinMass
  <2> QED
    BY <1>2, <2>6, <2>7 DEF Physical
<1>6. Write(rows, new)
  BY <1>3, <1>4
<1> QED
  BY <1>1, <1>2, <1>5, <1>6, Wrote

LEMMA Uniformly ==
  ASSUME NEW r
  PROVE  SampleDistribution(r, "uniform") = r[1] .. r[2]
BY DEF SampleDistribution

\* The scales of every environment lie in the range of the term.
LEMMA ScalesIn ==
  ASSUME EvInv, evPc = "ready", term.kind = "massInertia", NEW s \in DrawnScales
  PROVE  /\ \A e \in EvEnv : \A el \in Element, ax \in Axis : s[e][el][ax] \in bound.ranges[el][ax][1] .. bound.ranges[el][ax][2]
         /\ s = None => EvEnv = {}
         /\ scales # None => s = scales
<1>1. RangesBound /\ ScaledOnce /\ DOMAIN bound.ranges = Element /\ bound.axes = Axis /\ term.distribution = "uniform"
  BY DEF EvInv, RangesBound
<1>2. CASE scales = None
  <2>1. s \in AnyScales
    BY <1>2 DEF DrawnScales
  <2>2. s \in [EvEnv -> SampleAxes]
    BY <2>1 DEF AnyScales
  <2>3. ASSUME NEW e \in EvEnv, NEW el \in Element, NEW ax \in Axis
        PROVE  s[e][el][ax] \in bound.ranges[el][ax][1] .. bound.ranges[el][ax][2]
    <3>1. s[e] \in SampleAxes
      BY <2>2
    <3>2. s[e][el][ax] \in SampleDistribution(bound.ranges[el][ax], "uniform")
      BY <1>1, <3>1, SampleIs
    <3> QED
      BY <3>2, Uniformly
  <2>4. s = None => EvEnv = {}
    <3>1. DOMAIN s = EvEnv
      BY <2>2
    <3> QED
      BY <3>1 DEF None
  <2> QED
    BY <1>2, <2>3, <2>4
<1>3. CASE scales # None
  <2>1. s = scales
    BY <1>3 DEF DrawnScales
  <2> QED
    BY <1>1, <1>3, <2>1 DEF ScaledOnce, ScaleOf
<1> QED
  BY <1>2, <1>3

LEMMA MassInertia_Holds == \A rows \in SUBSET EvEnv : EvInv /\ RandomizeMassInertia(rows) => EvInv'
<1> SUFFICES ASSUME NEW rows \in SUBSET EvEnv, EvInv, RandomizeMassInertia(rows) PROVE EvInv'
  OBVIOUS
<1>1. BeginTerm({"massInertia"}) /\ UNCHANGED <<bound, stages, stepCounter>>
  BY DEF RandomizeMassInertia
<1>2. evPc = "ready" /\ RangesBound /\ term.kind = "massInertia" /\ DOMAIN bound.ranges = Element /\ bound.axes = Axis
      /\ ScaledOnce /\ drawn \subseteq EvEnv
  BY <1>1, ReadyParts DEF RangesBound, EvInv, EvKinds
<1>3. PICK s \in DrawnScales :
         /\ scales' = s /\ Write(rows, [e \in rows |-> Scaled(e, s[e])])
         /\ inertia' = [e \in EvEnv |-> IF e \in rows THEN Scaled(e, s[e]) ELSE inertia[e]]
  BY DEF RandomizeMassInertia
<1>4. PICK new : new = [e \in rows |-> Scaled(e, s[e])]
  OBVIOUS
<1>5. /\ \A e \in EvEnv : \A el \in Element, ax \in Axis : s[e][el][ax] \in bound.ranges[el][ax][1] .. bound.ranges[el][ax][2]
      /\ s = None => EvEnv = {}
      /\ scales # None => s = scales
  BY <1>2, <1>3, ScalesIn
<1>6. Write(rows, new)
  BY <1>3, <1>4
<1>7. ASSUME NEW e \in rows, NEW el \in Element, NEW ax \in Axis
      PROVE  Drawn(e, el, ax, new[e][el][ax]) /\ Physical(term.kind, new[e][el][ax])
  <2>1. e \in EvEnv /\ new[e][el][ax] = EvDefault[e][el][ax] * s[e][el][ax]
    BY <1>4 DEF Scaled
  <2>2. s[e][el][ax] \in bound.ranges[el][ax][1] .. bound.ranges[el][ax][2]
    BY <1>5, <2>1
  <2>3. OneDrawOf("massInertia", term.operation, term.distribution, bound.ranges[el][ax], EvDefault[e][el][ax])
          = {EvDefault[e][el][ax] * x : x \in bound.ranges[el][ax][1] .. bound.ranges[el][ax][2]}
    BY DEF OneDrawOf
  <2> QED
    BY <1>2, <2>1, <2>2, <2>3, Zenon DEF Drawn, Physical
<1>8. ScaledOnce'
  <2>1. value' = [e \in EvEnv |-> IF e \in rows THEN Scaled(e, s[e]) ELSE value[e]] /\ drawn' = drawn \cup rows
    BY <1>4, <1>6 DEF Write
  <2>2. inertia' = value'
    BY <1>2, <1>3, <2>1 DEF ScaledOnce
  <2>3. scales' = None => drawn' = {}
    BY <1>2, <1>3, <1>5, <2>1
  <2>4. \A e \in EvEnv : \A el \in Element, ax \in Axis : ScaleOf(e, el, ax)'
    BY <1>1, <1>3, <1>5, Zenon DEF ScaleOf
  <2>5. \A e \in drawn' : value'[e] = Scaled(e, scales'[e])
    <3> SUFFICES ASSUME NEW e \in drawn' PROVE value'[e] = Scaled(e, scales'[e])
      OBVIOUS
    <3>1. e \in EvEnv
      BY <1>2, <2>1
    <3>2. CASE e \in rows
      BY <1>3, <2>1, <3>1, <3>2
    <3>3. CASE e \notin rows
      <4>1. e \in drawn /\ value'[e] = value[e]
        BY <2>1, <3>1, <3>3
      <4>2. scales # None /\ value[e] = Scaled(e, scales[e])
        BY <1>2, <4>1 DEF ScaledOnce
      <4> QED
        BY <1>3, <1>5, <4>1, <4>2
    <3> QED
      BY <3>2, <3>3
  <2> QED
    BY <2>2, <2>3, <2>4, <2>5, Zenon DEF ScaledOnce, Scaled
<1> QED
  BY <1>1, <1>2, <1>6, <1>7, <1>8, Wrote

LEMMA Com_Holds == \A rows \in SUBSET EvEnv : EvInv /\ RandomizeBodyCom(rows) => EvInv'
<1> SUFFICES ASSUME NEW rows \in SUBSET EvEnv, EvInv, RandomizeBodyCom(rows) PROVE EvInv'
  OBVIOUS
<1>1. BeginTerm({"com"}) /\ UNCHANGED <<bound, stages, stepCounter, inertia, scales>>
  BY DEF RandomizeBodyCom
<1>2. evPc = "ready" /\ RangesBound /\ term.kind = "com" /\ DOMAIN bound.ranges = Element /\ bound.axes = Axis
  BY <1>1, ReadyParts DEF RangesBound
<1>3. CASE ~AxisRanges(term'.ranges, Axis)
  <2>1. TermRaises
    BY <1>3 DEF RandomizeBodyCom
  <2> QED
    BY <1>1, <2>1, Raised
<1>4. CASE AxisRanges(term'.ranges, Axis)
  <2>1. PICK s \in [rows -> [Axis -> -1 .. 4]] :
           Write(rows, [e \in rows |-> [el \in Element |-> [ax \in Axis |-> EvDefault[e][el][ax] + s[e][ax]]]])
    BY <1>4 DEF RandomizeBodyCom
  <2>2. PICK new : new = [e \in rows |-> [el \in Element |-> [ax \in Axis |-> EvDefault[e][el][ax] + s[e][ax]]]]
    OBVIOUS
  <2>3. Write(rows, new)
    BY <2>1, <2>2
  <2>4. ASSUME NEW e \in rows, NEW el \in Element, NEW ax \in Axis
        PROVE  Drawn(e, el, ax, new[e][el][ax]) /\ Physical(term.kind, new[e][el][ax])
    <3>1. new[e][el][ax] = EvDefault[e][el][ax] + s[e][ax] /\ s[e][ax] \in -1 .. 4
      BY <2>2
    <3>2. OneDrawOf("com", term.operation, term.distribution, bound.ranges[el][ax], EvDefault[e][el][ax])
            = {EvDefault[e][el][ax] + x : x \in -1 .. 4}
      BY DEF OneDrawOf
    <3> QED
      BY <1>2, <3>1, <3>2, Zenon DEF Drawn, Physical
  <2> QED
    BY <1>1, <1>2, <2>3, <2>4, Wrote
<1> QED
  BY <1>3, <1>4

LEMMA Bias_Holds == \A rows \in SUBSET EvEnv : EvInv /\ RandomizeEncoderBias(rows) => EvInv'
<1> SUFFICES ASSUME NEW rows \in SUBSET EvEnv, EvInv, RandomizeEncoderBias(rows) PROVE EvInv'
  OBVIOUS
<1>1. BeginTerm({"bias"}) /\ UNCHANGED <<bound, stages, stepCounter, inertia, scales>>
  BY DEF RandomizeEncoderBias
<1>2. evPc = "ready" /\ RangesBound /\ term.kind = "bias" /\ DOMAIN bound.ranges = Element /\ bound.axes = Axis
      /\ term.distribution = "uniform"
  BY <1>1, ReadyParts DEF RangesBound
<1>3. PICK s \in [rows -> SampleAxes] : Write(rows, s)
  BY DEF RandomizeEncoderBias
<1>4. ASSUME NEW e \in rows, NEW el \in Element, NEW ax \in Axis
      PROVE  Drawn(e, el, ax, s[e][el][ax]) /\ Physical(term.kind, s[e][el][ax])
  <2>1. s[e] \in SampleAxes
    OBVIOUS
  <2>2. s[e][el][ax] \in bound.ranges[el][ax][1] .. bound.ranges[el][ax][2]
    BY <1>2, <2>1, SampleIs, Uniformly
  <2>3. OneDrawOf("bias", term.operation, term.distribution, bound.ranges[el][ax], EvDefault[e][el][ax])
          = bound.ranges[el][ax][1] .. bound.ranges[el][ax][2]
    BY DEF OneDrawOf
  <2> QED
    BY <1>2, <2>2, <2>3, Zenon DEF Drawn, Physical
<1> QED
  BY <1>1, <1>2, <1>3, <1>4, Wrote

LEMMA Push_Holds == \A rows \in SUBSET EvEnv : EvInv /\ Push(rows) => EvInv'
<1> SUFFICES ASSUME NEW rows \in SUBSET EvEnv, EvInv, Push(rows) PROVE EvInv'
  OBVIOUS
<1>1. /\ evPc = "ready" /\ term.kind = "push" /\ UNCHANGED <<term, stagedAt, bound, stages, stepCounter, inertia, scales>>
      /\ evPc' \in {"ready", "raised"} /\ drawn' \in {drawn, drawn \cup rows}
  BY DEF Push, TermRaises, Write
<1>2. EvKinds'
  BY <1>1 DEF EvInv, EvKinds
<1>3. RangesBound' /\ term'.kind = "push"
  BY <1>1 DEF EvInv, RangesBound
<1>4. StageInForce'
  BY <1>1 DEF EvInv, StageInForce
<1> QED
  BY <1>1, <1>2, <1>3, <1>4, Zenon DEF EvInv, OneDrawFromDefault, PhysicalValues

LEMMA StagePush_Holds == EvInv /\ StagePush => EvInv'
<1> SUFFICES ASSUME EvInv, StagePush PROVE EvInv'
  OBVIOUS
<1>1. BeginTerm({"push"}) /\ UNCHANGED <<evPc, bound, stages, stepCounter, value, inertia, scales, drawn>>
  BY DEF StagePush
<1>2. evPc = "ready" /\ RangesBound /\ term.kind = "push" /\ term' = ComputeCurriculum(term) /\ stagedAt' = stepCounter
      /\ EvKinds
  BY <1>1, ReadyParts DEF BeginTerm, EvInv
<1>3. SameTerm(term, term')
  BY <1>2, Staged DEF EvKinds
<1>4. EvKinds'
  BY <1>1, <1>2, <1>3 DEF EvKinds, SameTerm
<1>5. RangesBound' /\ term'.kind = "push"
  BY <1>1, <1>2, <1>3 DEF RangesBound, SameTerm
<1>6. StageInForce'
  BY <1>1, <1>2, Staged DEF StageInForce, EvKinds
<1> QED
  BY <1>1, <1>2, <1>4, <1>5, <1>6, Zenon DEF EvInv, OneDrawFromDefault, PhysicalValues

\* Nothing but the counter, or not even that.
LEMMA Passes ==
  ASSUME EvInv, UNCHANGED <<evPc, term, bound, stages, stagedAt, value, inertia, scales, drawn>>, stepCounter' \in Nat
  PROVE  EvInv'
<1>1. EvKinds'
  BY DEF EvInv, EvKinds
<1>2. RangesBound' <=> RangesBound
  BY Zenon DEF RangesBound
<1>3. ScaledOnce' <=> ScaledOnce
  BY Zenon DEF ScaledOnce, ScaleOf, Scaled
<1>4. Unbuilt' <=> Unbuilt
  BY Zenon DEF Unbuilt
<1>6. OneDrawFromDefault' <=> OneDrawFromDefault
  <2>1. \A e, el, ax : Drawn(e, el, ax, value[e][el][ax])' <=> Drawn(e, el, ax, value[e][el][ax])
    BY Zenon DEF Drawn
  <2> QED
    BY <2>1, DrawnIs, Zenon
<1>7. PhysicalValues' /\ StageInForce'
  BY DEF EvInv, PhysicalValues, StageInForce
<1> QED
  BY <1>1, <1>2, <1>3, <1>4, <1>6, <1>7, Zenon DEF EvInv

LEMMA EvInit_Holds == EvInit => EvInv
<1> SUFFICES ASSUME EvInit PROVE EvInv
  OBVIOUS
<1>1. EvKinds /\ Unbuilt
  BY EventAssumption DEF EvInit, EvKinds, Unbuilt
<1> QED
  BY <1>1 DEF EvInit, EvInv, OneDrawFromDefault, PhysicalValues, StageInForce

LEMMA EvNext_Holds == EvInv /\ [EvNext]_evvars => EvInv'
<1> SUFFICES ASSUME EvInv, [EvNext]_evvars PROVE EvInv'
  OBVIOUS
<1>1. CASE Construct
  BY <1>1, Construct_Holds
<1>2. CASE StepPasses
  <2>1. stepCounter' \in Nat
    BY <1>2 DEF StepPasses, EvInv, EvKinds
  <2> QED
    BY <1>2, <2>1, Passes DEF StepPasses
<1>3. CASE StagePush
  BY <1>3, StagePush_Holds
<1>4. ASSUME NEW rows \in SUBSET EvEnv,
             \/ RandomizeField(rows) \/ RandomizeGains(rows) \/ RandomizeBodyMass(rows)
             \/ RandomizeMassInertia(rows) \/ RandomizeBodyCom(rows) \/ RandomizeGravity(rows)
             \/ RandomizeEncoderBias(rows) \/ Push(rows)
      PROVE  EvInv'
  BY <1>4, Field_Holds, Gains_Holds, Mass_Holds, MassInertia_Holds, Com_Holds, Gravity_Holds, Bias_Holds, Push_Holds
<1>5. CASE UNCHANGED evvars
  <2>1. stepCounter' \in Nat
    BY <1>5 DEF evvars, EvInv, EvKinds
  <2> QED
    BY <1>5, <2>1, Passes DEF evvars
<1> QED
  BY <1>1, <1>2, <1>3, <1>4, <1>5 DEF EvNext

\* For any terms, curricula, defaults and resets: a randomised value is one draw from its
\* default, whatever was drawn before, is physical, and the live parameters are those of the
\* last stage due (envs/mdp/events.py, curriculums.py).
THEOREM RandomizedStaysAsConfigured == EvSpec => []RandomizedAsConfigured
<1>1. EvInv => RandomizedAsConfigured
  BY DEF EvInv, RandomizedAsConfigured
<1> QED
  BY <1>1, EvInit_Holds, EvNext_Holds, PTL DEF EvSpec

\* For any bodies and scales: mass and inertia are always scaled alike, and a row that was
\* scaled keeps its scale in every later reset (RandomizeBodyMassInertia).
THEOREM MassKeepsItsInertia == EvSpec => MassInertiaConsistent
<1> DEFINE Same == evPc = "ready" /\ term.kind = "massInertia"
                     => /\ \A e \in EvEnv : inertia'[e] = value'[e]
                        /\ \A e \in drawn : value'[e] = value[e]
<1>1. ASSUME EvInv, EvInv', [EvNext]_evvars PROVE [Same]_evvars
  <2> SUFFICES ASSUME EvNext, evPc = "ready", term.kind = "massInertia"
               PROVE  /\ \A e \in EvEnv : inertia'[e] = value'[e]
                      /\ \A e \in drawn : value'[e] = value[e]
    BY <1>1
  <2>1. ScaledOnce /\ RangesBound
    BY <1>1 DEF EvInv
  <2>2. CASE StepPasses
    BY <2>1, <2>2 DEF StepPasses, ScaledOnce
  <2>3. ASSUME NEW rows \in SUBSET EvEnv, RandomizeMassInertia(rows)
        PROVE  /\ \A e \in EvEnv : inertia'[e] = value'[e]
               /\ \A e \in drawn : value'[e] = value[e]
    <3>1. PICK s \in DrawnScales : scales' = s /\ Write(rows, [e \in rows |-> Scaled(e, s[e])])
      BY <2>3 DEF RandomizeMassInertia
    <3>2. scales # None => s = scales
      BY <1>1, ScalesIn
    <3>3. term'.kind = "massInertia" /\ evPc' = "ready" /\ drawn \subseteq drawn'
      <4>1. term \in EvTerms /\ stages \in StageLists /\ stepCounter \in Nat /\ term' = ComputeCurriculum(term)
        BY <1>1, <2>3 DEF EvInv, EvKinds, RandomizeMassInertia, BeginTerm
      <4>2. term'.kind = term.kind
        BY <4>1, Staged DEF SameTerm
      <4> QED
        BY <3>1, <4>2 DEF Write
    <3>4. ScaledOnce'
      BY <1>1, <3>3 DEF EvInv
    <3>5. ASSUME NEW e \in drawn PROVE value'[e] = value[e]
      <4>1. scales # None /\ value[e] = Scaled(e, scales[e])
        BY <2>1 DEF ScaledOnce
      <4>2. value'[e] = Scaled(e, scales'[e])
        BY <3>3, <3>4 DEF ScaledOnce, Scaled
      <4> QED
        BY <3>1, <3>2, <4>1, <4>2
    <3> QED
      BY <3>4, <3>5 DEF ScaledOnce
  <2>4. ~Construct /\ ~StagePush
    BY DEF Construct, StagePush, BeginTerm
  <2>5. ASSUME NEW rows \in SUBSET EvEnv,
               \/ RandomizeField(rows) \/ RandomizeGains(rows) \/ RandomizeBodyMass(rows)
               \/ RandomizeBodyCom(rows) \/ RandomizeGravity(rows)
               \/ RandomizeEncoderBias(rows) \/ Push(rows)
        PROVE  FALSE
    BY <2>5 DEF RandomizeField, RandomizeGains, RandomizeBodyMass, RandomizeBodyCom, RandomizeGravity,
                RandomizeEncoderBias, Push, BeginTerm
  <2> QED
    BY <2>2, <2>3, <2>4, <2>5 DEF EvNext
<1> QED
  BY <1>1, EvInit_Holds, EvNext_Holds, PTL DEF EvSpec, MassInertiaConsistent

\* For any terms, ranges, stages of a curriculum, durations and cooldowns: a randomised value is one
\* draw from its default with the parameters in force; a wrench acts on a body only while its impulse
\* is running, and throughout unless a push or the reset of a running row takes it back (events.py).
THEOREM DisturbancesStaySound == EvSpec /\ ImSpec => []DisturbancesSound
<1>1. RandomizedAsConfigured /\ ForceOnlyWhileActive /\ ForceUnlessLifted => DisturbancesSound
  BY DEF DisturbancesSound
<1> QED
  BY <1>1, RandomizedStaysAsConfigured, ForceOnlyActive, ForceActsUnlessLifted, PTL

------------------------------------------------------------------------------
(* Commands: the last draw, seen from where the robot faces.                   *)

IsVector(v) == v = [x |-> v.x, y |-> v.y, yaw |-> v.yaw]

Obeys(e) ==
    IF "standing" \in kindOf[e] THEN vel[e] = Zero3
    ELSE /\ "world" \in kindOf[e] =>
               vel[e].x = IntoBody(drawnVel[e], heading[e]).x /\ vel[e].y = IntoBody(drawnVel[e], heading[e]).y
         /\ "heading" \in kindOf[e] =>
               vel[e].yaw = Clip(command.stiffness * WrapToPi(target[e] - heading[e]), command.yaw)

\* What a row keeps between two updates: the world velocity drawn, unless it stands.
Remembers(e) ==
    /\ IsVector(vel[e]) /\ ("heading" \in kindOf[e] => command.headingCommand)
    /\ commandCounter[e] > 0 /\ "standing" \notin kindOf[e] => velW[e] = drawnVel[e]

CmInv ==
    /\ cmPc \in {"build", "refused", "run", "update", "apply"}
    /\ cmPc \in {"build", "refused"} => \A e \in CmEnv : ~ (commandCounter[e] > 0)
    /\ \A e \in CmEnv : Remembers(e)
    /\ cmPc \in {"run", "apply"} => \A e \in CmEnv : commandCounter[e] > 0 => Obeys(e)

LEMMA ZeroVector == IsVector(Zero3)
BY DEF IsVector, Zero3

LEMMA YawSet ==
  ASSUME NEW v, IsVector(v), NEW c
  PROVE  [v EXCEPT !.yaw = c] = [x |-> v.x, y |-> v.y, yaw |-> c]
<1>1. PICK x, y, yaw : v = [x |-> x, y |-> y, yaw |-> yaw]
  BY Zenon DEF IsVector
<1>2. v.x = x /\ v.y = y
  BY <1>1
<1>3. [v EXCEPT !.yaw = c] = [x |-> x, y |-> y, yaw |-> c]
  BY <1>1
<1> QED
  BY <1>2, <1>3, Zenon

LEMMA AVector == \A x, y, yaw : IsVector([x |-> x, y |-> y, yaw |-> yaw])
BY DEF IsVector

LEMMA DrawIs ==
  ASSUME NEW d \in Draw
  PROVE  /\ IsVector(d.v) /\ IsVector(Resampled(d))
         /\ "heading" \in Kinds(d) => command.headingCommand
<1>1. /\ d.v \in [x : InRange(command.x), y : InRange(command.y), yaw : InRange(command.yaw)]
      /\ d.isHeading \in IF command.headingCommand THEN Bernoulli(command.heading) ELSE {FALSE}
  BY Zenon DEF Draw
<1>2. IsVector(d.v)
  BY <1>1 DEF IsVector
<1>3. IsVector(ForwardOnly(d.v))
  BY DEF IsVector, ForwardOnly
<1>4. "heading" \in Kinds(d) => d.isHeading
  BY DEF Kinds
<1> QED
  BY <1>1, <1>2, <1>3, <1>4 DEF Resampled

\* Bringing a row up to date.
LEMMA Updated ==
  ASSUME NEW e \in CmEnv, Remembers(e), commandCounter[e] > 0, UpdateCommand(vel, velW, kindOf, target),
         UNCHANGED <<command, heading, target, kindOf, commandCounter, drawnVel>>
  PROVE  Obeys(e)'
<1> DEFINE k == kindOf[e]
           v == SteerHeading(vel[e], e, k, target[e])
           w == HoldWorld(v, velW[e], e, k)
           inBody == IntoBody(velW[e], heading[e])
<1>1. vel'[e] = Stand(w, k) /\ (IF "standing" \in k THEN TRUE ELSE velW[e] = drawnVel[e])
      /\ IsVector(vel[e]) /\ ("heading" \in k => command.headingCommand)
  BY DEF UpdateCommand, Remembers
<1>2. /\ IsVector(v)
      /\ "heading" \in k => v.yaw = Clip(command.stiffness * WrapToPi(target[e] - heading[e]), command.yaw)
  <2> DEFINE c == Clip(command.stiffness * WrapToPi(target[e] - heading[e]), command.yaw)
             u == vel[e]
  <2>1. v = IF command.headingCommand /\ "heading" \in k THEN [u EXCEPT !.yaw = c] ELSE u
    BY DEF SteerHeading
  <2> HIDE DEF v, c, u, k
  <2>2. IsVector(u) /\ ("heading" \in k => command.headingCommand)
    BY <1>1 DEF u, k
  <2>3. [u EXCEPT !.yaw = c] = [x |-> u.x, y |-> u.y, yaw |-> c]
    BY <2>2, YawSet
  <2>4. IsVector(v) /\ ("heading" \in k => v.yaw = c)
    BY <2>1, <2>2, <2>3, AVector
  <2> QED
    BY <2>4 DEF c
<1>3. /\ w.yaw = v.yaw
      /\ "world" \in k => w.x = inBody.x /\ w.y = inBody.y
  <2> HIDE DEF v
  <2>1. CASE "world" \in k
    <3>1. w = [x |-> inBody.x, y |-> inBody.y, yaw |-> v.yaw]
      BY <2>1 DEF HoldWorld
    <3> HIDE DEF w, inBody
    <3> QED
      BY <3>1
  <2>2. CASE "world" \notin k
    BY <2>2 DEF HoldWorld
  <2> QED
    BY <2>1, <2>2
<1> HIDE DEF v, w
<1>4. CASE "standing" \in k
  BY <1>1, <1>4 DEF Stand, Obeys
<1>5. CASE "standing" \notin k
  <2>1. vel'[e] = w /\ velW[e] = drawnVel[e]
    BY <1>1, <1>5 DEF Stand
  <2>2. inBody = IntoBody(drawnVel[e], heading[e])
    BY <2>1
  <2> HIDE DEF inBody
  <2> QED
    BY <1>2, <1>3, <1>5, <2>1, <2>2 DEF Obeys, IntoBody
<1> QED
  BY <1>4, <1>5

LEMMA UpdatedVector ==
  ASSUME NEW e \in CmEnv, Remembers(e), UpdateCommand(vel, velW, kindOf, target),
         UNCHANGED <<command, heading, target, kindOf, commandCounter, drawnVel>>
  PROVE  Remembers(e)'
<1> DEFINE k == kindOf[e]
           v == SteerHeading(vel[e], e, k, target[e])
           w == HoldWorld(v, velW[e], e, k)
           inBody == IntoBody(velW[e], heading[e])
<1>1. vel'[e] = Stand(w, k) /\ velW'[e] = (IF "standing" \in k THEN Zero3 ELSE velW[e])
  BY DEF UpdateCommand
<1>2. IsVector(v)
  <2> DEFINE c == Clip(command.stiffness * WrapToPi(target[e] - heading[e]), command.yaw)
             u == vel[e]
  <2>1. v = u \/ v = [u EXCEPT !.yaw = c]
    BY DEF SteerHeading
  <2>2. IsVector(u)
    BY DEF Remembers
  <2> HIDE DEF v, c, u
  <2>3. [u EXCEPT !.yaw = c] = [x |-> u.x, y |-> u.y, yaw |-> c]
    BY <2>2, YawSet
  <2> QED
    BY <2>1, <2>2, <2>3, AVector
<1> HIDE DEF v
<1>3. w = IF "world" \in k THEN [x |-> inBody.x, y |-> inBody.y, yaw |-> v.yaw] ELSE v
  BY DEF HoldWorld
<1> HIDE DEF w, inBody
<1>4. IsVector(w)
  BY <1>2, <1>3, AVector
<1>5. IsVector(Stand(w, k))
  BY <1>4, ZeroVector DEF Stand
<1> QED
  BY <1>1, <1>5 DEF Remembers

\* A resampling of some rows.
LEMMA ResampledRows ==
  ASSUME NEW rows \in SUBSET CmEnv, NEW d \in [rows -> Draw], ResampleCommand(rows, d),
         \A e \in CmEnv : Remembers(e), UNCHANGED command,
         \A e \in CmEnv \ rows : commandCounter'[e] = commandCounter[e],
         NEW e \in CmEnv
  PROVE  Remembers(e)'
<1>1. CASE e \in rows
  <2>1. d[e] \in Draw
    BY <1>1
  <2>2. vel'[e] = Resampled(d[e]) /\ velW'[e] = d[e].v /\ drawnVel'[e] = d[e].v /\ kindOf'[e] = Kinds(d[e])
    BY <1>1 DEF ResampleCommand, Merge
  <2> QED
    BY <2>1, <2>2, DrawIs DEF Remembers
<1>2. CASE e \notin rows
  <2>1. vel'[e] = vel[e] /\ velW'[e] = velW[e] /\ drawnVel'[e] = drawnVel[e] /\ kindOf'[e] = kindOf[e]
        /\ commandCounter'[e] = commandCounter[e]
    BY <1>2 DEF ResampleCommand, Merge
  <2> QED
    BY <2>1 DEF Remembers
<1> QED
  BY <1>1, <1>2

LEMMA Compute_Holds == \A turned : CmInv /\ Compute(turned) => CmInv'
<1> SUFFICES ASSUME NEW turned, CmInv, Compute(turned) PROVE CmInv'
  OBVIOUS
<1>1. PICK d \in [ElapsedRows -> Draw] : ResampleCommand(ElapsedRows, d)
  BY DEF Compute
<1>2. /\ cmPc' = "update" /\ command' = command
      /\ \A e \in CmEnv \ ElapsedRows : commandCounter'[e] = commandCounter[e]
  BY DEF Compute
<1>3. PICK rows : rows = ElapsedRows
  OBVIOUS
<1>4. rows \in SUBSET CmEnv
  BY <1>3 DEF ElapsedRows
<1>5. ASSUME NEW e \in CmEnv PROVE Remembers(e)'
  BY <1>1, <1>2, <1>3, <1>4, ResampledRows DEF CmInv
<1> QED
  BY <1>2, <1>5 DEF CmInv

LEMMA ResetCommands_Holds == \A rows \in SUBSET CmEnv : \A turned : CmInv /\ ResetCommands(rows, turned) => CmInv'
<1> SUFFICES ASSUME NEW rows \in SUBSET CmEnv, NEW turned, CmInv, ResetCommands(rows, turned) PROVE CmInv'
  OBVIOUS
<1>1. PICK d \in [rows -> Draw] : ResampleCommand(rows, d)
  BY DEF ResetCommands
<1>2. /\ cmPc' = "update" /\ command' = command
      /\ \A e \in CmEnv \ rows : commandCounter'[e] = commandCounter[e]
  BY DEF ResetCommands
<1>3. ASSUME NEW e \in CmEnv PROVE Remembers(e)'
  BY <1>1, <1>2, ResampledRows DEF CmInv
<1> QED
  BY <1>2, <1>3 DEF CmInv

LEMMA Update_Holds == CmInv /\ Update => CmInv'
<1> SUFFICES ASSUME CmInv, Update PROVE CmInv'
  OBVIOUS
<1>1. /\ UpdateCommand(vel, velW, kindOf, target) /\ cmPc' = "run"
      /\ UNCHANGED <<command, heading, target, kindOf, commandCounter, drawnVel>>
  BY DEF Update
<1>2. ASSUME NEW e \in CmEnv PROVE Remembers(e)' /\ (commandCounter'[e] > 0 => Obeys(e)')
  BY <1>1, Updated, UpdatedVector DEF CmInv
<1> QED
  BY <1>1, <1>2 DEF CmInv

\* Nothing of a command changes.
LEMMA CommandKept ==
  ASSUME CmInv, UNCHANGED <<command, heading, vel, velW, target, kindOf, commandCounter, drawnVel>>,
         \/ cmPc' = cmPc
         \/ cmPc \in {"run", "apply"} /\ cmPc' \in {"run", "apply"}
         \/ cmPc = "build" /\ cmPc' \in {"run", "refused"}
  PROVE  CmInv'
<1>1. \A e \in CmEnv : Remembers(e)' <=> Remembers(e)
  BY Zenon DEF Remembers
<1>2. \A e \in CmEnv : Obeys(e)' <=> Obeys(e)
  BY Zenon DEF Obeys, IntoBody
<1> QED
  BY <1>1, <1>2 DEF CmInv

LEMMA CmInit_Holds == CmInit => CmInv
<1> SUFFICES ASSUME CmInit PROVE CmInv
  OBVIOUS
<1>1. cmPc = "build" /\ \A e \in CmEnv : vel[e] = Zero3 /\ kindOf[e] = {} /\ commandCounter[e] = 0
  BY DEF CmInit
<1> QED
  BY <1>1, ZeroVector DEF CmInv, Remembers

LEMMA CmNext_Holds == CmInv /\ [CmNext]_cmvars => CmInv'
<1> SUFFICES ASSUME CmInv, [CmNext]_cmvars PROVE CmInv'
  OBVIOUS
<1>1. CASE Build
  BY <1>1, CommandKept DEF Build, commandvars
<1>2. CASE Update
  BY <1>2, Update_Holds
<1>3. CASE ApplyActions
  BY <1>3, CommandKept DEF ApplyActions, commandvars
<1>4. ASSUME NEW turned \in [CmEnv -> 0 .. 1], Compute(turned) PROVE CmInv'
  BY <1>4, Compute_Holds
<1>5. ASSUME NEW rows \in SUBSET CmEnv \ {{}}, NEW turned \in [CmEnv -> 0 .. 1], ResetCommands(rows, turned) PROVE CmInv'
  BY <1>5, ResetCommands_Holds
<1>6. ASSUME NEW a \in RawActions, ProcessActions(a) PROVE CmInv'
  BY <1>6, CommandKept DEF ProcessActions, commandvars
<1>7. CASE UNCHANGED cmvars
  BY <1>7, CommandKept DEF cmvars, commandvars
<1> QED
  BY <1>1, <1>2, <1>3, <1>4, <1>5, <1>6, <1>7 DEF CmNext

\* For any ranges, probabilities, headings and resets: between computes a row's command is what
\* was drawn for it last, seen from where the robot faces now (velocity_command.py).
THEOREM CommandStaysDrawn == CmSpec => []CommandOfLastDraw
<1>1. CmInv => CommandOfLastDraw
  BY Zenon DEF CmInv, CommandOfLastDraw, Obeys
<1> QED
  BY <1>1, CmInit_Holds, CmNext_Holds, PTL DEF CmSpec

------------------------------------------------------------------------------
(* Entities: a place in an order is the number of places up to it.             *)

Orders(U, S) ==
    /\ \A i \in S : i \in U[i]
    /\ \A i, j \in S : i \in U[j] \/ j \in U[i]
    /\ \A i, j \in S : i \in U[j] /\ j \in U[i] => i = j
    /\ \A i, j \in S : i \in U[j] => U[i] \subseteq U[j]

LEMMA Ranked ==
  ASSUME NEW S, IsFiniteSet(S), NEW U \in [S -> SUBSET S], Orders(U, S)
  PROVE  /\ Cardinality(S) \in Nat
         /\ \A i, j \in S : Cardinality(U[i]) = Cardinality(U[j]) => i = j
         /\ \A n \in 1 .. Cardinality(S) : \E i \in S : Cardinality(U[i]) = n
<1> DEFINE rank == [i \in S |-> Cardinality(U[i])]
           N == 1 .. Cardinality(S)
<1>1. Cardinality(S) \in Nat
  BY FS_CardinalityType
<1>2. ASSUME NEW i \in S PROVE IsFiniteSet(U[i]) /\ Cardinality(U[i]) \in N
  <2>1. U[i] \subseteq S /\ i \in U[i]
    BY DEF Orders
  <2>2. IsFiniteSet(U[i]) /\ Cardinality(U[i]) <= Cardinality(S)
    BY <2>1, FS_Subset
  <2>3. Cardinality(U[i]) \in Nat /\ Cardinality(U[i]) # 0
    BY <2>1, <2>2, FS_CardinalityType, FS_EmptySet
  <2> QED
    BY <1>1, <2>2, <2>3
<1>3. ASSUME NEW i \in S, NEW j \in S, Cardinality(U[i]) = Cardinality(U[j]), i \in U[j] PROVE i = j
  <2>1. U[i] \subseteq U[j]
    BY <1>3 DEF Orders
  <2>2. U[i] = U[j]
    BY <1>2, <1>3, <2>1, FS_Subset
  <2> QED
    BY <1>3, <2>2 DEF Orders
<1>4. ASSUME NEW i \in S, NEW j \in S, Cardinality(U[i]) = Cardinality(U[j]) PROVE i = j
  BY <1>3, <1>4 DEF Orders
<1>5. rank \in Injection(S, N)
  <2>1. rank \in [S -> N]
    BY <1>2
  <2>2. \A a, b \in S : rank[a] = rank[b] => a = b
    BY <1>4
  <2>3. DOMAIN rank = S
    OBVIOUS
  <2> HIDE DEF rank
  <2> QED
    BY <2>1, <2>2, <2>3 DEF Injection, IsInjective
<1>6. IsFiniteSet(N) /\ Cardinality(N) = Cardinality(S)
  BY <1>1, FS_Interval
<1>7. rank \in Surjection(S, N)
  <2> HIDE DEF rank, N
  <2> QED
    BY <1>5, <1>6, FS_Injection
<1>8. \A n \in N : \E i \in S : rank[i] = n
  <2> HIDE DEF rank, N
  <2> QED
    BY <1>7 DEF Surjection
<1> QED
  BY <1>1, <1>4, <1>8

LEMMA UpToOrders ==
  ASSUME NEW ps, DOMAIN ps \subseteq Nat, NEW names, DOMAIN names \subseteq Nat, NEW keep \in BOOLEAN
  PROVE  /\ UpTo(ps, names, keep) \in [Found(ps, names) -> SUBSET Found(ps, names)]
         /\ Orders(UpTo(ps, names, keep), Found(ps, names))
<1> DEFINE F == Found(ps, names)
           key(x) == IF keep THEN PatternOf(ps, names[x]) ELSE 0
           U == UpTo(ps, names, keep)
<1>1. F \subseteq Nat
  BY DEF Found
<1>2. ASSUME NEW x \in F PROVE key(x) \in Nat
  <2>1. \E k \in DOMAIN ps : names[x] \in ps[k]
    BY DEF Found
  <2>2. PatternOf(ps, names[x]) \in DOMAIN ps
    BY <2>1 DEF PatternOf
  <2> QED
    BY <2>2
<1>3. U = [i \in F |-> {j \in F : key(j) < key(i) \/ (key(j) = key(i) /\ j <= i)}]
  BY DEF UpTo, NotAfter
<1> HIDE DEF F, key, U
<1>4. \A i, j \in F : j \in U[i] <=> key(j) < key(i) \/ (key(j) = key(i) /\ j <= i)
  BY <1>3
<1>5. U \in [F -> SUBSET F]
  BY <1>3
<1>6. /\ \A i \in F : i \in U[i]
      /\ \A i, j \in F : i \in U[j] \/ j \in U[i]
      /\ \A i, j \in F : i \in U[j] /\ j \in U[i] => i = j
  BY <1>1, <1>2, <1>4
<1>7. ASSUME NEW i \in F, NEW j \in F, i \in U[j], NEW x \in U[i] PROVE x \in U[j]
  <2>1. x \in F
    BY <1>5
  <2> QED
    BY <1>1, <1>2, <1>4, <1>7, <2>1
<1> QED
  BY <1>5, <1>6, <1>7 DEF Orders, F, U

LEMMA FoundFinite ==
  ASSUME NEW ps, NEW names, NEW n \in Nat, DOMAIN names = 1 .. n
  PROVE  IsFiniteSet(Found(ps, names)) /\ Found(ps, names) \subseteq 1 .. n
<1>1. Found(ps, names) \subseteq 1 .. n
  BY DEF Found
<1>2. IsFiniteSet(1 .. n)
  BY FS_Interval
<1> QED
  BY <1>1, <1>2, FS_Subset

\* The places found are places in the list of names.
LEMMA MatchedPlaces ==
  ASSUME NEW ps, DOMAIN ps \subseteq Nat, NEW names, NEW n \in Nat, DOMAIN names = 1 .. n, NEW keep \in BOOLEAN
  PROVE  /\ Cardinality(Found(ps, names)) \in Nat
         /\ MatchedIds(ps, names, keep) \in [1 .. Cardinality(Found(ps, names)) -> 1 .. n]
<1> DEFINE F == Found(ps, names)
           U == UpTo(ps, names, keep)
           M == MatchedIds(ps, names, keep)
<1>1. IsFiniteSet(F) /\ F \subseteq 1 .. n
  BY FoundFinite
<1>2. U \in [F -> SUBSET F] /\ Orders(U, F)
  BY UpToOrders
<1>3. M = [k \in 1 .. Cardinality(F) |-> CHOOSE i \in F : Cardinality(U[i]) = k]
  BY DEF MatchedIds
<1> HIDE DEF F, U, M
<1>4. Cardinality(F) \in Nat /\ \A k \in 1 .. Cardinality(F) : \E i \in F : Cardinality(U[i]) = k
  BY <1>1, <1>2, Ranked
<1>5. \A k \in 1 .. Cardinality(F) : (CHOOSE i \in F : Cardinality(U[i]) = k) \in F
  BY <1>4
<1>6. M \in [1 .. Cardinality(F) -> 1 .. n]
  BY <1>1, <1>3, <1>5
<1> QED
  BY <1>4, <1>6 DEF F, M

Places(places, names) == \E m \in Nat : places \in [1 .. m -> DOMAIN names]
NamesAt(places, names) == [i \in DOMAIN places |-> {names[places[i]]}]

Listed(places, names, keep) ==
    /\ \E n \in Nat : DOMAIN names = 1 .. n
    /\ IsInjective(names) /\ Places(places, names) /\ keep \in BOOLEAN
    /\ IF keep THEN IsInjective(places) ELSE InNaturalOrder(places)

\* The names at given places, matched again, are found at these places.
LEMMA MatchedAgain ==
  \A names, places, keep : Listed(places, names, keep) =>
     Matchable(NamesAt(places, names), names) /\ MatchedIds(NamesAt(places, names), names, keep) = places
<1> SUFFICES ASSUME NEW names, NEW places, NEW keep, Listed(places, names, keep)
             PROVE  Matchable(NamesAt(places, names), names) /\ MatchedIds(NamesAt(places, names), names, keep) = places
  OBVIOUS
<1> DEFINE ps == NamesAt(places, names)
<1>1. PICK n \in Nat : DOMAIN names = 1 .. n
  BY DEF Listed
<1>2. PICK m \in Nat : places \in [1 .. m -> 1 .. n]
  BY <1>1 DEF Listed, Places
<1>3. IsInjective(names) /\ keep \in BOOLEAN /\ IF keep THEN IsInjective(places) ELSE InNaturalOrder(places)
  BY DEF Listed
<1>4. ps = [i \in 1 .. m |-> {names[places[i]]}]
  BY <1>2 DEF NamesAt
<1> HIDE DEF ps
<1>5. n \in Nat /\ m \in Nat
  OBVIOUS
<1> USE <1>1, <1>2, <1>3, <1>4
<1> DEFINE F == Found(ps, names)
           U == UpTo(ps, names, keep)
           M == MatchedIds(ps, names, keep)
           R(k) == {places[i] : i \in 1 .. k}
<1>6. \A i, j \in 1 .. n : names[i] = names[j] => i = j
  BY DEF IsInjective
<1>7. DOMAIN places = 1 .. m /\ \A i \in 1 .. m : places[i] \in 1 .. n
  OBVIOUS
<1>8. \A i, j \in 1 .. m : places[i] = places[j] => i = j
  <2>1. CASE keep
    BY <1>7, <2>1 DEF IsInjective
  <2>2. CASE ~keep
    <3>1. InNaturalOrder(places)
      BY <2>2
    <3>2. \A i, j \in 1 .. m : i < j => places[i] < places[j]
      BY <1>7, <3>1 DEF InNaturalOrder
    <3> QED
      BY <1>7, <3>2
  <2> QED
    BY <2>1, <2>2
<1>9. DOMAIN ps = 1 .. m /\ \A i \in 1 .. m : ps[i] = {names[places[i]]}
  OBVIOUS
<1>10. F = R(m)
  <2>1. \A i \in 1 .. n : i \in F <=> \E k \in 1 .. m : names[i] = names[places[k]]
    BY <1>9 DEF Found
  <2>2. F \subseteq 1 .. n
    BY DEF Found
  <2> HIDE DEF F
  <2>3. ASSUME NEW x \in F PROVE x \in R(m)
    <3>1. PICK k \in 1 .. m : names[x] = names[places[k]]
      BY <2>1, <2>2
    <3>2. x = places[k]
      BY <1>6, <1>7, <2>2, <3>1
    <3> QED
      BY <3>2
  <2>4. ASSUME NEW x \in R(m) PROVE x \in F
    <3>1. PICK k \in 1 .. m : x = places[k]
      OBVIOUS
    <3> QED
      BY <1>7, <2>1, <3>1
  <2> QED
    BY <2>3, <2>4
<1>11. ASSUME NEW i \in 1 .. m PROVE PatternOf(ps, names[places[i]]) = i
  <2>1. \A k \in 1 .. m : names[places[i]] \in ps[k] => k = i
    BY <1>6, <1>7, <1>8, <1>9
  <2>2. names[places[i]] \in ps[i]
    BY <1>9
  <2> QED
    BY <1>9, <2>1, <2>2, Zenon DEF PatternOf
<1>12. ASSUME NEW i \in 1 .. m, NEW j \in 1 .. m PROVE NotAfter(places[j], places[i], ps, names, keep) <=> j <= i
  <2>1. CASE keep
    <3>1. NotAfter(places[j], places[i], ps, names, keep) <=> j < i \/ (j = i /\ places[j] <= places[i])
      BY <1>11, <2>1 DEF NotAfter
    <3> QED
      BY <1>7, <3>1
  <2>2. CASE ~keep
    <3>1. NotAfter(places[j], places[i], ps, names, keep) <=> places[j] <= places[i]
      BY <2>2 DEF NotAfter
    <3>2. \A x, y \in 1 .. m : x < y => places[x] < places[y]
      BY <1>7, <2>2 DEF InNaturalOrder
    <3> QED
      BY <1>7, <3>1, <3>2
  <2> QED
    BY <2>1, <2>2
<1>13. ASSUME NEW k \in 0 .. m PROVE Cardinality(R(k)) = k
  <2> DEFINE f == [i \in 1 .. k |-> places[i]]
  <2>1. f \in Bijection(1 .. k, R(k))
    <3>1. f \in [1 .. k -> R(k)] /\ DOMAIN f = 1 .. k
      OBVIOUS
    <3>2. \A a, b \in 1 .. k : f[a] = f[b] => a = b
      BY <1>8
    <3>3. \A t \in R(k) : \E s \in 1 .. k : f[s] = t
      OBVIOUS
    <3> HIDE DEF f, R
    <3> QED
      BY <3>1, <3>2, <3>3 DEF Bijection, Injection, Surjection, IsInjective
  <2>2. ExistsBijection(1 .. k, R(k))
    BY <2>1, Zenon DEF ExistsBijection
  <2> QED
    BY <2>2, FS_CountingElements
<1>14. ASSUME NEW i \in 1 .. m PROVE U[places[i]] = R(i)
  <2>1. places[i] \in F
    BY <1>10
  <2>2. U[places[i]] = {j \in F : NotAfter(j, places[i], ps, names, keep)}
    BY <2>1 DEF UpTo
  <2> HIDE DEF F, U
  <2>3. \A j \in 1 .. m : places[j] \in U[places[i]] <=> j <= i
    BY <1>10, <1>12, <2>2
  <2>4. U[places[i]] \subseteq R(m)
    BY <1>10, <2>2
  <2>5. ASSUME NEW x \in U[places[i]] PROVE x \in R(i)
    <3>1. PICK j \in 1 .. m : x = places[j]
      BY <2>4
    <3> QED
      BY <2>3, <3>1
  <2>6. ASSUME NEW x \in R(i) PROVE x \in U[places[i]]
    <3>1. PICK j \in 1 .. i : x = places[j]
      OBVIOUS
    <3> QED
      BY <2>3, <3>1
  <2> QED
    BY <2>5, <2>6
<1>15. M = [k \in 1 .. Cardinality(F) |-> CHOOSE i \in F : Cardinality(U[i]) = k]
  BY DEF MatchedIds
<1>16. Cardinality(F) = m
  <2> HIDE DEF F, R
  <2>1. m \in 0 .. m
    BY <1>5
  <2> QED
    BY <1>10, <1>13, <2>1
<1>17. \A x : x \in F <=> \E j \in 1 .. m : x = places[j]
  BY <1>10
<1>18. \A j \in 1 .. m : Cardinality(U[places[j]]) = j
  <2> HIDE DEF R, U
  <2> QED
    BY <1>13, <1>14
<1> HIDE DEF F, U, M, R
<1>19. ASSUME NEW k \in 1 .. m PROVE M[k] = places[k]
  <2>1. M[k] = CHOOSE i \in F : Cardinality(U[i]) = k
    BY <1>15, <1>16
  <2>2. places[k] \in F /\ Cardinality(U[places[k]]) = k
    BY <1>17, <1>18
  <2>3. ASSUME NEW i \in F, Cardinality(U[i]) = k PROVE i = places[k]
    <3>1. PICK j \in 1 .. m : i = places[j]
      BY <1>17
    <3>2. Cardinality(U[i]) = j
      BY <1>18, <3>1
    <3> QED
      BY <2>3, <3>1, <3>2
  <2> QED
    BY <2>1, <2>2, <2>3, Zenon
<1>20. M = places
  BY <1>15, <1>16, <1>19
<1>21. Matchable(ps, names)
  <2>1. ASSUME NEW i \in 1 .. m, NEW j \in 1 .. m, i # j PROVE ps[i] \cap ps[j] \cap ToSet(names) = {}
    BY <1>6, <1>7, <1>8, <1>9, <2>1
  <2>2. ASSUME NEW i \in 1 .. m PROVE ps[i] \cap ToSet(names) # {}
    <3>1. names[places[i]] \in ToSet(names)
      BY DEF ToSet
    <3> QED
      BY <1>9, <3>1
  <2> QED
    BY <1>9, <2>1, <2>2 DEF Matchable
<1> QED
  BY <1>20, <1>21 DEF M, ps

IsSelector(s) ==
    /\ s = [entity |-> s.entity, names |-> s.names, ids |-> s.ids, keep |-> s.keep]
    /\ s.entity \in Entities /\ s.keep \in BOOLEAN

\* The names of a selector are those at the places its ids stand for.
IdsOf(s, names) == IF s.ids = AllIds THEN [i \in DOMAIN names |-> i] ELSE s.ids

SelectsPlaces(s, names) ==
    /\ names # Undeclared
    /\ Places(IdsOf(s, names), names)
    /\ s.names = NamesAt(IdsOf(s, names), names)

LEMMA WholePlaces ==
  ASSUME NEW names, NEW n \in Nat, DOMAIN names = 1 .. n
  PROVE  /\ Places([i \in DOMAIN names |-> i], names)
         /\ NamesAt([i \in DOMAIN names |-> i], names) = [i \in 1 .. n |-> {names[i]}]
<1> DEFINE d == [i \in DOMAIN names |-> i]
<1>1. d \in [1 .. n -> DOMAIN names]
  OBVIOUS
<1>2. DOMAIN d = 1 .. n /\ \A i \in 1 .. n : d[i] = i
  OBVIOUS
<1> HIDE DEF d
<1>3. Places(d, names)
  BY <1>1 DEF Places
<1>4. NamesAt(d, names) = [i \in 1 .. n |-> {names[i]}]
  BY <1>2 DEF NamesAt
<1> QED
  BY <1>3, <1>4 DEF d

LEMMA SelectedNames ==
  ASSUME NEW s, IsSelector(s), NEW names, NEW n \in Nat, DOMAIN names = 1 .. n,
         names = [i \in 1 .. n |-> names[i]], names # Undeclared, DOMAIN s.names \subseteq Nat,
         s.ids = AllIds
  PROVE  LET r == ResolveNamesToIds(s, names)
         IN IsSelector(r) /\ r.entity = s.entity /\ r.keep = s.keep /\ SelectsPlaces(r, names)
<1> DEFINE M == MatchedIds(s.names, names, s.keep)
           found == MatchedNames(s.names, names, s.keep)
           r == ResolveNamesToIds(s, names)
<1>1. s.entity \in Entities /\ s.keep \in BOOLEAN
  BY DEF IsSelector
<1>2. PICK m \in Nat : M \in [1 .. m -> 1 .. n]
  BY <1>1, MatchedPlaces
<1>3. found = [i \in DOMAIN M |-> names[M[i]]]
  BY DEF MatchedNames
<1>4. Exactly(found) = NamesAt(M, names)
  <2> HIDE DEF M, found
  <2> QED
    BY <1>3 DEF Exactly, NamesAt
<1>5. r = [entity |-> s.entity, names |-> NamesAt(M, names), keep |-> s.keep,
           ids |-> IF found = names THEN AllIds ELSE M]
  BY <1>4 DEF ResolveNamesToIds
<1> HIDE DEF M, r
<1>6. /\ IsSelector(r) /\ r.entity = s.entity /\ r.keep = s.keep
      /\ r.names = NamesAt(M, names) /\ r.ids = (IF found = names THEN AllIds ELSE M)
  BY <1>1, <1>5 DEF IsSelector
<1>7. Places(M, names)
  BY <1>2 DEF Places
<1>8. ASSUME found = names PROVE SelectsPlaces(r, names)
  <2>1. DOMAIN M = 1 .. n /\ \A i \in 1 .. n : names[M[i]] = names[i]
    BY <1>3, <1>8
  <2>2. NamesAt(M, names) = [i \in 1 .. n |-> {names[i]}]
    BY <2>1 DEF NamesAt
  <2>3. IdsOf(r, names) = [i \in DOMAIN names |-> i]
    BY <1>6, <1>8 DEF IdsOf
  <2>4. Places(IdsOf(r, names), names) /\ r.names = NamesAt(IdsOf(r, names), names)
    BY <1>6, <2>2, <2>3, WholePlaces, Zenon
  <2> QED
    BY <1>6, <2>4, Zenon DEF SelectsPlaces
<1>9. ASSUME found # names PROVE SelectsPlaces(r, names)
  <2>1. M # AllIds
    <3>1. SUFFICES ASSUME M = AllIds PROVE FALSE
      OBVIOUS
    <3>2. 1 \in DOMAIN M /\ M[1] = 0
      BY <3>1 DEF AllIds
    <3>3. M[1] \in 1 .. n
      BY <1>2, <3>2
    <3> QED
      BY <3>2, <3>3
  <2>2. IdsOf(r, names) = M
    BY <1>6, <1>9, <2>1 DEF IdsOf
  <2> QED
    BY <1>6, <1>7, <2>2, Zenon DEF SelectsPlaces
<1> QED
  BY <1>6, <1>8, <1>9 DEF r

\* What a resolution returns names the places its ids stand for.
LEMMA ResolvedSelects ==
  ASSUME NEW s, IsSelector(s), NEW names, NEW n \in Nat, DOMAIN names = 1 .. n,
         names = [i \in 1 .. n |-> names[i]], DOMAIN s.names \subseteq Nat, s.ids \in Seq(Int),
         Resolves(s, names), ~NothingSelected(s)
  PROVE  LET r == ResolveField(s, names)
         IN IsSelector(r) /\ r.entity = s.entity /\ r.keep = s.keep /\ SelectsPlaces(r, names)
<1> DEFINE r == ResolveField(s, names)
<1>1. names # Undeclared
  BY DEF Resolves
<1>2. CASE s.ids = AllIds
  <2>1. r = ResolveNamesToIds(s, names)
    BY <1>2 DEF ResolveField, NothingSelected
  <2> QED
    BY <1>1, <1>2, <2>1, SelectedNames
<1>3. CASE s.ids # AllIds
  <2>1. ToSet(s.ids) \subseteq DOMAIN names
    BY <1>3 DEF Resolves, NothingSelected, ValidateIds, ValidateConsistency
  <2>2. Len(s.ids) \in Nat /\ s.ids \in [1 .. Len(s.ids) -> Int]
    OBVIOUS
  <2>3. \A i \in 1 .. Len(s.ids) : s.ids[i] \in DOMAIN names
    BY <2>1, <2>2 DEF ToSet
  <2>4. s.ids \in [1 .. Len(s.ids) -> DOMAIN names]
    BY <2>2, <2>3
  <2>5. Places(s.ids, names)
    BY <2>2, <2>4 DEF Places
  <2>6. IsSelector(r) /\ r.entity = s.entity /\ r.keep = s.keep /\ r.ids = s.ids /\ r.names = NamesAt(s.ids, names)
    <3>1. CASE s.names = NotGiven
      <4>1. r = [s EXCEPT !.names = NamesAt(s.ids, names)]
        BY <1>3, <3>1 DEF ResolveField, ResolveIdsToNames, NamesAt
      <4> HIDE DEF r
      <4> QED
        BY <4>1 DEF IsSelector
    <3>2. CASE s.names # NotGiven
      <4>1. r = s
        BY <1>3, <3>2 DEF ResolveField
      <4>2. s.names = NamesAt(s.ids, names)
        BY <1>3, <3>2, Zenon DEF Resolves, NothingSelected, ValidateConsistency, NamesAt
      <4> HIDE DEF r
      <4> QED
        BY <4>1, <4>2
    <3> QED
      BY <3>1, <3>2
  <2>7. IdsOf(r, names) = s.ids
    BY <1>3, <2>6 DEF IdsOf
  <2> HIDE DEF r
  <2>8. SelectsPlaces(r, names)
    BY <1>1, <2>5, <2>6, <2>7 DEF SelectsPlaces
  <2> QED
    BY <2>6, <2>8 DEF r
<1> QED
  BY <1>2, <1>3

\* Resolved once more, such a selector stays as it is.
LEMMA SelectsStable ==
  ASSUME NEW s, IsSelector(s), NEW names, NEW n \in Nat, DOMAIN names = 1 .. n,
         names = [i \in 1 .. n |-> names[i]], IsInjective(names), SelectsPlaces(s, names),
         IF s.keep THEN IsInjective(IdsOf(s, names)) ELSE InNaturalOrder(IdsOf(s, names)),
         ~NothingSelected(s)
  PROVE  Resolves(s, names) /\ ResolveField(s, names) = s
<1> DEFINE places == IdsOf(s, names)
<1>1. PICK m \in Nat : places \in [1 .. m -> 1 .. n]
  BY DEF SelectsPlaces, Places
<1>2. s.names = [i \in 1 .. m |-> {names[places[i]]}] /\ names # Undeclared
  BY <1>1 DEF SelectsPlaces, NamesAt
<1>3. s.keep \in BOOLEAN
  BY DEF IsSelector
<1>4. Matchable(s.names, names) /\ MatchedIds(s.names, names, s.keep) = places
  <2>1. Listed(places, names, s.keep)
    BY <1>3, Zenon DEF Listed, SelectsPlaces
  <2>2. s.names = NamesAt(places, names)
    BY DEF SelectsPlaces
  <2> QED
    BY <2>1, <2>2, MatchedAgain, Zenon
<1>5. CASE s.ids = AllIds
  <2>1. places = [i \in 1 .. n |-> i]
    BY <1>5 DEF IdsOf
  <2>2. s.names # NotGiven
    BY <1>5 DEF NothingSelected
  <2>3. MatchedNames(s.names, names, s.keep) = names
    <3> HIDE DEF places
    <3> QED
      BY <1>4, <2>1 DEF MatchedNames
  <2>4. Exactly(names) = s.names
    <3>1. Exactly(names) = [i \in 1 .. n |-> {names[i]}]
      BY DEF Exactly
    <3>2. s.names = NamesAt([i \in DOMAIN names |-> i], names)
      BY <1>5 DEF SelectsPlaces, IdsOf
    <3> QED
      BY <3>1, <3>2, WholePlaces
  <2>5. ResolveNamesToIds(s, names) = [entity |-> s.entity, names |-> s.names, keep |-> s.keep, ids |-> AllIds]
    BY <2>3, <2>4 DEF ResolveNamesToIds
  <2>6. ResolveField(s, names) = s
    BY <1>5, <2>2, <2>5 DEF ResolveField, IsSelector
  <2> QED
    BY <1>2, <1>4, <1>5, <2>2, <2>6 DEF Resolves
<1>6. CASE s.ids # AllIds
  <2>1. places = s.ids
    BY <1>6 DEF IdsOf
  <2>2. DOMAIN s.ids = 1 .. m /\ \A i \in 1 .. m : s.ids[i] \in 1 .. n
    BY <1>1, <2>1
  <2>3. ValidateIds(s.ids, names)
    BY <2>2 DEF ValidateIds, ToSet
  <2>4. s.names = [i \in DOMAIN s.ids |-> {names[s.ids[i]]}]
    BY <1>2, <2>1, <2>2
  <2>5. ValidateConsistency(s, names)
    BY <1>4, <2>1, <2>3, <2>4, Zenon DEF ValidateConsistency
  <2>6. [s EXCEPT !.names = s.names] = s
    BY DEF IsSelector
  <2>7. ResolveIdsToNames(s, names) = s
    BY <2>4, <2>6, Zenon DEF ResolveIdsToNames
  <2>8. ResolveField(s, names) = s
    BY <1>6, <2>7, Zenon DEF ResolveField
  <2>9. Resolves(s, names)
    BY <1>2, <1>6, <2>3, <2>5, Zenon DEF Resolves
  <2> QED
    BY <2>8, <2>9
<1> QED
  BY <1>5, <1>6

\* Where a name is in a list.
LEMMA PositionIs ==
  ASSUME NEW list, NEW name, name \in ToSet(list)
  PROVE  PositionOf(name, list) \in DOMAIN list /\ list[PositionOf(name, list)] = name
<1>1. \E i \in DOMAIN list : list[i] = name
  BY DEF ToSet
<1> QED
  BY <1>1, Zenon DEF PositionOf

ColumnsOf(c, places) == Columns(c, [i \in DOMAIN places |-> JointToActuator(c)[places[i]]])

Drives(c, places, m) ==
    /\ DOMAIN ColumnsOf(c, places) = 1 .. m /\ IsInjective(ColumnsOf(c, places))
    /\ \A i \in 1 .. m : \A k :
         (k \in ToSet(ResolveIds(c.actuators, BackendActuators)) /\ ActuatorJoint[k] = c.joints[places[i]])
           <=> k = ColumnsOf(c, places)[i]

\* A joint that has an actuator of the entity has one, and its column drives it.
LEMMA ColumnsDrive ==
  ASSUME NEW c, EntityAccepted(c), NEW m \in Nat, NEW places \in [1 .. m -> DOMAIN c.joints], Writable(c, places)
  PROVE  Drives(c, places, m)
<1> DEFINE acts == [i \in DOMAIN places |-> JointToActuator(c)[places[i]]]
           cols == ColumnsOf(c, places)
           T == TargetNames(c)
           P(a) == PositionOf(c.actuators[a], BackendActuators)
           A == DOMAIN c.actuators
<1>1. DOMAIN places = 1 .. m /\ \A i \in 1 .. m : places[i] \in DOMAIN c.joints
  OBVIOUS
<1>2. Mapped(c) /\ IsInjective(places) /\ \A i \in 1 .. m : JointToActuator(c)[places[i]] # 0
  BY <1>1 DEF Writable
<1>3. IsInjective(T) /\ IsInjective(c.joints)
  BY <1>2, Zenon DEF EntityAccepted, JointActuatorMapping, NormalizeNames, Mapped
<1>4. DOMAIN T = A /\ \A a \in A : T[a] = ActuatorJoint[P(a)]
  BY DEF TargetNames
<1>5. ASSUME NEW i \in 1 .. m PROVE acts[i] \in A /\ T[acts[i]] = c.joints[places[i]]
  <2>1. acts[i] = JointToActuator(c)[places[i]] /\ acts[i] # 0
    BY <1>1, <1>2
  <2>2. JointToActuator(c)[places[i]] = IF c.joints[places[i]] \in ToSet(T) THEN PositionOf(c.joints[places[i]], T) ELSE 0
    BY <1>1 DEF JointToActuator
  <2> HIDE DEF acts, T
  <2> QED
    BY <1>4, <2>1, <2>2, PositionIs
<1>6. DOMAIN cols = 1 .. m /\ \A i \in 1 .. m : cols[i] = P(acts[i])
  <2>1. DOMAIN acts = 1 .. m /\ cols = [i \in DOMAIN acts |-> ResolveIds(c.actuators, BackendActuators)[acts[i]]]
    BY <1>1 DEF ColumnsOf, Columns
  <2>2. \A a \in A : ResolveIds(c.actuators, BackendActuators)[a] = P(a)
    BY DEF ResolveIds
  <2> HIDE DEF acts, cols, P, A
  <2> QED
    BY <1>5, <2>1, <2>2
<1>7. \A k : k \in ToSet(ResolveIds(c.actuators, BackendActuators)) <=> \E a \in A : k = P(a)
  BY DEF ToSet, ResolveIds
<1> HIDE DEF acts, cols, P, A, T
<1>8. \A a, b \in A : T[a] = T[b] => a = b
  BY <1>3, <1>4 DEF IsInjective
<1>9. ASSUME NEW i \in 1 .. m PROVE \A k :
         (k \in ToSet(ResolveIds(c.actuators, BackendActuators)) /\ ActuatorJoint[k] = c.joints[places[i]]) <=> k = cols[i]
  BY <1>4, <1>5, <1>6, <1>7, <1>8
<1>10. ASSUME NEW i \in 1 .. m, NEW j \in 1 .. m, cols[i] = cols[j] PROVE i = j
  <2>1. c.joints[places[i]] = c.joints[places[j]]
    BY <1>9, <1>10
  <2>2. places[i] = places[j]
    BY <1>1, <1>3, <2>1 DEF IsInjective
  <2> QED
    BY <1>1, <1>2, <2>2 DEF IsInjective
<1>11. IsInjective(cols)
  BY <1>6, <1>10 DEF IsInjective
<1> QED
  BY <1>6, <1>9, <1>11 DEF cols, Drives

\* A selector's places in the entity it selects from; control has a column for each actuator.
ScInv ==
    /\ cfgs \in SceneConfigs
    /\ scPc = "built" => \A n \in Entities : EntityAccepted(cfgs[n])
    /\ IsSelector(selector) /\ DOMAIN selector.names \subseteq Nat /\ selector.ids \in Seq(Int) \cup {AllIds}
    /\ selState = "resolved" =>
          /\ scPc = "built"
          /\ NothingSelected(selector) \/ SelectsPlaces(selector, cfgs[selector.entity].joints)
    /\ \A e \in ScEnv : DOMAIN control[e] = DOMAIN BackendActuators
    /\ TargetReachesItsJoint

LEMMA JointsListed ==
  ASSUME NEW f \in SceneConfigs, NEW n \in Entities
  PROVE  /\ Len(f[n].joints) \in Nat /\ DOMAIN f[n].joints = 1 .. Len(f[n].joints)
         /\ f[n].joints = [i \in 1 .. Len(f[n].joints) |-> f[n].joints[i]]
<1>1. PICK joints : joints = f[n].joints
  OBVIOUS
<1>2. joints \in Seq(ToSet(joints))
  BY <1>1, SceneAssumption
<1>3. Len(joints) \in Nat /\ DOMAIN joints = 1 .. Len(joints) /\ joints = [i \in 1 .. Len(joints) |-> joints[i]]
  BY <1>2
<1> QED
  BY <1>1, <1>3

\* The column of a joint that is asked for gets its value, the others keep theirs.
LEMMA Arrives ==
  ASSUME ScInv, scPc = "built", NEW n \in Entities, NEW rows, NEW places, NEW values,
         Places(places, cfgs[n].joints), SetJointTarget(n, rows, places, values)
  PROVE  TargetReachesItsJoint' /\ \A e \in ScEnv : DOMAIN control'[e] = DOMAIN BackendActuators
<1>1. /\ before' = control /\ cfgs' = cfgs
      /\ EntityAccepted(cfgs[n])
      /\ \A e \in ScEnv : DOMAIN control[e] = DOMAIN BackendActuators
  BY DEF SetJointTarget, ScInv
<1>2. CASE ~Writable(cfgs[n], places)
  BY <1>1, <1>2 DEF SetJointTarget, TargetReachesItsJoint
<1>3. CASE Writable(cfgs[n], places)
  <2>1. PICK c : c = cfgs[n]
    OBVIOUS
  <2>2. PICK m \in Nat : places \in [1 .. m -> DOMAIN c.joints]
    BY <2>1 DEF Places
  <2> DEFINE cols == ColumnsOf(c, places)
             own == ToSet(ResolveIds(c.actuators, BackendActuators))
  <2>3. EntityAccepted(c) /\ Writable(c, places)
    BY <1>1, <1>3, <2>1
  <2>4. /\ DOMAIN cols = 1 .. m /\ IsInjective(cols)
        /\ \A i \in 1 .. m : \A k : (k \in own /\ ActuatorJoint[k] = c.joints[places[i]]) <=> k = cols[i]
    <3>1. Drives(c, places, m)
      BY <2>2, <2>3, ColumnsDrive
    <3> QED
      BY <3>1 DEF Drives
  <2>5. control' = [e \in ScEnv |-> [k \in DOMAIN control[e] |->
            IF e \in rows /\ k \in ToSet(cols) THEN values[PositionOf(k, cols)] ELSE control[e][k]]]
    BY <1>3, <2>1 DEF SetJointTarget, WriteCtrl, ColumnsOf
  <2>6. asked' = [entity |-> n, rows |-> rows, joints |-> [i \in DOMAIN places |-> c.joints[places[i]]], values |-> values]
    BY <1>3, <2>1 DEF SetJointTarget
  <2> HIDE DEF cols
  <2>7. \A e \in ScEnv : DOMAIN control'[e] = DOMAIN BackendActuators
    BY <1>1, <2>5
  <2>8. ASSUME NEW i \in 1 .. m PROVE cols[i] \in ToSet(cols) /\ PositionOf(cols[i], cols) = i
    <3>1. cols[i] \in ToSet(cols)
      BY <2>4 DEF ToSet
    <3> QED
      BY <2>4, <3>1, PositionIs DEF IsInjective
  <2>9. ASSUME NEW k PROVE k \in ToSet(cols) <=> \E i \in 1 .. m : k = cols[i]
    BY <2>4 DEF ToSet
  <2>10. /\ asked'.entity = n /\ asked'.rows = rows /\ asked'.values = values
         /\ DOMAIN asked'.joints = 1 .. m /\ \A i \in 1 .. m : asked'.joints[i] = c.joints[places[i]]
    BY <2>2, <2>6
  <2>11. OwnColumns(n)' = own
    BY <1>1, <2>1 DEF OwnColumns
  <2>12. ASSUME NEW e \in ScEnv, NEW k \in DOMAIN BackendActuators
         PROVE  LET hit == {i \in DOMAIN asked'.joints : k \in OwnColumns(asked.entity)' /\ ActuatorJoint[k] = asked'.joints[i]}
                IN IF e \in asked'.rows /\ hit # {}
                   THEN \A i \in hit : control'[e][k] = asked'.values[i]
                   ELSE control'[e][k] = before'[e][k]
    <3> DEFINE hit == {i \in DOMAIN asked'.joints : k \in OwnColumns(asked.entity)' /\ ActuatorJoint[k] = asked'.joints[i]}
    <3>1. control'[e][k] = IF e \in rows /\ k \in ToSet(cols) THEN values[PositionOf(k, cols)] ELSE control[e][k]
      BY <1>1, <2>5
    <3>2. OwnColumns(asked.entity)' = own
      BY <1>1, <2>1, <2>10 DEF OwnColumns
    <3>3. hit = {i \in 1 .. m : k = cols[i]}
      BY <2>4, <2>10, <3>2
    <3> HIDE DEF hit, own
    <3>4. hit # {} <=> k \in ToSet(cols)
      BY <2>9, <3>3
    <3>5. ASSUME NEW i \in hit PROVE values[PositionOf(k, cols)] = values[i]
      BY <2>8, <3>3
    <3>6. IF e \in asked'.rows /\ hit # {}
          THEN \A i \in hit : control'[e][k] = asked'.values[i]
          ELSE control'[e][k] = before'[e][k]
      BY <1>1, <2>10, <3>1, <3>4, <3>5
    <3> QED
      BY <3>6 DEF hit
  <2>13. TargetReachesItsJoint'
    BY <2>12, Zenon DEF TargetReachesItsJoint
  <2> QED
    BY <2>7, <2>13
<1> QED
  BY <1>2, <1>3

LEMMA TargetKept == TargetReachesItsJoint /\ UNCHANGED <<asked, control, before, cfgs>> => TargetReachesItsJoint'
<1> SUFFICES ASSUME TargetReachesItsJoint, UNCHANGED <<asked, control, before, cfgs>> PROVE TargetReachesItsJoint'
  OBVIOUS
<1>1. asked' = asked /\ control' = control /\ before' = before
  OBVIOUS
<1>2. \A n : OwnColumns(n)' = OwnColumns(n)
  BY Zenon DEF OwnColumns
<1> QED
  BY <1>1, <1>2 DEF TargetReachesItsJoint

LEMMA ScInit_Holds == ScInit => ScInv
<1> SUFFICES ASSUME ScInit PROVE ScInv
  OBVIOUS
<1>1. /\ cfgs \in SceneConfigs /\ scPc = "configure" /\ selState = "new" /\ asked = NotGiven
      /\ control = [e \in ScEnv |-> [k \in DOMAIN BackendActuators |-> 0]]
  BY DEF ScInit
<1>2. PICK n \in Entities, keep \in BOOLEAN, places \in IdLists \cup {AllIds} :
        \E names \in {NotGiven} \cup {<<p>> : p \in Patterns} \cup (Patterns \X Patterns) :
           selector = [entity |-> n, names |-> names, ids |-> places, keep |-> keep]
  BY Zenon DEF ScInit
<1>3. PICK names \in {NotGiven} \cup {<<p>> : p \in Patterns} \cup (Patterns \X Patterns) :
        selector = [entity |-> n, names |-> names, ids |-> places, keep |-> keep]
  BY <1>2
<1>4. DOMAIN names \subseteq Nat
  <2>1. CASE names = NotGiven
    BY <2>1 DEF NotGiven
  <2>2. CASE names \in {<<p>> : p \in Patterns}
    BY <2>2
  <2>3. CASE names \in Patterns \X Patterns
    <3>1. PICK p, q : names = <<p, q>>
      BY <2>3
    <3> QED
      BY <3>1
  <2> QED
    BY <2>1, <2>2, <2>3
<1>5. IsSelector(selector)
  BY <1>3 DEF IsSelector
<1>6. selector.names = names /\ selector.ids = places
  BY <1>3
<1>7. places \in Seq(Int) \cup {AllIds}
  BY SceneAssumption
<1>8. \A e \in ScEnv : DOMAIN control[e] = DOMAIN BackendActuators
  BY <1>1
<1>9. TargetReachesItsJoint
  BY <1>1 DEF TargetReachesItsJoint
<1> QED
  BY <1>1, <1>4, <1>5, <1>6, <1>7, <1>8, <1>9 DEF ScInv

LEMMA Selector_Holds == ScInv /\ ResolveSelector => ScInv'
<1> SUFFICES ASSUME ScInv, ResolveSelector PROVE ScInv'
  OBVIOUS
<1>1. /\ scPc = "built" /\ scPc' = scPc /\ cfgs' = cfgs /\ control' = control
      /\ before' = before /\ asked' = asked
  BY DEF ResolveSelector
<1>2. TargetReachesItsJoint'
  BY <1>1, TargetKept DEF ScInv
<1>3. CASE selState' = "failed" /\ selector' = selector
  BY <1>1, <1>2, <1>3 DEF ScInv
<1>4. CASE /\ Resolves(selector, cfgs[selector.entity].joints) /\ selState' = "resolved"
           /\ selector' = ResolveField(selector, cfgs[selector.entity].joints)
  <2>1. PICK s, joints, n : s = selector /\ joints = cfgs[selector.entity].joints /\ n = Len(joints)
    OBVIOUS
  <2>2. IsSelector(s) /\ DOMAIN s.names \subseteq Nat /\ s.ids \in Seq(Int) \cup {AllIds} /\ s.entity \in Entities
    BY <2>1 DEF ScInv, IsSelector
  <2>3. n \in Nat /\ DOMAIN joints = 1 .. n /\ joints = [i \in 1 .. n |-> joints[i]]
    <3>1. PICK f \in SceneConfigs : f = cfgs
      BY DEF ScInv
    <3>2. joints = f[s.entity].joints
      BY <2>1, <3>1
    <3> QED
      BY <2>1, <2>2, <3>2, JointsListed
  <2>4. Resolves(s, joints) /\ selector' = ResolveField(s, joints)
    BY <1>4, <2>1
  <2>5. s.ids \in Seq(Int)
    <3>1. <<0>> \in Seq(Int)
      OBVIOUS
    <3> QED
      BY <2>2, <3>1, Zenon DEF AllIds
  <2>6. CASE NothingSelected(s)
    <3>1. selector' = s
      BY <2>4, <2>6 DEF ResolveField, NothingSelected
    <3> QED
      BY <1>1, <1>2, <1>4, <2>1, <2>6, <3>1 DEF ScInv
  <2>7. CASE ~NothingSelected(s)
    <3>1. PICK r : r = ResolveField(s, joints)
      OBVIOUS
    <3>2. IsSelector(r) /\ r.entity = s.entity /\ SelectsPlaces(r, joints)
      BY <2>2, <2>3, <2>4, <2>5, <2>7, <3>1, ResolvedSelects
    <3>3. PICK m \in Nat : IdsOf(r, joints) \in [1 .. m -> 1 .. n]
      BY <2>3, <3>2 DEF SelectsPlaces, Places
    <3>4. DOMAIN r.names \subseteq Nat
      BY <3>2, <3>3 DEF SelectsPlaces, NamesAt
    <3>5. r.ids \in Seq(Int) \cup {AllIds}
      <4>1. r.ids = AllIds \/ r.ids \in [1 .. m -> 1 .. n]
        BY <3>3 DEF IdsOf
      <4>2. r.ids \in [1 .. m -> 1 .. n] => r.ids \in Seq(Int)
        BY <2>3
      <4> QED
        BY <4>1, <4>2
    <3>6. selector' = r /\ cfgs'[selector'.entity].joints = joints
      BY <1>1, <2>1, <2>4, <3>1, <3>2
    <3> QED
      BY <1>1, <1>2, <3>2, <3>4, <3>5, <3>6 DEF ScInv
  <2> QED
    BY <2>6, <2>7
<1> QED
  BY <1>3, <1>4 DEF ResolveSelector

LEMMA BySelector_Holds == \A rows : ScInv /\ TargetBySelector(rows) => ScInv'
<1> SUFFICES ASSUME NEW rows, ScInv, TargetBySelector(rows) PROVE ScInv'
  OBVIOUS
<1>1. PICK n, places, values : n = selector.entity /\ places = LocalIds(selector) /\ values = Target(Len(LocalIds(selector)))
  OBVIOUS
<1>2. /\ scPc = "built" /\ selState = "resolved"
      /\ SetJointTarget(n, rows, places, values)
  BY <1>1 DEF TargetBySelector
<1>3. n \in Entities
  BY <1>1 DEF ScInv, IsSelector
<1>4. places = IdsOf(selector, cfgs[n].joints)
  BY <1>1 DEF LocalIds, IdsOf
<1>5. Places(places, cfgs[n].joints)
  <2>1. CASE NothingSelected(selector)
    <3>1. PICK f \in SceneConfigs : f = cfgs
      BY DEF ScInv
    <3>2. places = [i \in DOMAIN f[n].joints |-> i]
      BY <1>4, <2>1, <3>1 DEF NothingSelected, IdsOf
    <3> QED
      BY <1>3, <3>1, <3>2, JointsListed, WholePlaces
  <2>2. CASE ~NothingSelected(selector)
    BY <1>1, <1>2, <1>4, <2>2 DEF ScInv, SelectsPlaces
  <2> QED
    BY <2>1, <2>2
<1>6. TargetReachesItsJoint' /\ \A e \in ScEnv : DOMAIN control'[e] = DOMAIN BackendActuators
  BY <1>2, <1>3, <1>5, Arrives
<1>7. UNCHANGED <<scPc, cfgs, selector, selState>>
  BY <1>2 DEF SetJointTarget
<1> QED
  BY <1>6, <1>7 DEF ScInv

LEMMA ByActuators_Holds ==
  \A n \in Entities : \A ps, rows : DOMAIN ps \subseteq Nat /\ ScInv /\ TargetByActuators(n, ps, rows) => ScInv'
<1> SUFFICES ASSUME NEW n \in Entities, NEW ps, NEW rows, DOMAIN ps \subseteq Nat, ScInv, TargetByActuators(n, ps, rows)
             PROVE  ScInv'
  OBVIOUS
<1>1. PICK places, values : places = FindByActuatorNames(cfgs[n], ps) /\ values = Target(Len(FindByActuatorNames(cfgs[n], ps)))
  OBVIOUS
<1>2. scPc = "built" /\ SetJointTarget(n, rows, places, values)
  BY <1>1 DEF TargetByActuators
<1>3. Places(places, cfgs[n].joints)
  <2>1. PICK f \in SceneConfigs : f = cfgs
    BY DEF ScInv
  <2>2. PICK qs, joints, l : qs = Actuated(f[n], ps) /\ joints = f[n].joints /\ l = Len(f[n].joints)
    OBVIOUS
  <2>3. DOMAIN qs \subseteq Nat
    BY <2>2 DEF Actuated
  <2>4. l \in Nat /\ DOMAIN joints = 1 .. l
    BY <2>2, JointsListed
  <2>5. places = MatchedIds(qs, joints, FALSE)
    BY <1>1, <2>1, <2>2 DEF FindByActuatorNames
  <2>6. Cardinality(Found(qs, joints)) \in Nat /\ places \in [1 .. Cardinality(Found(qs, joints)) -> 1 .. l]
    BY <2>3, <2>4, <2>5, MatchedPlaces
  <2> QED
    BY <2>1, <2>2, <2>4, <2>6 DEF Places
<1>4. TargetReachesItsJoint' /\ \A e \in ScEnv : DOMAIN control'[e] = DOMAIN BackendActuators
  BY <1>2, <1>3, Arrives
<1>5. UNCHANGED <<scPc, cfgs, selector, selState>>
  BY <1>2 DEF SetJointTarget
<1> QED
  BY <1>4, <1>5 DEF ScInv

LEMMA ScNext_Holds == ScInv /\ [ScNext]_scvars => ScInv'
<1> SUFFICES ASSUME ScInv, [ScNext]_scvars PROVE ScInv'
  OBVIOUS
<1>1. CASE BuildScene
  <2>1. UNCHANGED <<cfgs, selector, selState, control, before, asked>> /\ scPc = "configure"
        /\ (scPc' = "built" => \A n \in Entities : EntityAccepted(cfgs[n]))
    BY <1>1 DEF BuildScene
  <2>2. TargetReachesItsJoint'
    BY <2>1, TargetKept DEF ScInv
  <2> QED
    BY <2>1, <2>2 DEF ScInv
<1>2. CASE ResolveSelector
  BY <1>2, Selector_Holds
<1>3. ASSUME NEW rows, TargetBySelector(rows) PROVE ScInv'
  BY <1>3, BySelector_Holds
<1>4. ASSUME NEW rows, NEW n \in Entities, NEW ps \in {<<p>> : p \in Patterns}, TargetByActuators(n, ps, rows) PROVE ScInv'
  <2>1. DOMAIN ps \subseteq Nat
    OBVIOUS
  <2> QED
    BY <1>4, <2>1, ByActuators_Holds
<1>5. CASE UNCHANGED <<scPc, cfgs, selector, selState, control, before, asked>>
  <2>1. TargetReachesItsJoint'
    BY <1>5, TargetKept DEF ScInv
  <2> QED
    BY <1>5, <2>1 DEF ScInv
<1>6. ASSUME NEW n, NEW getter, ReadState(n, getter) PROVE ScInv'
  BY <1>5, <1>6 DEF ReadState
<1>7. CASE BeginStateReads \/ EndStateReads \/ UNCHANGED scvars
  BY <1>5, <1>7 DEF BeginStateReads, EndStateReads, scvars
<1> QED
  BY <1>1, <1>2, <1>3, <1>4, <1>6, <1>7 DEF ScNext

\* For any entities, orders of names, selectors and targets: a target reaches the actuator of its
\* joint, and a resolved selector stays what it is (entity.py, scene_entity_config.py).
THEOREM ControlStaysWithItsJoint == ScSpec => []ControlReachesItsJoint
<1>1. ScInv => ControlReachesItsJoint
  <2> SUFFICES ASSUME ScInv PROVE ControlReachesItsJoint
    OBVIOUS
  <2>1. TargetReachesItsJoint
    BY DEF ScInv
  <2>2. ASSUME selState = "resolved", ~NothingSelected(selector)
        PROVE  LET names == cfgs[selector.entity].joints
                   places == LocalIds(selector)
               IN /\ selector.names = [i \in DOMAIN places |-> {names[places[i]]}]
                  /\ (IF selector.keep THEN IsInjective(places) ELSE InNaturalOrder(places)) =>
                        Resolves(selector, names) /\ ResolveField(selector, names) = selector
    <3>1. PICK s, joints, n : s = selector /\ joints = cfgs[selector.entity].joints /\ n = Len(joints)
      OBVIOUS
    <3>2. IsSelector(s) /\ s.entity \in Entities /\ SelectsPlaces(s, joints) /\ EntityAccepted(cfgs[s.entity])
      BY <2>2, <3>1 DEF ScInv, IsSelector
    <3>3. n \in Nat /\ DOMAIN joints = 1 .. n /\ joints = [i \in 1 .. n |-> joints[i]]
      <4>1. PICK f \in SceneConfigs : f = cfgs
        BY DEF ScInv
      <4>2. joints = f[s.entity].joints
        BY <3>1, <4>1
      <4> QED
        BY <3>1, <3>2, <4>2, JointsListed
    <3>4. IsInjective(joints)
      <4>1. NormalizeNames(joints) /\ joints # Undeclared
        BY <3>1, <3>2, Zenon DEF EntityAccepted, SelectsPlaces
      <4> QED
        BY <4>1 DEF NormalizeNames
    <3>5. LocalIds(selector) = IdsOf(s, joints)
      BY <3>1 DEF LocalIds, IdsOf
    <3>6. s.names = [i \in DOMAIN IdsOf(s, joints) |-> {joints[IdsOf(s, joints)[i]]}]
      BY <3>2 DEF SelectsPlaces, NamesAt
    <3>7. (IF s.keep THEN IsInjective(IdsOf(s, joints)) ELSE InNaturalOrder(IdsOf(s, joints))) =>
             Resolves(s, joints) /\ ResolveField(s, joints) = s
      BY <2>2, <3>1, <3>2, <3>3, <3>4, SelectsStable
    <3> QED
      BY <3>1, <3>5, <3>6, <3>7, Zenon
  <2>3. ResolvedIsStable
    BY <2>2, Zenon DEF ResolvedIsStable
  <2> QED
    BY <2>1, <2>3 DEF ControlReachesItsJoint
<1> QED
  BY <1>1, ScInit_Holds, ScNext_Holds, PTL DEF ScSpec

\* A command is the last draw turned into the robot's frame once, and an action reaches its own joint.
THEOREM OrdersStaySound == CmSpec /\ ScSpec => []OrdersSound
<1>1. CommandOfLastDraw /\ ControlReachesItsJoint => OrdersSound
  BY DEF OrdersSound
<1> QED
  BY <1>1, CommandStaysDrawn, ControlStaysWithItsJoint, PTL
=============================================================================
