---------------------------- MODULE SyncTraining ----------------------------
(***************************************************************************)
(* SynchronousPPORunner: the training loop over a SynchronousEnv, its      *)
(* checkpoints, and what a fresh process makes of one.                     *)
(*                                                                         *)
(* An iteration collects a window in which source s takes quotas[s]        *)
(* control steps, updates the learner, and every Interval iterations       *)
(* probes the sources and may move steps from one source to another.       *)
(* A process may stop at any point; only the files it had renamed into     *)
(* place survive, and any of them may be resumed by a later process, which *)
(* trusts it only after load has re-derived every counter.                 *)
(*                                                                         *)
(* One row stands for the equal pool of each source, so transitions count  *)
(* control steps.  The metric part of SourceSchedule.update is abstracted  *)
(* to its outcome: any allocation its bounds admit.                        *)
(***************************************************************************)
EXTENDS Integers, FiniteSets, Sequences, FiniteSetsExt, Functions

CONSTANTS
    Sources,        \* the physics sources, one equal pool of rows each
    Uniform,        \* control steps per source in a uniform window (24)
    MinSteps,       \* least quota min_ratio admits
    MaxSteps,       \* greatest quota max_ratio admits
    MaxChange,      \* steps a quota may move at one probe (max_change)
    Interval,       \* iterations between probes
    SaveEvery,      \* iterations between checkpoints (500)
    Updates,        \* optimizer steps per window: 5 epochs of 4 batches
    MaxIterations,  \* algo.max_iterations
    MaxDones,       \* bound: sources that end an episode in one window
    MaxLaunches     \* bound: processes started, resumes included

ASSUME BudgetAssumption ==
    /\ IsFiniteSet(Sources) /\ Sources # {}
    /\ {Uniform, Interval, SaveEvery, Updates, MaxIterations} \subseteq Nat \ {0}
    /\ MinSteps \in 1 .. Uniform /\ MaxSteps \in Nat /\ MaxSteps >= Uniform
    /\ {MaxChange, MaxDones, MaxLaunches} \subseteq Nat

VARIABLES
    mode,       \* "central": no schedule; "fixed": one that is disabled; "adaptive"
    phase,      \* where the process is; "absent" when none runs
    run,        \* the runner's counters and quota history
    schedule,   \* SourceSchedule: the quotas of the next window, probes counted
    collector,  \* its quotas, expected stamp, generation and episode ids
    learner,    \* optimizer steps and normalizer samples the networks really had
    temporary,  \* the snapshot in the temporary file, or None
    disk,       \* snapshots renamed into place, of every launch
    launches,
    physical,   \* physical[s]: physical episodes s has begun in this process
    labels      \* of this learner's samples: <<s, <<generation, id>>, episode>>

recordVars == <<run, schedule, collector, learner, labels>>
vars == <<mode, phase, recordVars, temporary, disk, launches, physical>>

None == [none |-> TRUE]
Budget == Uniform * Cardinality(Sources)
Even == [s \in Sources |-> Uniform]
Tally(f) == FoldFunction(+, 0, f)
Waves(quotas) == Max(Range(quotas))

Feasible(quotas) ==
    /\ Tally(quotas) = Budget
    /\ \A s \in Sources : quotas[s] \in MinSteps .. MaxSteps
Near(quotas, previous) ==
    \A s \in Sources : quotas[s] - previous[s] \in -MaxChange .. MaxChange

\* The collector of a new runner: it expects no stamp yet.
NewCollector(quotas, generation) ==
    [quotas |-> quotas, stamp |-> << >>, generation |-> generation,
     episode |-> [s \in Sources |-> 0]]

\* What __init__ makes of the counters, the schedule and the learner.
NewRun ==
    [next |-> 0, policy |-> 0, norm |-> 0, steps |-> 0, total |-> 0,
     generation |-> 0, history |-> << >>, perSource |-> [s \in Sources |-> 0]]
NewSchedule == [quotas |-> Even, probes |-> 0]
NewLearner == [steps |-> 0, samples |-> 0]

\* The process is gone, and all it held in memory.
EndProcess ==
    /\ phase' = "absent"
    /\ run' = NewRun
    /\ schedule' = NewSchedule
    /\ collector' = NewCollector(Even, 0)
    /\ learner' = NewLearner
    /\ labels' = {}
    /\ physical' = [s \in Sources |-> 0]

NewEpisode == [s \in Sources |-> physical[s] + 1]

Init ==
    /\ mode \in {"central", "fixed", "adaptive"}
    /\ phase = "absent"
    /\ run = NewRun
    /\ schedule = NewSchedule
    /\ collector = NewCollector(Even, 0)
    /\ learner = NewLearner
    /\ labels = {}
    /\ temporary = None
    /\ disk = {}
    /\ launches = 0
    /\ physical = [s \in Sources |-> 0]

-----------------------------------------------------------------------------
(* load: what a checkpoint must satisfy *)

Before(history, i) ==
    Tally([j \in 1 .. i - 1 |-> history[j].iterations])

\* _validate_quota_history: every record could have followed the one before
\* it, at a probe, and the whole adds up to the other counters.
HistoryValid(file) ==
    LET history == file.run.history
        N == Len(history)
        count == file.run.next
        Total(f(_)) == Tally([i \in 1 .. N |-> history[i].iterations * f(history[i].quotas)])
    IN  /\ N > 0
        /\ history[1].quotas = Even
        /\ \A i \in 1 .. N :
              /\ history[i].iterations > 0
              /\ Feasible(history[i].quotas)
              /\ i > 1 => Near(history[i].quotas, history[i - 1].quotas)
              /\ mode = "fixed" => history[i].quotas = Even
              /\ Before(history, i) % Interval = 0
        /\ Before(history, N + 1) = count
        /\ Total(Waves) = file.run.norm
        /\ \A s \in Sources :
              LET Steps(q) == q[s] IN Total(Steps) = file.run.perSource[s]
        /\ file.schedule.probes <= count \div Interval
        /\ count % Interval # 0 => file.schedule.quotas = history[N].quotas
        /\ Near(file.schedule.quotas, history[N].quotas)

\* load, up to the point where it starts to restore.
Accepts(file) ==
    LET count == file.iteration + 1
        total == count * Budget
    IN  /\ file.run.next = count
        /\ file.run.policy = count
        /\ file.run.steps = count * Updates
        /\ file.run.total = total
        /\ file.learner.steps = file.run.steps      \* _validate_optimizer
        /\ file.learner.samples = total             \* _validate_normalizers
        /\ IF mode = "central"
             THEN file.run.norm = count * Uniform
             ELSE /\ file.run.norm \in count * Uniform .. count * Budget
                  /\ Feasible(file.schedule.quotas)
                  /\ \A s \in Sources : file.run.perSource[s] > 0
                  /\ Tally(file.run.perSource) = total
                  /\ HistoryValid(file)

\* What load leaves in a runner without a schedule is derived, not stored.
Restored(file) ==
    [file.run EXCEPT
        !.generation = @ + 1,
        !.perSource = IF mode = "central"
                        THEN [s \in Sources |-> file.run.next * Uniform] ELSE @]

-----------------------------------------------------------------------------
(* A process: run_synchronous_training *)

\* A new SynchronousEnv, learner, runner and collector.
Launch ==
    /\ phase = "absent"
    /\ launches < MaxLaunches
    /\ launches' = launches + 1
    /\ phase' = "fresh"
    /\ physical' = NewEpisode
    /\ UNCHANGED <<mode, recordVars, temporary, disk>>

\* load: validate, restore the learner, start a generation of new episodes.
Load(file) ==
    /\ phase = "fresh"
    /\ IF Accepts(file)
         THEN /\ phase' = "head"
              /\ run' = Restored(file)
              /\ schedule' = file.schedule
              /\ learner' = file.learner
              /\ labels' = file.labels
              /\ collector' = NewCollector(file.schedule.quotas, file.run.generation + 1)
              /\ physical' = NewEpisode
         ELSE phase' = "refused" /\ UNCHANGED <<recordVars, physical>>
    /\ UNCHANGED <<mode, temporary, disk, launches>>

LoadAny == \E file \in disk : Load(file)

-----------------------------------------------------------------------------
(* learn: one iteration *)

\* The top of the loop: hand the schedule's quotas to the collector.
LoopHead ==
    /\ phase \in {"fresh", "head"}
    /\ IF run.next < MaxIterations
         THEN /\ phase' = "collect"
              /\ collector' = [collector EXCEPT !.quotas = schedule.quotas]
              /\ UNCHANGED <<run, schedule, learner, labels, physical>>
         ELSE EndProcess
    /\ UNCHANGED <<mode, temporary, disk, launches>>

Stamp == <<run.next, run.policy, run.norm>>

\* The labels of a window in which the sources in dones end an episode.
WindowLabels(dones) ==
    LET Label(s, k) ==
            <<s, <<collector.generation, collector.episode[s] + k>>,
                 <<launches, physical[s] + k>>>>
    IN  {Label(s, 0) : s \in Sources} \cup {Label(s, 1) : s \in dones}

After(f, dones) == [s \in Sources |-> IF s \in dones THEN f[s] + 1 ELSE f[s]]

\* collect: the normalizers see every sample, once.
Collect(dones) ==
    /\ phase = "collect"
    /\ IF collector.stamp \in {<< >>, Stamp}
         THEN /\ phase' = "update"
              /\ learner' = [learner EXCEPT !.samples = @ + Tally(collector.quotas)]
              /\ labels' = labels \cup WindowLabels(dones)
              /\ physical' = After(physical, dones)
              /\ collector' = [collector EXCEPT
                    !.episode = After(@, dones),
                    !.stamp = <<run.next + 1, run.policy + 1,
                                run.norm + Waves(collector.quotas)>>]
         ELSE phase' = "refused" /\ UNCHANGED <<learner, labels, physical, collector>>
    /\ UNCHANGED <<mode, run, schedule, temporary, disk, launches>>

CollectWindow ==
    \E dones \in SUBSET Sources : Cardinality(dones) <= MaxDones /\ Collect(dones)

\* _record_quotas.
Recorded(history, quotas) ==
    LET N == Len(history)
    IN  IF N > 0 /\ history[N].quotas = quotas
          THEN [history EXCEPT ![N].iterations = @ + 1]
          ELSE Append(history, [iterations |-> 1, quotas |-> quotas])

ProbeDue == mode # "central" /\ run'.next % Interval = 0

\* alg.update and the bookkeeping of a complete iteration.
Update ==
    /\ phase = "update"
    /\ learner' = [learner EXCEPT !.steps = @ + Updates]
    /\ run' = [run EXCEPT
          !.next = @ + 1,
          !.policy = run.next + 1,
          !.norm = @ + Waves(collector.quotas),
          !.total = (run.next + 1) * Budget,
          !.steps = (run.next + 1) * Updates,
          !.perSource = [s \in Sources |-> @[s] + collector.quotas[s]],
          !.history = IF mode = "central" THEN @ ELSE Recorded(@, collector.quotas)]
    /\ phase' = IF learner'.steps # run'.steps \/ learner'.samples # run'.total
                  THEN "refused"
                ELSE IF ProbeDue THEN "probe" ELSE "log"
    /\ UNCHANGED <<mode, schedule, collector, labels, temporary, disk, launches, physical>>

\* What SourceSchedule.update may decide.
Reallocations ==
    {quotas \in [Sources -> MinSteps .. MaxSteps] :
        Feasible(quotas) /\ Near(quotas, schedule.quotas)}

\* Mutant: the ids go on as if the probe had not ended the episodes.
NextIds_Kept == collector.episode

NextIds == [s \in Sources |-> collector.episode[s] + 1]

\* run_source_probe resets every source into a probe and back into training.
Probe ==
    /\ phase = "probe"
    /\ IF mode = "adaptive"
         THEN \E quotas \in Reallocations :
                 schedule' = [quotas |-> quotas, probes |-> schedule.probes + 1]
         ELSE UNCHANGED schedule
    /\ collector' = [collector EXCEPT !.episode = NextIds]
    /\ physical' = NewEpisode
    /\ phase' = "log"
    /\ UNCHANGED <<mode, run, learner, labels, temporary, disk, launches>>

SaveDue == \/ (run.next - 1) % SaveEvery = 0
           \/ run.next = MaxIterations

\* The metrics are logged; only now is the iteration one a checkpoint may hold.
Log ==
    /\ phase = "log"
    /\ phase' = IF SaveDue THEN "save" ELSE "head"
    /\ UNCHANGED <<mode, recordVars, temporary, disk, launches, physical>>

Snapshot ==
    [iteration |-> run.next - 1, run |-> run, schedule |-> schedule,
     learner |-> learner, labels |-> labels]

\* save: the whole snapshot reaches a temporary file before it gets its name.
WriteTemporary ==
    /\ phase = "save"
    /\ phase' = "replace"
    /\ temporary' = Snapshot
    /\ UNCHANGED <<mode, recordVars, disk, launches, physical>>

Replace ==
    /\ phase = "replace"
    /\ phase' = "head"
    /\ disk' = disk \cup {temporary}
    /\ temporary' = None
    /\ UNCHANGED <<mode, recordVars, launches, physical>>

\* A failure anywhere, in the sources, the learner or the process itself: learn
\* closes the environments, and nothing outside the directory survives.
Stop ==
    /\ phase \notin {"absent", "refused"}
    /\ EndProcess
    /\ temporary' = None
    /\ UNCHANGED <<mode, disk, launches>>

Next ==
    \/ Launch \/ LoadAny \/ LoopHead \/ CollectWindow \/ Update \/ Probe \/ Log
    \/ WriteTemporary \/ Replace \/ Stop

Spec == Init /\ [][Next]_vars

-----------------------------------------------------------------------------
(* Properties *)

Quotas == {quotas \in [Sources -> MinSteps .. MaxSteps] : Tally(quotas) = Budget}

\* The quotas of the schedule and of the collector always divide the whole
\* budget of a window within the bounds, and the counters stay in range.
TypeOK ==
    /\ mode \in {"central", "fixed", "adaptive"}
    /\ phase \in {"absent", "fresh", "head", "collect", "update", "probe", "log",
                  "save", "replace", "refused"}
    /\ run.next \in 0 .. MaxIterations
    /\ run.policy \in 0 .. MaxIterations
    /\ run.norm \in 0 .. MaxIterations * Budget
    /\ run.steps \in 0 .. MaxIterations * Updates
    /\ run.generation \in 0 .. MaxLaunches
    /\ Len(run.history) <= 1 + MaxIterations \div Interval
    /\ schedule.quotas \in Quotas
    /\ schedule.probes \in 0 .. MaxIterations \div Interval
    /\ collector.quotas \in Quotas
    /\ launches \in 0 .. MaxLaunches
    /\ Cardinality(disk) <= MaxIterations * MaxLaunches

\* No validation of the runner ever rejects what the runner itself produced:
\* whatever the probes decided and however often training was stopped and
\* resumed, every file on disk is one load accepts, the window stamps follow
\* one another, the counters agree with the learner, and the quotas divide
\* the whole budget of a window within the bounds.
NothingRefused ==
    /\ schedule.quotas \in Quotas /\ collector.quotas \in Quotas
    /\ phase # "refused"
    /\ \A file \in disk : Accepts(file)

\* Among the samples one learner was trained on, a source's generation and
\* episode id name one physical episode, through dones, probes and resumes.
EpisodesDistinct ==
    \A a, b \in labels :
        a[1] = b[1] => (a[2] = b[2] <=> a[3] = b[3])

\* What survives the end of the process: files that load takes back, and episodes
\* told apart by what the files kept of them.
ResumeSound == NothingRefused /\ EpisodesDistinct
=============================================================================
