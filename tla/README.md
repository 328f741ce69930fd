# TLA+ specifications of UniDR

UniDR trains one shared policy on several physics engines.  These modules model the
repository's control: how physics runs in service processes of its own, how rollouts,
transitions and weights travel between a collector and a learner, how a batch of
environments is stepped, reset and observed, what the terms of the tasks keep from step to
step, how runs are stored, resumed, launched and played back.  Numbers (rewards, poses,
gradients) are abstracted to what the properties tell apart.

Paths are relative to the repository's root; `uni_rl/` is `vendor/unilab_rl/src/uni_rl/`, the
other directories are those of `src/unilab/`.

## 1. The system

### Components, their state and their operations

| Component | State | Operations | Interacts with |
|---|---|---|---|
| `SynchronousEnv` (`uni_rl/ipc/synchronous_env.py`) | sequence number per source, requests in flight, cached aggregate, `_probe_active`, `_closed` | start, `init_state`, `step`, `step_selected`, `reset`, `reset_probe`, `finish_probe`, `close` | one process per source through a pipe; one pool thread per source receives |
| `RolloutRingBuffer` (`uni_rl/ipc/rollout_ring_buffer.py`) | slots in shared memory, write and read pointer, each with its own lock | `signal_write_done`, `available`, `read_numpy_views`, `advance_read` | APPO collector writes, learner reads |
| `SharedWeightSync` (`uni_rl/ipc/weight_sync.py`) | parameters and version in shared memory, optional lock | `write_weights`, `read_weights_into`, `version` | learner writes, collector reads |
| APPO loops (`uni_rl/algos/appo/`) | staging pool and cursor, iteration, local versions | collect, drain, update, publish, pull | the two above, a metrics queue, a stop event |
| `ReplayBuffer` ingress (`uni_rl/ipc/replay_buffer.py`) | bounded slots, free and ready semaphores, published and committed pointers | `add`, `take_published_ingress`, `commit_ingress`, `close` | off-policy collector adds, the pipeline takes |
| `GPUResidentReplayPipeline` (`uni_rl/ipc/replay_pipelines/gpu_resident.py`) | ring on the device, pending copies, two batch slots, prepare state | sync thread: copy, commit, gather; learner: `progress`, `read_committed_fields`, `start_prepare`, `sample_large_batch`, `close` | the ingress, a side stream, the learner's stream |
| `SharedInferenceSlot` and off-policy loops (`uni_rl/ipc/inference_slot.py`, `uni_rl/offpolicy/`) | state, ticks, policy version, steps since update, frozen boundary | answer a tick, freeze, prefetch, update | each other, two queues of size 1 |
| `SynchronousPPORunner`, collectors, schedule, probe (`uni_rl/algos/`) | counters, quotas and their history, generation, episode ids, checkpoint files | `learn`, `collect`, `update`, `save`, `load` | `SynchronousEnv`, the disk |
| `NpEnv`, `ManagerBasedRlEnv` and the managers (`base/np_env.py`, `envs/`, `managers/`) | episode lengths, accumulators, timers, flags, cached reads, final observations | `step`, autoreset, `reset`, one turn per manager | the simulator, the terms |
| Observation manager (`managers/observation_manager.py`, `_buffers/`, `_noise/`) | delay and history buffers with one write pointer for all rows, lags, biases | compute for all rows, for some rows, or as a query; reset of rows | terms, reset transactions |
| Reset transactions (`base/reset_state.py`) | scratch buffers, masks, cache of committed fields | begin, staged writes, commit, abort | reset events and commands, the simulator |
| Events and curricula (`envs/mdp/events.py`, `curriculums.py`) | bound parameters, drawn scales, running impulses | build, reset, interval and step events, stages | entities, reset transactions |
| Commands, actions, entities (`envs/mdp/commands/`, `actions/`, `base/entity.py`) | drawn and turned command, raw and processed action, selections, joint maps, the shared control buffer | resample, update, process, apply, resolve, write targets | the backend |
| Motion tracking (`tasks/motion_tracking/`) | frame per row, reference rows, copy of the robot, previous velocity, failures | advance, wrap, resample, sample adaptively, reset | commands, terminations, rewards |
| Footstand, walking, rough terrain, Allegro (`tasks/locomotion/`, `tasks/manipulation/allegro_inhand/`) | snapshots, clocks, flights, levels, grasps | step, observe, reset, curriculum, record | terms of one environment batch |
| Evaluation (`visualization/`) | recorded rollouts, scores, trials | record, score, validate | frozen policies |
| Scripts, checkpoints, playback (`scripts/`, `training/`, `utils/checkpoint.py`, `utils/sim2sim.py`) | run directories, models, contract files | launch, resume, save, resolve, play | the disk, other jobs |
| Assets, placement, registry, configuration (`assets/hub.py`, `base/process_device.py`, `base/registry.py`, `base/config_*.py`) | files and markers, device masks and pins, registered tasks, configuration trees | resolve, download, pin, register, merge, materialize | several processes on one machine |
| Interactive playback, snapshots (`scripts/play_interactive.py`, `visualization/`) | controls, command, recorded frames | key callback, step, reset, film | the viewer's thread |

Not modelled, with reasons in `PROJECT.json`: the learners' arithmetic, logging, memory
budgets, the simulator adapters and the subprocess protocol of UniSim, `dp_sync`'s
collectives, the native H2D pipeline, single-process PPO, the command line, terrain
generation, rendering, and tasks whose terms are arithmetic of a single step.

### What is hard, and what makes each part correct

- **Service processes**: sources answer, fail, hang or die at any moment of a barrier;
  `close` can come while a thread still receives.  The caller sees a service that moves all
  selected sources at once or poisons itself, no answer is taken for another call's, every
  call returns, no process outlives `close`.
- **Ring and weights**: neither writer waits for its reader.  What is copied is whole unless
  the reader was lapped, which the pointers show; nothing still whole is skipped; an update
  uses a fresh rollout, a collector newer weights.
- **Replay pipeline**: copies and gathers outlive the calls that enqueue them.  No slot, row
  or batch is reused before its last reader, boundaries are respected, back-pressure is
  always relieved.
- **Off-policy exchange**: two loops wait for each other in turn.  Every tick is answered
  once; the policy that acts is at most one update old; updates and steps keep their ratio.
- **Batches of environments**: rows are stepped together and reset apart, many terms share
  one counter, one pointer or one snapshot, and some are computed for some rows only.
  Whatever is handed out belongs to the row's present episode and to the present moment.
- **Reset transactions**: preallocated scratch memory, sparse writes, and a commit with
  several failing calls behave like one atomic update.
- **Runs on disk**: jobs are killed anywhere, run side by side, and name directories by the
  second.  A checkpoint the program wrote is never refused, a model stays with the contract
  it was trained under.
- **Machines**: each process reinterprets a GPU index, fills its own registry, and downloads
  what another is downloading.  Learner, simulator and files are where the user put them.

`PROJECT.json` lists the hazards with the line where each bites and the properties that
would catch it.

## 2. Modules

| Module | Models | Correspondence |
|---|---|---|
| `SynchronousEnv` | coordinator, pool threads, pipes, workers | `Call` .. `Join*` are `_exchange` and what follows it in each method; `Thread` is `_timed_receive`; `Worker` is `_worker`; `BeginClose`, `SendClose`, `Terminate`, `Shutdown` are `close` |
| `LockstepService` | the abstract service | a call moves each selected source once, or the service closes |
| `RolloutRing` | the ring, one writer, one reader | one action per load or store of a shared pointer, a slot in `Parts` pieces |
| `WeightSync` | weights, version, both copies, parameter by parameter | the steps; `AppoPipeline` says when they are taken |
| `AppoPipeline` | APPO collector and learner | composes `Ring == INSTANCE RolloutRing` and `Weights == INSTANCE WeightSync` |
| `ReplayIngress`, `GpuResidentReplay` | bounded ingress; pipeline, sync thread, learner thread, two streams | the second extends the first; a stream is a queue of operations executed in order |
| `InferenceExchange` | slot, queues, scheduler, both loops | the replay path reduced to published and committed counts |
| `SyncTraining` | runner, collectors, schedule, checkpoint files | one action per stage of an iteration; `Stop` may end the process between any two |
| `AtomicReset`, `ResetState` | what a reset transaction promises; its masks, scratch and caches | the first is written over partial functions, the second refines it by `Abstract` |
| `ManagerEnv` | control step, autoreset and reset of a batch | `pc` names the manager whose turn it is, in the order of `step` and `reset` |
| `ObservationBuffers` | one observation term over a batch | a compute for all rows, for the rows of a reset or as a query, and the reset of both buffers |
| `EventTerms`, `BodyImpulse` | randomisation terms and curricula; impulses and pushes | construction with its validation, then one action per mode; the first extends the second and states `DisturbancesSound` of both |
| `CommandTerms`, `EntityScene` | commands and joint actions; entities, selections, targets | headings are quarter turns; a pattern is the set of names it matches; the first extends the second and states `OrdersSound` of both |
| `MotionTracking` | sampler, motion commands, delayed action | `ProcessActions`, `Terms` (what a step does after physics), `FirstReset`, `Autoreset`, `ManualReset` |
| `Holdout`, `Footstand`, `Gait`, `Terrain`, `Allegro` | evaluation on a held-out clip, and the stateful terms of four tasks | each has the phases of a control step it is asked in, and the reset of any rows |
| `RunStore` | training jobs on disk and playback | one action per file written or looked up; `Killed` between any two |
| `DevicePlacement`, `AssetHub` | masks, pins and ranks; downloads | the hub adds files one by one or fails; the first extends the second and states `LaunchSound` of both |
| `ConfigOverrides`, `EnvRegistry` | merge and materialization as recursive operators; registration and building | the second extends the first |
| `InteractivePlayback`, `SnapshotSession` | playback loop against the viewer's thread; filming | a step ends at each Python call that may switch threads; the environment's `step` is `PhysicsStep` and `Observe`, Backspace is `ResetEnv`, `ObserveReset`, `ResetSession`, `ZeroCommand`; the first extends the second and states `PlaybackSound` of both |
| `*Proofs` | theorems, see section 4 | |
| `MC*` | constants, the composition of several parts in one run, symmetry | `part` picks the module a behaviour runs |

A definition that a comment introduces as *Mutant* (or that is named `X_Something` beside
`X`) is a plausible wrong version of the definition next to it; no specification uses it, and
it serves to see that a property notices the error.

The main abstractions:

- An observation is a *stamp*: whose it is and when it was made (a source's number of moves,
  or the episode and age of a row).  A rollout, a transition row and a parameter are the
  number of the write that produced them; what is being written is torn.
- A random draw is any value of its range, and a gather may sample any row of its domain.
- Ghost variables record what really happened (the frames a row lived through, the flight of a
  foot, the phase drawn); properties compare the code's state with them.
- `SourceSchedule.update` is any allocation that keeps the budget, the bounds and the change
  limit.

## 3. What TLC checks

A property that names several parts is the conjunction of the definitions in brackets.

| Run | Shows | Bounds, and why they suffice |
|---|---|---|
| `threads` | service: `FreshAggregate`, `QuietBetweenCalls`, `NeverOutOfOrder`, `CallerProtocol` (probe flags agree between calls, poison is final), and that it implements `LockstepService`; GPU-resident replay: `BuffersHeld` (a slot is held until it is copied, the batch in use is not gathered into), `RowsInOrder` (spans in order, a batch reaches its boundary, each field of a row comes from its place) | 2 sources, sequence numbers up to 5: start, then a probe with a step inside, each exchange may fail half-way; 2 ingress slots of 2 rows, a ring of 3 (copies are split), 4 rows (it wraps), 3 updates (both batch slots are reused) |
| `threads_live` | `CallsReturn`, `CloseCompletes`; `BackPressureRelieved` | sequence numbers up to 1 (start and a call) reach every failure of an exchange and every order of `close`; one row per slot, 3 rows through 2 slots, one update |
| `exchange` | ring: `DrainStaysBehind`, `WholeUnlessLapped`, `SkipsOnlyLost`, `RolloutsLeave`; APPO: `TrainedOnNewest` (a fresh rollout per update, the pool holds the newest), `CollectorWeights` (the first load is whole, a pull makes progress), `AppoTrainingEnds`; slot: `SlotExchangeSound` (in step, boundary published, one update behind, ratio kept), `SlotTrainingEnds` | 3 slots of 2 parts and 9 rollouts: the reader is lapped more than once; APPO with 2 slots, 4 rollouts, 2 parameters, a pool of 2, 3 iterations; 2 ticks per update, a threshold of 3, 4 updates |
| `training` | `ResumeSound` (no checkpoint is refused, episode ids are distinct), `RunsSound` (models, contracts, summaries and films belong together) | 2 sources with quotas 1 to 3, a probe and a save every 2 of 4 iterations, 2 launches; 2 jobs of 2 iterations side by side, killed anywhere |
| `resume` | violation of `ResumesAsDocumented` | one job after another |
| `reset_state` | `StagingSound`, `ImplementsAtomicReset` | 2 symmetric rows, 4 kinds of field, 2 scopes, 3 writes: a row written in the scope before, completed from the cache, or left out |
| `managers` | `EpisodeAccounting` (accumulators speak of the transitions since the row's reset; no step past the end), `ObservationsCurrent`, `BuffersOfThisEpisode` (lags, windows, other rows untouched, no NaN) | 2 symmetric rows, episodes of 3 steps, timers up to 2, 4 steps, 2 resets; buffers: 3 steps, 2 resets, every term configuration of `MCManagers` |
| `terms` | `DisturbancesSound` (one draw from the default, physical values, the stage in force; a force only while its impulse runs, and in all of its steps but those for which a push or the reset of a running row took the wrenches back), `OrdersSound` (the command is that of the last draw, a target reaches its joint), `MassInertiaConsistent` | 2 rows, 2 elements, counters to 2, durations 0 to 2, cooldowns 1 to 2, 6 steps; 2 entities |
| `terms_sustained` | violation of `SustainedForDuration` | the bounds of `terms` |
| `tasks` | `MotionInStep`, `EvaluatedAsRun`, `FootstandSound`, `GaitInStep`, `TerrainSound` | clips of 2 and 1 frames, 3 steps, 1 reset; a clip of 4 frames over 5 steps, horizon 3; 3 steps and 1 reset of each task; a cycle of 4 ticks; first lives of any age up to 2; 3 levels by 2 types |
| `tasks_phase` | violation of `PhasesInCycle` | the bounds of `tasks` |
| `launch` | `LaunchSound` (assets are there and whole, except in a directory whose download was cut or is under way in another process; devices as configured, ranks apart), `RegistrySound`, `PlaybackSound` (presses, limits, and how many actions miss the present state or the written command), `AllegroSound` | 2 processes with 2 requests; 3 GPUs; 3 keys and 4 steps, which reach the bounds of `ActsOnCurrent` and `FollowsKeys`; 3 frames; 2 rows, 3 steps, 1 reset, a collecting run and one that starts from its file |

Each row of a batch can be reset in a step in which the other is not, which is what the
properties of rows are about; three rows add no new relation between a row, the rows reset
with it and the others.  `CHECK_DEADLOCK FALSE` is said where the system really may stop: a
closed service, a finished run, a bound of the model reached.

### Fairness

Nothing is ever assumed of a worker or collector *process*: it may hang or die.  Assumed are

- the coordinator, its pool threads, the learner thread and its daemon are ordinary running
  threads (`WF`); their waits have deadlines in the code (`wait(..., timeout)`,
  `wait_for_data(timeout)`, `inference_request_timeout_sec`), so the action that stands
  for the deadline is fair;
- `SF_vars(Timeout)` in `AppoPipeline`: the wait is cut into slices of which each enables
  the deadline again; as wall-clock time passes, the loop cannot slice for ever;
- `SF` of both threads in `GpuResidentReplay`: they compete for `_submission_lock`, each
  holds it for finitely many steps and sleeps between polls, so a thread that can get the
  lock again and again gets it;
- the device executes what its streams hold, and the collector finishes an `add` it is in
  (unless it is killed), but never needs to add again.

The other modules have safety and step properties only and need no fairness.

### Findings

`resume`: the user guide (`docs/sphinx/source/en/2-user_guide/1-training/5-resume_and_checkpoints.md:8-15`)
says `algo.load_run=-1` resumes the latest run.  A PPO job makes its own run directory
(`training/experiment.py:206`) before it looks for the latest one
(`scripts/train_rsl_rl.py:670`), finds its own empty directory and starts afresh.

`terms_sustained`: the docstring of `ApplyBodyImpulse` (`envs/mdp/events.py:1211`) says that a
wrench is staged again every step for the duration drawn.  A plan that an event stages is one
for all environments (`base/entity.py:2077`) and clears what was pending
(`vendor/unisim/src/unisim/backend/mujoco/backend.py:1601`), so a push of some rows, or the
zeros that the reset of a running row writes (`events.py:1389`), take back the wrenches of all
others for the coming step.  `ForceUnlessLifted` says that these are the only two ways.

`tasks_phase`: the comment on the gait buffer of G1 says "radians in [0, 2*pi)"
(`g1/manager_terms.py:174`); the right foot is stored as `left + pi`, unreduced (237), and so
shown in the first frame of a life, before any tick reduces it.

### Other divergences met while modelling

These are differences between the code and its comments, documentation or tests.  The
modules follow the code.

*Data exchange.*  The guide says the APPO learner "consumes complete ring-buffer slots"
(`3-logging.md:229`), but the ring has no back-pressure; `WholeUnlessLapped` says what holds.
`weight_sync.py:39` wants a lock passed to an attaching process, the APPO collector passes none
(`appo/worker.py:141`) and can act on a mixture of two publications.  APPO's `_drain_metrics`
swallows the collector's error (`appo/runner.py:451`, `482`) that `collector_error.py:52`
pushes for fast detection.  The gather of a batch is enqueued after the lock under which
pending copies were checked is released (`gpu_resident.py:529-554`), so a batch may hold rows
that are not committed, though whole ones.

*Runs and playback.*  Off-policy playback ignores `training.log_root`
(`utils/checkpoint.py:158-173`); APPO takes `"-1"` for no resume (`train_appo.py:48-51`); PPO
with a run that does not resolve starts afresh while APPO raises; SAC with a run id never
resumes.  `play_appo` and `play_offpolicy` resolve a checkpoint twice; playback after a
training with `load_run` shows the source of the resume.  Run directories have a resolution of
one second, checkpoints are not written atomically, and a malformed `run_config.json` skips the
contract check.  In interactive playback a press of N that meets the consumption of an
earlier one steps twice (`interactive_playback.py:113`).  Backspace resets from the viewer's
thread whatever the loop is doing: up to two actions per press are carried out in another life
than they were computed for (the one under way, and one computed from the observation that the
reset stores late), and as the reset draws a command, up to two are computed under a command
nobody gave; the first action of a session is, too (`play_interactive.py:1018`).  Keyboard teleoperation needs `state.info["commands"]`, which no task of
the repository has.  `SnapshotPlaybackSession` appends the state before it asks the overlay
getter (`playback_session.py:85`).

*Devices, assets, registry.*  The asset resolver "guarantees that requested asset files exist on
disk before returning" (`assets/hub.py:3`), but takes a directory for present when one marker
file is (342): a process that comes while another downloads, or after it was killed, returns a
part of a directory, and after the kill every later call does.  `WholeUnlessCut` names these
cases and excludes any other.  Off-policy Genesis with `devices=[1,0]` is refused although
`3-sac.md:50` allows any order; APPO passes `cfg.training.device` on unchanged after a pin
(`train_appo.py:86`, comment at 332).  The collision warning (`process_device.py:244`) fires
for legitimate layouts.  A package named by `UNILAB_EXTRA_REGISTRY_PACKAGES` that builds on a task of a
later module or package fails at the first `ensure_registries` and succeeds at the second
(`registry.py:331-388`).  A play profile that re-declares `_target_` keeps the old class's
parameters (`config_adapter.py:125`), one that refines a disabled term enables it again, and
one with a scene replaces the whole default scene (108).  A `_target_` nested in a plain
mapping is never instantiated (`config_materialization.py:312`, `409`).

*Environments and tasks.*  `foot_air_time` ages every row when the observation is computed for
some (`gait_terms.py:427-448`).  `RoughVelocityCommand` draws world-frame commands past its
dead zone (`velocity_command.py:153`).  A manual reset right after an autoreset settles a level
twice and records the reset pose as a grasp, because `reset_time_outs` stay up
(`manager_based_rl_env.py:637-641`, `grasp_gen.py:337-348`); levels move before the transaction
commits.  With autoreset off, `np_env.py:637` keeps a fallen robot until a manual reset while
`ManagerBasedRlEnv.step` raises (467).  The recorder's documentation
(`recorder_manager.py:77`) says it sees the previous observation, but the terminal one has
been computed.  `np.save` of the grasps is not atomic; a part of a file is refused by the next
run.  `init_at_random_ep_len=True` (`train_rsl_rl.py:682`) sets the episode counters before
learning: a grasp of a first life may be held for less than an episode, and a foot stand may
end for its posture in the first steps, its grace being counted there (`footstand.py:677`).  An id list out of order resolves once and is refused the second time
(`scene_entity_config.py`).

## 4. What is proved

TLAPS checks the theorems below for every value of the constants, under the named
assumptions of the modules: what a configuration may contain (`GaitConfig`, `TermConfig`,
`MotionAssumption`, ...), positive sizes, and natural bounds.  Each assumption is what the
constructors of the code refuse to build without, or the type of a constant.  No property is
inductive as it stands; for each the strengthening is named.

**`SynchronousEnvProofs`**: `TypeCorrect`, `RequestsInOrder`, `QuietCorrect`,
`AggregateIsFresh`, `CallerIsProtected`, `LockstepImplemented`.  What holds between two calls
depends on what may be under way during one.  `WireInv` says for each source where its one
request can be (not yet written, in the pipe, being executed, answered, received), which
number it has there, and that only a selected source has one.  `FreshInv` adds what the
answer carries in each place, `MethodInv` and `LinkInv` how far the method that called has
come, and what the sources and the coordinator may know of a probe meanwhile.  With them
every step of the implementation is a step of `LockstepService` or leaves it unchanged.

**`ExchangeProofs`**, the data between a collector and a learner.  `RingTypes`,
`DrainIsBehind`, `CopyIsWhole`, `NothingSkippedEarly`: `RingInv` says what every slot holds,
the rollouts of the last `NumSlots` positions, partly overwritten under the writer, and
nothing older behind it.  `ExchangeTypes`, `ExchangeIsSound`: an invariant of the two sides of
the slot, what is published, how old the policy is, and how the counts of updates and steps
go together at each place of the two loops.  `TrainsOnNewest`, `CollectorActsOnNewer`: where
the pointers, the pool, the published parameters and the first load are at each place of the
APPO loops; the ring's invariant is used through its instance.

**`GpuResidentReplayProofs`**: `HeldUntilRead` (`BuffersHeld`), `OrderKept` (`RowsInOrder`).
The invariant accounts for every permit (a slot is free, being written, or published and not
released), for what each stream has still to execute, and for the rows a batch or a copy
finds when the device comes to it.  It rests on the arithmetic of a ring: two positions less
than its size apart are in different places, a copy split at the end of the ring fills exactly
its span, a gather behind a boundary covers it.

**`ResetStateProofs`**: `StagingIsSound`, `ResetIsAtomic`, the second step by step against
`AtomicReset`.

**`ManagersProofs`**: `AccountsInStep` (`EpisodeAccounting`), `ObservationsAreCurrent`, from
invariants on what is accounted, the horizon, the reads cached in a phase and the final
observations; `BuffersAreOfThisEpisode`, from `Holds(buffer, n, seq, row)`: a circular buffer
with one pointer holds for each row the last frames of that row, whatever rows were reset.
`ForceOnlyActive`, from what is staged at the backend in each phase of a step and the steps an
impulse has left; what is not staged of a running impulse was lifted since.  `DisturbancesStaySound` (`DisturbancesSound`) and `MassKeepsItsInertia`
(`MassInertiaConsistent`), from `EvInv`: a value is one draw applied to its default with a
range that was in force, scaled to the physical value once, and the ranges are those of the
stage the curriculum is in.  `EventAssumption` gives the types of a term and says that a scale
or an offset without a distribution is uniform (`events.py:288`).  `OrdersStaySound`
(`OrdersSound`): `CmInv`, a row remembers the world velocity its last draw turned into a
heading; `ScInv`, a selector that has been resolved names the places its ids stand for, the
columns of an entity's joints are distinct and each drives its own joint.  That ids resolved
from names resolve to themselves again (`MatchedAgain`) goes over the rank of an id among those
matched.

**`TasksProofs`**: `MotionStaysInStep` (`MotionInStep`), from `MtInv`: between steps a row, its
robot, its reference and its copies are of one moment (`RowInStep`); while the terms of a
step are due they are still of the moment before (`RowUnderway`); a row whose clip ended is
reset before the next step.  It needs that clips follow each other without gaps, that the clip
found for a frame contains it (`ClipOfFrame`), and that every way of sampling yields a frame of
a clip (`Sampled`).  `GaitStaysInStep` (`GaitInStep`), from `GtInv`: a shared clock has been
turned up to the present step, two clocks of a quadruped differ by the step whose frame is
still to be computed, and what is kept of a flight is what the feet did; `ContactRead` says
that a foot is in contact when the reading of its columns says so, for any sensor groups and
widths.  `TerrainStaysSound` (`TerrainSound`), from `TrInv`: what each row's level, spawn point,
height, scan and command are while the terms of a step or of a reset are still due.  It takes
from the configuration (`TrReachAssumption`) that the scan reaches no further than the buffer
of the truncation term, and stays on the map wherever a reset may put a robot; the code checks
this nowhere, the shipped terrain has it (a reach of .8, a buffer of 3, cells of 8, a border of 20).
`EvaluationIsAsRun` (`EvaluatedAsRun`), from `HoInv`: the rows of a rollout follow one another
up to a reset (`Chain`), the first rows are those of the first life (`HoFirst`), the telemetry
speaks of rows of the present life (`HoTelemetry`), and each row of a replay repeats the native
one up to the first end, whence the robot, being deterministic, looks and ends alike (`HoTail`).
`FootstandStaysSound` (`FootstandSound`), from `FsInv`: between steps the snapshot, the counters
and the targets of a row are of its present moment, its age exceeds its steps by what PPO
gave it (`HeadStart`), its anchor is where the foot last came
down, and the rewards of the step were summed from the evidence of that moment.  The
configuration accepted gives each action a joint of its own (`EachItsJoint`), so a target is
reached from the joints of the reset in one way (`OneWay`).

**`TrainingProofs`**: `RunsStaySound` (`RunsSound`), from `RsInv`: a directory has one owner,
its contract is filed before its first model, the numbers of its models run ahead of the
iterations trained by a fixed offset, and what a job has opened is a model some run holds; the
newest run and checkpoint are maxima of finite sets.  `RunStoreAssumption` says only that the
jobs are finitely many and what a setting is.  `ResumeStaysSound` (`ResumeSound`).  Its second
part, `EpisodesStayDistinct`, from `EpInv`: a sample speaks of an episode that has begun, ids
and physical episodes of a source begin together, and a file holds what was past when it was
written.  Its first part, `NothingRefused`, from `NrInv`: at every moment the runner and its
schedule are `Whole`, that is what any number of complete iterations leaves behind, the
collector and the learner are ahead by the window under way and no more, and a file holds
something whole.  `WholeIsAccepted` is then what `load` validates, `WholeAfterWindow` and
`WholeAfterProbe` that training keeps it so: a record is added to the history only at a
multiple of the interval, because between probes the quotas stay (`FollowsOn`), and its totals
grow by what the window had (`RecordedWeighs`).  Budgets and totals are folds over the sources
or the records.  `TallyPeels` shows that a fold adds the terms up in any order; that sums
respect `+` and `<=`, that none of natural terms exceeds the sum, and what a term added or
changed does to it follow by induction over the parts of a finite set (`EverySubset`).

**`LaunchProofs`**: `LaunchStaysSound` (`LaunchSound`), `PlaybackStaysSound`
(`PlaybackSound`), `AllegroStaysSound` (`AllegroSound`).  `AhInv`: a directory with its marker
is whole unless a download of it was cut, and what a process found stays; it needs that no
directory of the tables lies in another, so that a marker comes with its own directory only
(`assets/hub.py:39-66`).  `DpInv`: `Placed` says, for a process that has come to a place of its
start, what it sees of the user's mask, under which rank, pinned or not, and what it has
chosen; `Supervised` which ranks are still to be waited for.  It needs that a mask names a GPU
once and that APPO has no list of devices; that a list fits the host is proved (`ListFits`).
`IpInv`: what the main thread carries at each of its calls while the viewer's thread is
inside its own; each Backspace pays for two actions that miss the present state (`Missing`) and
for two that miss the command (`Straying`), where an observation held that is already behind
(`Late`, `Off`), a reset still to be stored (`Due`) and a drawn command still to be observed
(`Redrawn`) count as misses to come; a task with one observation group has one width.
`SnInv`: the overlays kept are those of the snapshots kept.  `AlInv`: between steps the snapshot, its rates and the frame
are of the row's present moment, a row's age counts the steps that its grasp was held, and the
rows saved are those on file; an episode has at least one step.

Induction over the length of a sequence is done without the library's induction theorems,
which take an operator as a parameter: `SmallestOf` (a nonempty set of naturals has a least
element) follows from the well-foundedness of strict inclusion on finite sets, and `Induction`
from it.  A recursive function is shown to exist first, after which its equation is available.

Only model-checked:

- every liveness property, and whatever speaks of `ENABLED`: outside the prover's logic;
- `RegistrySound`: `ConfigOverrides` is written with `RECURSIVE` operators over trees, which
  take the SMT backend away from a module that reaches them.

## 5. Limits of the models

- `GpuResidentReplay` is the CUDA path: not the MPS path that submits from the learner
  thread, nor an exception inside the sync thread (it is kept and raised at the
  learner's next call).
- No clocks: a deadline may fire whenever the wait is on; races of two durations (30 s
  response timeout against a long update) are listed as hazards only.
- Interrupts are modelled inside an exchange of `SynchronousEnv`, not inside `close`; the
  death of the coordinator process is not modelled.
- `SyncTraining`: two resumes of the same file carry the same generation number (they are
  different learners; `EpisodesDistinct` speaks of one learner); a contract mismatch, a run
  without a log directory, random state and logger contents are left out.
- `ManagerEnv` has one term of each kind per manager, `ObservationBuffers` one term: terms
  share nothing but the counters that are modelled.
- Tasks: one joint stands for a leg or a hand, one body for the robot; geometry, torque and
  reward weights are thresholds.  `Allegro` restores a counter only for runs that do not collect.
- `AssetHub`: the hub's library is external; a download adds the files of a directory in any
  order, or fails.  `DevicePlacement`: what the CUDA runtime latches before a context exists is
  not there.
- `InteractivePlayback`: the reset and the step of the environment are two moments each, the
  backend's call and what observes it; threads that meet inside either of these are left out,
  the best case of the two.

## 6. Plan

1. Model: `SourceSchedule` (projection and integer rounding against the best allocation over
   bounded inputs); preparation of a window with its bootstrap; the sync thread's exceptions
   and the close path of the pipeline; the response timeouts of the exchange; UniSim's
   subprocess protocol; the native H2D and MPS paths.
2. Prove: `RegistrySound`, once the merge of trees is written as a recursive function; the
   equality of `SourceSchedule` with the best allocation, once it is modelled.
