-------------------------- MODULE DevicePlacement --------------------------
(***************************************************************************)
(* Which GPU a training process, its learner and its simulator end up on.  *)
(* The configuration names CUDA indices; an index means something only in  *)
(* the visibility of one process, and three things rewrite that visibility:*)
(* torchrun's remapped mask for PPO workers, the environment a supervisor  *)
(* hands to its rank processes, and the pin that Genesis needs because its *)
(* session always binds the first visible GPU.                             *)
(*                                                                         *)
(* A visibility is the sequence of physical GPUs a process may address; no *)
(* mask is the mask of all GPUs.  Abstracted: an index is parsed already,  *)
(* and what the CUDA runtime latches before a context exists is not here.  *)
(***************************************************************************)
EXTENDS AssetHub, Integers

CONSTANTS
    DpGpus,        \* number of GPUs of the host
    DpLaunches     \* [script, backend, devices, device, collector, mask, playOnly, failing]

VARIABLES
    dpLaunch,      \* what the user starts
    dpProc,        \* the processes, by number: 0 is the one the user starts
    dpSupervised   \* the ranks process 0 has started, and whether it watches them

dpvars == <<dpLaunch, dpProc, dpSupervised>>

IsolatedBackends == {"isaacgym", "isaacsim"}                          \* device id of a worker process
RoutedBackends   == IsolatedBackends \cup {"genesis", "newton"}       \* BACKEND_ENV_DEVICE_FIELDS
BoundBackends    == {"mjwarp", "newton", "genesis"}                   \* share the learner's device
NoIndex == -1

Cuda(i)  == [type |-> "cuda", index |-> i]
AnyCuda  == Cuda(NoIndex)      \* "cuda", the current device: always the first here
Cpu      == [type |-> "cpu", index |-> NoIndex]
NoDevice == [type |-> "none", index |-> NoIndex]

IsSet(s) == Cardinality({s[i] : i \in DOMAIN s}) = Len(s)

\* A mask names GPUs of the host once each; APPO has no device topology.
DpDevices == {NoDevice, Cpu} \cup [type : {"cuda"}, index : Nat \cup {NoIndex}]
DpStarts == [script : {"ppo", "offpolicy", "appo"}, backend : STRING, devices : Seq(Nat), device : DpDevices,
             collector : DpDevices, mask : {m \in Seq(0 .. DpGpus - 1) : IsSet(m)}, playOnly : BOOLEAN,
             failing : SUBSET Nat]
ASSUME DpAssumption ==
    /\ DpGpus \in Nat /\ DpLaunches \subseteq DpStarts
    /\ \A l \in DpLaunches : l.script = "appo" => l.devices = <<>>

CudaIndex(device) ==
    IF device.type # "cuda" THEN NoIndex ELSE IF device = AnyCuda THEN 0 ELSE device.index

DefaultDevice(visible) == IF visible = <<>> THEN Cpu ELSE AnyCuda

------------------------------------------------------------------------------
(* resolve_backend_env_device_id: the simulator's index in process p, and when *)
(* it refuses.                                                                *)

RouteAccepted(p, world, rank, local) ==
    LET devices == dpLaunch.devices IN
    \/ dpLaunch.backend \notin RoutedBackends
    \/ dpLaunch.backend = "genesis" /\ dpProc[p].pinned
    \/ IF world > 1 THEN local < world /\ (devices # <<>> => Len(devices) = world)
                    ELSE devices # <<>> => rank < Len(devices)

RoutedIndex(p, world, rank, local, device) ==
    IF dpLaunch.backend \notin RoutedBackends THEN NoIndex
    ELSE IF dpLaunch.backend = "genesis" /\ dpProc[p].pinned THEN 0
    ELSE IF world > 1 THEN local
    ELSE IF dpLaunch.devices # <<>> THEN dpLaunch.devices[rank + 1]
    ELSE CudaIndex(device)

Route(p, device) == RoutedIndex(p, dpProc[p].world, dpProc[p].rank, dpProc[p].local, device)
Routable(p) == RouteAccepted(p, dpProc[p].world, dpProc[p].rank, dpProc[p].local)

\* warn_if_backend_device_collision.
Warns(p, index) ==
    /\ dpLaunch.backend \in RoutedBackends /\ ~(dpLaunch.backend = "genesis" /\ dpProc[p].pinned)
    /\ Len(dpLaunch.devices) > 1 /\ dpProc[p].rank > 0 /\ index = 0

------------------------------------------------------------------------------
(* Binding a process to a device.  A pinned process has one visible GPU and   *)
(* calls it cuda:0.                                                           *)

\* What bind_genesis_process_device makes of process state s; `index` is not above 0
\* in a pinned process.
Pinned(s, index) ==
    IF index > 0 /\ ~s.pinned THEN [s EXCEPT !.pinned = TRUE, !.visible = <<@[index + 1]>>, !.device = Cuda(0)]
    ELSE [s EXCEPT !.device = Cuda(0)]
Pinnable(s, index) == index > 0 /\ ~s.pinned => index < Len(s.visible) /\ ~s.context

\* configure_backend_process_device on `device`, called only for a CUDA device.
Bindable(s, device) ==
    CASE dpLaunch.backend = "genesis" -> Pinnable(s, CudaIndex(device)) /\ s.visible # <<>>
      [] dpLaunch.backend \in BoundBackends -> CudaIndex(device) < Len(s.visible)
      [] OTHER -> TRUE
BoundTo(s, device) ==
    IF dpLaunch.backend = "genesis" THEN [Pinned(s, CudaIndex(device)) EXCEPT !.context = TRUE]
    ELSE [s EXCEPT !.device = device]

\* The physical GPU behind a device of a process that sees `visible`; NoIndex when there
\* is none.
Physical(visible, device) ==
    IF CudaIndex(device) \in 0 .. Len(visible) - 1 THEN visible[CudaIndex(device) + 1] ELSE NoIndex

\* The GPU of the simulator that a process with this visibility and these settings
\* creates: `bound` is the device its process is bound to, `index` the override; NoIndex
\* is the backend's own default.
SimulatorGpu(visible, bound, index) ==
    CASE dpLaunch.backend \in IsolatedBackends \cup {"newton"} -> Physical(visible, Cuda(index))
      [] dpLaunch.backend = "mjwarp" -> Physical(visible, bound)
      [] dpLaunch.backend = "genesis" -> Physical(visible, Cuda(IF index > 0 THEN index ELSE 0))
      [] OTHER -> NoIndex

------------------------------------------------------------------------------
Absent == [at |-> "absent", rank |-> 0, local |-> 0, world |-> 1, visible |-> <<>>, pinned |-> FALSE,
           context |-> FALSE, device |-> NoDevice, collector |-> NoDevice, warned |-> FALSE,
           learnerGpu |-> NoIndex, simGpu |-> NoIndex]
Started(visible, rank, local, world) ==
    [Absent EXCEPT !.at = "topology", !.visible = visible, !.rank = rank, !.local = local, !.world = world]

Over == {"completed", "raised"}
Procs == 0 .. DpGpus

DpInit ==
    /\ dpLaunch \in DpLaunches
    /\ dpProc = [p \in Procs |-> IF p = 0 THEN Started(dpLaunch.mask, 0, 0, 1) ELSE Absent]
    /\ dpSupervised = [ranks |-> {}, watched |-> FALSE]

Becomes(p, s) == dpProc' = [dpProc EXCEPT ![p] = s]
Move(p, s, at) == Becomes(p, [s EXCEPT !.at = at]) /\ UNCHANGED <<dpLaunch, dpSupervised>>
Refuse(p) == Move(p, dpProc[p], "raised")
Proceed(p, accepted, s, at) == IF accepted THEN Move(p, s, at) ELSE Refuse(p)

Launchable(p) == \A i \in DOMAIN dpLaunch.devices : dpLaunch.devices[i] < Len(dpProc[p].visible)

\* resolve_cuda_visible_devices.
Remapped(visible) == [i \in DOMAIN dpLaunch.devices |-> visible[dpLaunch.devices[i] + 1]]

\* resolve_dp_topology, and PPO's own refusals.
Topology(p) ==
    LET s == dpProc[p]
        ppo == dpLaunch.script = "ppo"
        several == Len(dpLaunch.devices) > 1 /\ s.world = 1
        accepted ==
            /\ IsSet(dpLaunch.devices)
            /\ ppo => /\ dpLaunch.device = NoDevice \/ dpLaunch.devices = <<>>
                      /\ s.world = 1 => Launchable(p)
    IN
    /\ s.at = "topology"
    /\ Proceed(p, accepted, s, IF ppo /\ several /\ ~dpLaunch.playOnly THEN "launch" ELSE "pin")

\* launch_torchrun_workers: one worker per device under a remapped mask.
LaunchWorkers ==
    LET n == Len(dpLaunch.devices) IN
    /\ dpProc[0].at = "launch"
    /\ dpProc' = [p \in Procs |->
           IF p = 0 THEN [dpProc[0] EXCEPT !.at = "waiting"]
           ELSE IF p <= n THEN Started(Remapped(dpProc[0].visible), p - 1, p - 1, n) ELSE Absent]
    /\ dpSupervised' = [ranks |-> 1 .. n, watched |-> FALSE]
    /\ UNCHANGED dpLaunch

\* pin_genesis_device_before_cuda_init.  A pinned PPO worker sees one GPU and calls
\* itself local rank 0.
Pin(p) ==
    LET s == dpProc[p]
        index == Route(p, dpLaunch.device)
        pins == dpLaunch.backend = "genesis" /\ index > 0
        bound == [Pinned(s, index) EXCEPT !.context = TRUE]
    IN
    /\ s.at = "pin"
    /\ IF ~pins THEN Proceed(p, dpLaunch.backend = "genesis" => Routable(p), s, "device")
       ELSE Proceed(p, Routable(p) /\ Pinnable(s, index),
                    IF s.world > 1 THEN [bound EXCEPT !.local = 0] ELSE bound, "device")

\* The device of the learner, from the topology or the configuration; a pinned process
\* keeps the one it was pinned to.
ConfiguredDevice(p) ==
    LET s == dpProc[p] IN
    IF s.pinned THEN Cuda(0)
    ELSE IF dpLaunch.script = "ppo" /\ s.world > 1 THEN Cuda(s.local)
    ELSE IF dpLaunch.devices # <<>> /\ dpLaunch.script # "appo" THEN Cuda(dpLaunch.devices[s.rank + 1])
    ELSE IF dpLaunch.device # NoDevice THEN dpLaunch.device
    ELSE DefaultDevice(s.visible)

\* main binds the simulator to the learner's device.  APPO moves a CUDA collector along.
ChooseDevice(p) ==
    LET s == dpProc[p]
        device == ConfiguredDevice(p)
        binds == device.type = "cuda"
        bound == IF binds THEN BoundTo(s, device) ELSE [s EXCEPT !.device = device]
        follows == dpLaunch.collector.type = "cuda" /\ (s.pinned \/ (binds /\ dpLaunch.backend \in BoundBackends))
    IN
    /\ s.at = "device"
    /\ Proceed(p, binds => Bindable(s, device),
               [bound EXCEPT !.collector = IF follows THEN bound.device ELSE dpLaunch.collector],
               IF dpLaunch.script = "offpolicy" /\ s.rank = 0 /\ Len(dpLaunch.devices) > 1
               THEN "supervise" ELSE "build")

\* Off-policy rank 0: validate_dp_launchable, then DpRankSupervisor starts the others
\* with its own environment.
Supervise ==
    LET n == Len(dpLaunch.devices) IN
    /\ dpProc[0].at = "supervise"
    /\ IF ~Launchable(0) THEN Refuse(0)
       ELSE /\ dpProc' = [p \in Procs |->
                   IF p = 0 THEN [dpProc[0] EXCEPT !.at = "build"]
                   ELSE IF p < n THEN Started(dpProc[0].visible, p, 0, 1) ELSE Absent]
            /\ dpSupervised' = [ranks |-> 1 .. n - 1, watched |-> TRUE]
            /\ UNCHANGED dpLaunch

\* APPO hands its runner the configured device, not the one main has bound.
LearnerDevice(p) ==
    IF dpLaunch.script # "appo" THEN dpProc[p].device
    ELSE IF dpLaunch.device # NoDevice THEN dpLaunch.device ELSE DefaultDevice(dpProc[p].visible)

\* The environment override and the device of the learner; the off-policy and APPO
\* collectors are fresh processes with this one's environment, in which Genesis binds
\* again.
Build(p) ==
    LET s == dpProc[p]
        learner == LearnerDevice(p)
        simDevice == IF dpLaunch.script = "appo" /\ s.collector.type = "cuda" THEN s.collector ELSE s.device
        index == Route(p, simDevice)
    IN
    /\ s.at = "build"
    /\ Proceed(p, /\ Routable(p)
                  /\ learner.type = "cuda" => Physical(s.visible, learner) # NoIndex
                  /\ dpLaunch.script = "offpolicy" => learner.type = "cuda",
               [s EXCEPT !.warned = Warns(p, index),
                         !.learnerGpu = Physical(s.visible, learner),
                         !.simGpu = SimulatorGpu(s.visible, simDevice, index)],
               "training")

TrainEnds(p) ==
    /\ dpProc[p].at = "training"
    /\ \/ Move(p, dpProc[p], "completed")
       \/ p \in dpLaunch.failing /\ Refuse(p)

RankFailed == \E r \in dpSupervised.ranks : dpProc[r].at = "raised"

\* _watchdog_loop: a rank that failed takes rank 0 down with it.
Watchdog ==
    /\ dpSupervised.watched /\ RankFailed
    /\ dpProc[0].at \in {"build", "training"}
    /\ Move(0, dpProc[0], "unwinding")

\* DpRankSupervisor.__exit__ and the return code of torchrun: rank 0 succeeds only if
\* every rank has.
Outcome ==
    IF \A r \in dpSupervised.ranks : dpProc[r].at = "completed" THEN "completed" ELSE "raised"

\* Whether rank 0 ended well or not, no rank is left running: it waits its grace for
\* those that still train and then ends them.
ExitSupervisor ==
    LET s == dpProc[0]
        ended == [p \in Procs |-> IF dpProc[p].at \in Over \cup {"absent"} THEN dpProc[p]
                                  ELSE [dpProc[p] EXCEPT !.at = "raised"]]
        well == s.at \in {"completed", "waiting"}
    IN
    /\ dpSupervised.ranks # {}
    /\ s.at \in {"completed", "raised", "unwinding", "waiting"}
    /\ s.at = "waiting" => RankFailed \/ \A r \in dpSupervised.ranks : dpProc[r].at \in Over
    /\ dpProc' = [ended EXCEPT ![0].at = IF well THEN Outcome ELSE "raised"]
    /\ dpSupervised' = [ranks |-> {}, watched |-> FALSE]
    /\ UNCHANGED dpLaunch

DpNext ==
    \/ \E p \in Procs :
           \/ Topology(p) \/ Pin(p) \/ ChooseDevice(p) \/ Build(p)
           \/ TrainEnds(p)
    \/ LaunchWorkers \/ Supervise \/ Watchdog \/ ExitSupervisor

DpSpec == DpInit /\ [][DpNext]_dpvars

------------------------------------------------------------------------------
(* Properties.                                                                *)

Training(p) == dpProc[p].at \in {"training", "completed"} /\ dpProc[p].learnerGpu # NoIndex
WantedGpu(p) ==
    LET seen == dpLaunch.mask IN
    IF dpLaunch.devices # <<>> /\ dpLaunch.script # "appo"
    THEN seen[dpLaunch.devices[dpProc[p].rank + 1] + 1]
    ELSE IF dpLaunch.device.type = "cuda" THEN Physical(seen, dpLaunch.device) ELSE seen[1]

\* Through masks, remapped masks and pins, the learner of rank i computes on the GPU the
\* user's list names at i in the user's own visibility.
LearnerWhereConfigured == \A p \in Procs : Training(p) => dpProc[p].learnerGpu = WantedGpu(p)

\* The simulator of a process runs on the GPU of its learner, or of the APPO collector
\* that holds it when the backend lets the two differ.
SimulatorWithItsUser ==
    \A p \in Procs : Training(p) /\ dpProc[p].simGpu # NoIndex =>
        dpProc[p].simGpu = IF dpLaunch.script = "appo" /\ dpProc[p].collector.type = "cuda"
                           THEN Physical(dpProc[p].visible, dpProc[p].collector)
                           ELSE dpProc[p].learnerGpu

\* No two ranks train on one GPU.
RanksApart ==
    \A p, q \in Procs : p # q /\ Training(p) /\ Training(q) => dpProc[p].learnerGpu # dpProc[q].learnerGpu

\* A run whose first process reports success has left no rank behind, and every rank it
\* started has completed.
SuccessOfAllRanks ==
    dpProc[0].at = "completed" /\ dpSupervised.ranks = {} =>
        \A p \in Procs : dpProc[p].at \in {"absent", "completed"}

\* A training run is placed as its configuration says and ends as one.
PlacementSound == LearnerWhereConfigured /\ SimulatorWithItsUser /\ RanksApart /\ SuccessOfAllRanks

\* 3-sac.md:50: "`training.devices` assigns rank i's learner to `cuda:devices[i]`": a list
\* of GPUs that exist is not refused.
EveryOrderLaunches ==
    dpLaunch.script = "offpolicy" /\ IsSet(dpLaunch.devices) /\ dpLaunch.devices # <<>>
        /\ (\A i \in DOMAIN dpLaunch.devices : dpLaunch.devices[i] < Len(dpLaunch.mask))
        /\ dpLaunch.failing = {} =>
        \A p \in Procs : dpProc[p].at # "raised"

\* What a launch takes from outside is what it asked for: the files its processes resolve,
\* however many resolve and are killed at once (AssetHub), and the GPUs they end up on.
LaunchSound == AssetsSound /\ PlacementSound
=============================================================================
