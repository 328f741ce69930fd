---------------------------- MODULE EnvRegistry ----------------------------
(***************************************************************************)
(* base/registry.py: the tasks a process knows, and the environments made  *)
(* from them.  Task modules register themselves when they are imported, so *)
(* each process (the one the user starts, a spawned collector) fills a     *)
(* registry of its own, and asks for it again at every turn: Python runs a *)
(* module once, but one that raised runs again, with what it registered    *)
(* still there.  base/env_factory.py and training/common.py are the        *)
(* callers, ConfigOverrides is what happens to a configuration.            *)
(*                                                                         *)
(* An installation is what can be imported: packages by default, from the  *)
(* environment variable and from entry points, the modules each declares,  *)
(* and the registrations of a module in order.                             *)
(***************************************************************************)
EXTENDS ConfigOverrides
LOCAL INSTANCE SequencesExt

CONSTANTS
    RgInstalls,     \* by number: [defaults, extra, entries : Seq(package), modules, registrations]
    RgLaunches,     \* [task, sections, collects]
    RgSupported     \* _SUPPORTED_SIM_BACKENDS

VARIABLES
    rgInstall, rgLaunch,   \* the number of the installation, and what the user starts
    rgProc,         \* per process: [at, ensured, tasks, imported, todo, override]
    rgBuilt         \* ghost: the environments built, [by, purpose, backend, cfg]

rgvars == <<rgInstall, rgLaunch, rgProc, rgBuilt>>

install == RgInstalls[rgInstall]

\* The process the user starts, and the collector it spawns.
RgProcs == {"launcher", "collector"}

------------------------------------------------------------------------------
(* Registration.                                                              *)

NoTasks == [name \in {} |-> [cls |-> "none", backends |-> <<>>]]

\* register_env_config, register_env.
Registers(tasks, r) ==
    IF r.kind = "config" THEN r.name \notin DOMAIN tasks
    ELSE /\ r.kind = "env"
         /\ r.backend \in RgSupported /\ r.name \in DOMAIN tasks
         /\ ~Contains(tasks[r.name].backends, r.backend)
Registered(tasks, r) ==
    [name \in DOMAIN tasks \cup {r.name} |->
        IF name # r.name THEN tasks[name]
        ELSE IF r.kind = "config" THEN [cls |-> r.cls, backends |-> <<>>]
        ELSE [tasks[name] EXCEPT !.backends = Append(@, r.backend)]]

\* The body of a module: its registrations up to the first that is refused; a "raise"
\* stands for any other error of the body.
RunModule(tasks, module) ==
    Through(LAMBDA acc, r : IF ~acc.ok \/ ~Registers(acc.tasks, r) THEN [acc EXCEPT !.ok = FALSE]
                             ELSE [acc EXCEPT !.tasks = Registered(@, r)],
             [tasks |-> tasks, ok |-> TRUE], install.registrations[module])

Adjoined(list, more) == Through(LAMBDA acc, x : IF Contains(acc, x) THEN acc ELSE Append(acc, x), list, more)

\* The packages of a call and the optional ones: those the environment variable adds.
Packages == Adjoined(Adjoined(install.defaults, install.extra), install.entries)
Optional(package) == Contains(install.extra, package) /\ ~Contains(install.defaults, package)
Installed(package) == package \in DOMAIN install.modules

\* EnvMeta.available_sim_backend.
DefaultBackend(meta) ==
    IF Contains(meta.backends, "mujoco") THEN "mujoco"
    ELSE IF Contains(meta.backends, "motrix") THEN "motrix"
    ELSE IF meta.backends = <<>> THEN "none" ELSE Head(meta.backends)

\* resolve_reward_override_field.
RewardField(cls) ==
    LET fields == DOMAIN Classes[cls].fields
        manager == "rewards" \in fields /\ FieldOf(cls, "rewards").policy = "terms"
        legacy == "reward_config" \in fields
    IN IF manager /\ ~legacy THEN "rewards" ELSE IF legacy /\ ~manager THEN "reward_config" ELSE "none"

------------------------------------------------------------------------------
(* Making an environment.                                                     *)

Materialized(cls) == Instantiated(Put(EmptyDict, Target, Str(cls)))

\* EnvCfg.validate: of its checks, the order of the two periods, the executor and the
\* render mode, and ids, capacities and periods that are positive or unset.
ValidCfg(cfg) ==
    /\ cfg.at["sim_dt"].n <= cfg.at["ctrl_dt"].n
    /\ cfg.at["superdex_execution_mode"].s \in {"batch", "serial"}
    /\ cfg.at["isaacsim_render_mode"] \in {Null} \cup {Str(m) : m \in {"auto", "interactive", "record", "none"}}
    /\ cfg.at["isaacgym_device_id"] # Null => cfg.at["isaacgym_device_id"].n >= 0

\* registry.make: [ok, backend, cfg].
Checked(backends, backend, cfg) ==
    IF cfg # Failed /\ ValidCfg(cfg) /\ Contains(backends, backend)
    THEN [ok |-> TRUE, backend |-> backend, cfg |-> cfg]
    ELSE [ok |-> FALSE, backend |-> "none", cfg |-> Failed]
Make(meta, backend, override) ==
    Checked(meta.backends, IF backend = "none" THEN DefaultBackend(meta) ELSE backend,
            ApplyCfg(Materialized(meta.cls), override))

------------------------------------------------------------------------------
(* Processes.                                                                 *)

Fresh == [at |-> "absent", ensured |-> 0, tasks |-> NoTasks, imported |-> {}, todo |-> <<>>, override |-> EmptyDict]

RgInit ==
    /\ rgInstall \in DOMAIN RgInstalls /\ rgLaunch \in RgLaunches
    /\ rgProc = [p \in RgProcs |-> IF p = "launcher" THEN [Fresh EXCEPT !.at = "main"] ELSE Fresh]
    /\ rgBuilt = {}

Sets(p, new) == rgProc' = [rgProc EXCEPT ![p] = new]
Raise(p) == rgProc' = [rgProc EXCEPT ![p].at = "raised"]

\* A call of ensure_registries, and where it returns to.
Ensure(p, from) ==
    /\ rgProc[p].at = from
    /\ Sets(p, [rgProc[p] EXCEPT !.at = "packages", !.todo = Packages])
    /\ UNCHANGED <<rgInstall, rgLaunch, rgBuilt>>

ReturnTo(p) ==
    IF p = "collector" THEN "make" ELSE IF rgProc[p].ensured = 0 THEN "adapter" ELSE "compose"

\* One package and its modules: a strict one that fails ends the call, an optional one
\* is passed over, module by module.
ImportPackage(p) ==
    LET s == rgProc[p]
        package == Head(s.todo)
        Import(acc, module) ==
            IF acc.raised \/ module \in acc.imported THEN acc
            ELSE LET run == RunModule(acc.tasks, module)
                 IN [tasks |-> run.tasks,
                     imported |-> IF run.ok THEN acc.imported \cup {module} ELSE acc.imported,
                     raised |-> ~run.ok /\ ~Optional(package)]
        done == IF Installed(package)
                THEN Through(Import, [tasks |-> s.tasks, imported |-> s.imported, raised |-> FALSE],
                              install.modules[package])
                ELSE [tasks |-> s.tasks, imported |-> s.imported, raised |-> ~Optional(package)]
    IN
    /\ s.at = "packages" /\ s.todo # <<>>
    /\ Sets(p, [s EXCEPT !.tasks = done.tasks, !.imported = done.imported, !.todo = Tail(@),
                         !.at = IF done.raised THEN "raised" ELSE @])
    /\ UNCHANGED <<rgInstall, rgLaunch, rgBuilt>>

EnsureReturns(p) ==
    /\ rgProc[p].at = "packages" /\ rgProc[p].todo = <<>>
    /\ Sets(p, [rgProc[p] EXCEPT !.at = ReturnTo(p), !.ensured = @ + 1])
    /\ UNCHANGED <<rgInstall, rgLaunch, rgBuilt>>

\* BackendAdapter in the launcher: the override for training, or for playback.
Purpose == IF rgLaunch.sections.playOnly THEN "play" ELSE "train"
ComposedBy(tasks, purpose) ==
    IF rgLaunch.task \notin DOMAIN tasks THEN Failed
    ELSE LET field == RewardField(tasks[rgLaunch.task].cls)
         IN IF field = "none" THEN Failed
            ELSE IF purpose = "play" THEN PlayOverride(rgLaunch.sections, field)
            ELSE TaskOverride(rgLaunch.sections, field)

Composed(override, collects) ==
    IF override = Failed THEN Raise("launcher")
    ELSE rgProc' = [p \in RgProcs |->
             IF p = "collector" THEN IF collects THEN [Fresh EXCEPT !.at = "spawned", !.override = override]
                                     ELSE rgProc[p]
             ELSE [rgProc[p] EXCEPT !.at = IF collects THEN "done" ELSE "make", !.override = override]]
Compose ==
    /\ rgProc["launcher"].at = "compose"
    /\ Composed(ComposedBy(rgProc["launcher"].tasks, Purpose), rgLaunch.collects /\ ~rgLaunch.sections.playOnly)
    /\ UNCHANGED <<rgInstall, rgLaunch, rgBuilt>>

Made(p, env) ==
    IF env.ok
    THEN /\ rgProc' = [rgProc EXCEPT ![p].at = "done"]
         /\ rgBuilt' = rgBuilt \cup {[by |-> p, purpose |-> Purpose, backend |-> env.backend, cfg |-> env.cfg]}
    ELSE Raise(p) /\ UNCHANGED rgBuilt
MakeEnv(p) ==
    LET s == rgProc[p] IN
    /\ s.at = "make"
    /\ IF rgLaunch.task \in DOMAIN s.tasks
       THEN Made(p, Make(s.tasks[rgLaunch.task], rgLaunch.sections.backend, s.override))
       ELSE Raise(p) /\ UNCHANGED rgBuilt
    /\ UNCHANGED <<rgInstall, rgLaunch>>

RgNext ==
    \/ Ensure("launcher", "main") \/ Ensure("launcher", "adapter") \/ Ensure("collector", "spawned")
    \/ \E p \in RgProcs : ImportPackage(p) \/ EnsureReturns(p) \/ MakeEnv(p)
    \/ Compose

RgSpec == RgInit /\ [][RgNext]_rgvars

------------------------------------------------------------------------------
(* Properties.                                                                *)

\* The environment a process builds has every value the reward section, the environment
\* section and the play profile give it, the last word being the profile's, everything
\* else as the task declares it, and its terms in the task's order.
BuiltAsConfigured ==
    \A e \in rgBuilt :
        LET sections == rgLaunch.sections
            cls == e.cfg.cls
            profile == IF e.purpose = "play" /\ sections.play.enabled THEN sections.play.env ELSE EmptyDict
            scene == IF e.purpose = "play" /\ sections.play.enabled /\ sections.play.scene # "none"
                     THEN Put(EmptyDict, "scene", Put(EmptyDict, "model_file", Str(sections.play.scene)))
                     ELSE EmptyDict
            rendered == IF e.purpose = "play"
                        THEN WithRenderIntent(EmptyDict, e.backend, sections.renderMode) ELSE EmptyDict
            reward == Put(EmptyDict, RewardField(cls), RewardSection(sections.reward))
            later == Merge(rendered, Merge(profile, scene))
        IN /\ SetThrough(reward, later, e.cfg)
           /\ SetThrough(sections.env, later, e.cfg)
           /\ SetThrough(rendered, profile, e.cfg)
           /\ SetThrough(profile, scene, e.cfg)
           /\ SetThrough(scene, EmptyDict, e.cfg)
           /\ FrameKept(Materialized(cls), {reward, sections.env, profile, rendered, scene}, e.cfg)
           /\ OrderKept(Materialized(cls), e.cfg)
           /\ ValidCfg(e.cfg)

\* A module of an optional package may build on a task that a later module registers, of
\* its own package or of one after it; it then only runs to its end at the second call.
BuildsOnLater ==
    \E i, j \in DOMAIN Packages :
        /\ i <= j /\ Optional(Packages[i]) /\ Installed(Packages[i]) /\ Installed(Packages[j])
        /\ LET early == install.modules[Packages[i]]
               late == install.modules[Packages[j]]
           IN \E a \in DOMAIN early, b \in DOMAIN late :
                 /\ i < j \/ a < b
                 /\ \E r \in Range(install.registrations[early[a]]), q \in Range(install.registrations[late[b]]) :
                       r.kind = "env" /\ q.kind = "config" /\ r.name = q.name

\* However often a process asks for the registry, and whichever process asks, the tasks
\* are the same: broken optional modules included, nothing is registered twice and
\* nothing more at a second call.
SameTasks ==
    \A p, q \in RgProcs :
        /\ rgProc[p].at \in {"adapter", "compose", "make", "done"}
        /\ rgProc[q].at \in {"adapter", "compose", "make", "done"}
        /\ ~BuildsOnLater
        => rgProc[p].tasks = rgProc[q].tasks

RegistrySound == BuiltAsConfigured /\ SameTasks
=============================================================================
