------------------------------ MODULE RunStore ------------------------------
(***************************************************************************)
(* Training runs on disk.  A job is one call of a training script: it       *)
(* names a directory after the second it started in, writes the contract   *)
(* its policy is trained under, resumes or starts afresh, saves numbered    *)
(* models and a summary, and plays the policy it resolves, which another    *)
(* job may have trained, under its own configuration.  Jobs run side by     *)
(* side, raise, and are killed anywhere.  Every algorithm has a log root of *)
(* its own, so the jobs of one behaviour run one algorithm.                 *)
(*                                                                         *)
(* A contract has a field of each kind: "obs_groups" is denied when it       *)
(* differs; "observations", which gives the policy its width, and           *)
(* "action_scale", which does not, are structural to the environment and    *)
(* are also denied when only one side states them; "reward" only warns.     *)
(***************************************************************************)
EXTENDS Integers, FiniteSetsExt

CONSTANTS
  Jobs,
  Settings,        \* what a job may be launched with: [algo, root, contract, strict, checkpoint, playOnly, noPlay]
  MaxSecond,       \* bound: the second of the last launch
  JobIterations,   \* cfg.algo.max_iterations
  SaveInterval     \* cfg.algo.save_interval

VARIABLES
  second,          \* the clock that names runs
  runs,            \* [root, second] -> the run directory
  job              \* job -> its state

rsvars == <<second, runs, job>>

DefaultRoot == "logs"
Roots == {DefaultRoot, "configured"}
Seconds == 0 .. MaxSecond
Unset == -1        \* the string "-1", the default of algo.load_run
Latest == -2       \* the integer -1, what algo.load_run=-1 is parsed to
Absent == 0
NoModel == [number |-> -1]
NoContract == [observations |-> -1]
OldContract == [obs_groups |-> 1, observations |-> 1, action_scale |-> 1, reward |-> 1]

Contracts == [obs_groups : Nat, observations : Nat, action_scale : Nat, reward : Nat]
ASSUME RunStoreAssumption ==
    /\ IsFiniteSet(Jobs)
    /\ Settings \subseteq [algo : {"ppo", "appo", "sac"}, root : Roots, contract : Contracts, strict : BOOLEAN,
                           checkpoint : Int, playOnly : BOOLEAN, noPlay : BOOLEAN]
    /\ MaxSecond \in Nat /\ JobIterations \in Nat \ {0} /\ SaveInterval \in Nat \ {0}

EmptyRun == [owners |-> {}, snapshot |-> NoContract, models |-> {}, status |-> "none", exported |-> {}, video |-> {}]
(* A run from before contracts were recorded.                              *)
OldRun == [EmptyRun EXCEPT !.models = {[number |-> 1, contract |-> OldContract, trained |-> 2, whole |-> TRUE, at |-> <<DefaultRoot, 0>>]}]

------------------------------------------------------------------------------
(* Resolving a run and a model                                              *)

Exists(dir) == runs[dir] # EmptyRun
Dirs(root) == {s \in Seconds : Exists(<<root, s>>)}

get_latest_run(root) == Max(Dirs(root))

get_latest_checkpoint(dir) == CHOOSE m \in runs[dir].models : \A n \in runs[dir].models : n.number <= m.number

(* resolve_task_checkpoint_path; a run that is named and a checkpoint that is      *)
(* numbered must exist.                                                            *)
Resolve(root, load, checkpoint) ==
    LET named == IF load \in {Unset, Latest} THEN Dirs(root) ELSE Dirs(root) \cap {load}
        dir == <<root, IF load \in {Unset, Latest} THEN get_latest_run(root) ELSE load>>
        chosen == {m \in runs[dir].models : m.number = checkpoint}
    IN  CASE named = {} -> NoModel
          [] named # {} /\ checkpoint # Unset -> IF chosen = {} THEN NoModel ELSE CHOOSE m \in chosen : TRUE
          [] OTHER -> IF runs[dir].models = {} THEN NoModel ELSE get_latest_checkpoint(dir)

(* What a script resolves for playback: the first time to decide whether there     *)
(* is anything to play and where its output goes, the second time in the session   *)
(* that loads it.  PPO hands its first answer on.                                  *)
ResolvedFirst(j) ==
    CASE j.set.algo = "ppo"  -> Resolve(j.set.root, j.load, j.set.checkpoint)
      [] j.set.algo = "appo" -> Resolve(j.set.root, j.load, Unset)
      [] j.set.algo = "sac"  -> Resolve(DefaultRoot, j.load, Unset)
ResolvedSecond(j) ==
    CASE j.set.algo = "ppo"  -> j.resolved
      [] j.set.algo = "appo" -> Resolve(j.set.root, j.load, j.set.checkpoint)
      [] j.set.algo = "sac"  -> Resolve(DefaultRoot, j.load, Unset)

------------------------------------------------------------------------------
(* The contract between a trained policy and the configuration that plays it      *)

Denylist == {"obs_groups", "observations", "action_scale"}
EnvStructural == {"observations", "action_scale"}

(* extract_contract_snapshot and _read_snapshot: absent fields are left out, and a      *)
(* directory with no whole snapshot is an old run.                                     *)
\* Mutant: a field that one side omits is not compared.
DenialsOfStated(source, target) == {f \in Denylist : source[f] # Absent /\ target[f] # Absent /\ source[f] # target[f]}
Denials(source, target) ==
    {f \in Denylist : source[f] # Absent /\ target[f] # Absent /\ source[f] # target[f]}
       \cup {f \in EnvStructural : (source[f] = Absent) # (target[f] = Absent)}
resolve_sim2sim_config(source, target, strict) ==
    \/ source = NoContract
    \/ Denials(source, target) = {}
    \/ ~strict

(* What a field stands for when it is left out: the default of the environment.       *)
Effective(contract, f) == IF contract[f] = Absent THEN 1 ELSE contract[f]
(* policy_load_dim_guard: the widths of the policy are those of the environment.       *)
Fits(policy, contract) == Effective(policy, "observations") = Effective(contract, "observations")

------------------------------------------------------------------------------
NoJob == [pc |-> "idle"]

RsInit ==
    /\ second = 0
    /\ runs = [dir \in Roots \X Seconds |-> IF dir = <<DefaultRoot, 0>> THEN OldRun ELSE EmptyRun]
    /\ job = [j \in Jobs |-> NoJob]

Own(j) == <<job[j].set.root, job[j].at>>
Goes(j, pc) == job' = [job EXCEPT ![j].pc = pc]

------------------------------------------------------------------------------
(* A job names its run after the second it starts in and makes the directory; one that   *)
(* only plays makes none.                                                                *)
LaunchJob(j) ==
    /\ job[j].pc = "idle"
    /\ \E set \in Settings, load \in {Unset, Latest} \cup Seconds, s \in {second, second + 1} :
         /\ s \in 1 .. MaxSecond /\ load < s
         /\ \A k \in Jobs : job[k].pc # "idle" => job[k].set.algo = set.algo
         /\ second' = s
         /\ job' = [job EXCEPT ![j] =
              [pc |-> IF set.playOnly THEN "resolve" ELSE "record", set |-> set, load |-> load, at |-> s,
               offered |-> Resolve(set.root, load, Unset), loaded |-> NoModel, first |-> 0, done |-> 0,
               raised |-> FALSE, resolved |-> NoModel, opened |-> NoModel]]
         /\ runs' = IF set.playOnly THEN runs ELSE [runs EXCEPT ![<<set.root, s>>].owners = @ \cup {j}]

(* ExperimentTracker.start writes run_config.json before anything is built.              *)
Record(j) ==
    /\ job[j].pc = "record"
    /\ runs' = [runs EXCEPT ![Own(j)].snapshot = job[j].set.contract]
    /\ Goes(j, "build")
    /\ UNCHANGED second

(* What a job resumes from: PPO from any load_run but the string "-1" and afresh if that  *)
(* does not resolve, APPO from a run that is named and only from that, SAC never.         *)
Resumes(j) ==
    CASE j.set.algo = "ppo"  -> IF j.load = Unset THEN NoModel ELSE Resolve(j.set.root, j.load, j.set.checkpoint)
      [] j.set.algo = "appo" -> IF j.load \in {Unset, Latest} THEN NoModel ELSE Resolve(j.set.root, j.load, Unset)
      [] j.set.algo = "sac"  -> NoModel
MustResume(j) == j.set.algo = "appo" /\ j.load \notin {Unset, Latest}

FirstIteration(j, model) == IF j.set.algo = "ppo" /\ model # NoModel THEN model.number ELSE 0

Build(j) ==
    LET model == Resumes(job[j])
        loads == model # NoModel => model.whole /\ Fits(model.contract, job[j].set.contract)
        refused == MustResume(job[j]) /\ model = NoModel
    IN
    /\ job[j].pc = "build"
    /\ job' = [job EXCEPT ![j].pc = IF loads /\ ~refused THEN "learn" ELSE "summarise",
                          ![j].raised = ~loads \/ refused,
                          ![j].loaded = IF loads THEN model ELSE NoModel,
                          ![j].first = FirstIteration(job[j], model)]
    /\ UNCHANGED <<second, runs>>

------------------------------------------------------------------------------
(* Iterations and models                                                              *)

Trained(j) == (IF j.loaded = NoModel THEN 0 ELSE j.loaded.trained) + j.done
(* PPO numbers an iteration from zero, the other runners from one.                     *)
Number(j) == IF j.set.algo = "ppo" THEN j.first + j.done - 1 ELSE j.done

Learn(j) ==
    /\ job[j].pc = "learn" /\ job[j].done < JobIterations
    /\ job' = [job EXCEPT ![j].done = @ + 1,
                          ![j].pc = IF Number([job[j] EXCEPT !.done = @ + 1]) % SaveInterval = 0
                                       \/ job[j].done + 1 = JobIterations THEN "save" ELSE "learn"]
    /\ UNCHANGED <<second, runs>>

Model(j, whole) ==
    [number |-> Number(job[j]), contract |-> job[j].set.contract, trained |-> Trained(job[j]), whole |-> whole, at |-> Own(j)]
WithModel(dir, model) ==
    [runs EXCEPT ![dir].models = {m \in @ : m.number # model.number} \cup {model}]

Saved(j) == WithModel(Own(j), Model(j, TRUE))

Save(j) ==
    /\ job[j].pc = "save"
    /\ runs' = Saved(j)
    /\ Goes(j, IF job[j].done = JobIterations THEN "summarise" ELSE "learn")
    /\ UNCHANGED second

Raise(j) ==
    /\ job[j].pc \in {"learn", "save"}
    /\ job' = [job EXCEPT ![j].pc = "summarise", ![j].raised = TRUE]
    /\ UNCHANGED <<second, runs>>

(* The summary: a training that returned is completed; one that raised is failed for      *)
(* SAC, and for the others has the summary without a status that finish writes.           *)
Status(j) == IF ~j.raised THEN "completed" ELSE IF j.set.algo = "sac" THEN "failed" ELSE "none"
should_run_playback(j) == ~j.raised /\ (j.set.playOnly \/ ~j.set.noPlay)

Summarise(j) ==
    /\ job[j].pc = "summarise"
    /\ runs' = [runs EXCEPT ![Own(j)].status = Status(job[j])]
    /\ Goes(j, IF should_run_playback(job[j]) THEN "resolve" ELSE "ended")
    /\ UNCHANGED second

------------------------------------------------------------------------------
(* Playback                                                                           *)

ResolveToPlay(j) ==
    LET model == ResolvedFirst(job[j])
    IN
    /\ job[j].pc = "resolve"
    /\ job' = [job EXCEPT ![j].resolved = model,
                          ![j].pc = IF \/ model = NoModel
                                       \/ job[j].set.algo = "ppo" /\ ~model.whole
                                    THEN "ended" ELSE "session"]
    /\ UNCHANGED <<second, runs>>

OpenSession(j) ==
    LET model == ResolvedSecond(job[j])
        opens == /\ model # NoModel
                 /\ resolve_sim2sim_config(runs[model.at].snapshot, job[j].set.contract, job[j].set.strict)
                 /\ model.whole
                 /\ Fits(model.contract, job[j].set.contract)
    IN
    /\ job[j].pc = "session"
    /\ job' = [job EXCEPT ![j].pc = IF opens THEN "play" ELSE "ended",
                          ![j].opened = IF opens THEN model ELSE NoModel]
    /\ UNCHANGED <<second, runs>>

(* The policy that is open is exported and filmed into the directory resolved first.      *)
Play(j) ==
    LET dir == job[j].resolved.at
    IN
    /\ job[j].pc = "play"
    /\ runs' = [runs EXCEPT ![dir].exported = @ \cup {<<j, job[j].opened>>},
                            ![Own(j)].video = IF job[j].set.playOnly THEN @ ELSE {dir}]
    /\ Goes(j, "ended")
    /\ UNCHANGED second

(* A kill; one inside a write leaves part of the file.                                    *)
Killed(j) ==
    /\ job[j].pc \notin {"idle", "ended", "killed"}
    /\ \/ runs' = runs
       \/ job[j].pc = "record" /\ runs' = [runs EXCEPT ![Own(j)].snapshot = NoContract]
       \/ job[j].pc = "save" /\ runs' = WithModel(Own(j), Model(j, FALSE))
    /\ Goes(j, "killed")
    /\ UNCHANGED second

RsNext ==
    \E j \in Jobs :
        \/ LaunchJob(j) \/ Record(j) \/ Build(j) \/ Learn(j) \/ Save(j) \/ Raise(j) \/ Summarise(j)
        \/ ResolveToPlay(j) \/ OpenSession(j) \/ Play(j) \/ Killed(j)

RsSpec == RsInit /\ [][RsNext]_rsvars

------------------------------------------------------------------------------
(* Properties                                                                          *)

AllRuns == Roots \X Seconds
(* Runs one job wrote; two jobs that start in one second share a directory.               *)
Owned == {dir \in AllRuns : Cardinality(runs[dir].owners) = 1}
OwnerOf(dir) == CHOOSE j \in runs[dir].owners : TRUE
Begun(j) == job[j].pc # "idle"

(* A model is found next to the contract it was trained under, wherever its job was killed. *)
ModelsRecorded == \A dir \in Owned : \A m \in runs[dir].models : runs[dir].snapshot = m.contract

(* A strict playback of a recorded run never drives a policy through another observation     *)
(* contract than its own: not one that is stated, and not one the environment falls back on. *)
PlayedUnderContract ==
    \A j \in {k \in Jobs : Begun(k)} :
        (job[j].opened # NoModel /\ job[j].set.strict /\ job[j].opened.at \in Owned) =>
            /\ \A f \in EnvStructural : Effective(job[j].opened.contract, f) = Effective(job[j].set.contract, f)
            /\ \A f \in Denylist : job[j].opened.contract[f] = job[j].set.contract[f]
                                      \/ Absent \in {job[j].opened.contract[f], job[j].set.contract[f]}

(* The model with the greatest number is the one trained most, also in a run that resumed     *)
(* another, whose first models repeat the last number of the other.                          *)
NewestIsMostTrained ==
    \A dir \in Owned : \A m \in runs[dir].models : m.trained <= get_latest_checkpoint(dir).trained

(* A completed run has its last model, whole; only SAC says that a run failed.              *)
SummaryTells ==
    \A dir \in Owned :
        LET j == job[OwnerOf(dir)]
        IN  /\ runs[dir].status = "completed" =>
                 \E m \in runs[dir].models : m.whole /\ m.trained = Trained(j) /\ j.done = JobIterations
            /\ runs[dir].status = "failed" => j.set.algo = "sac" /\ j.raised

(* PPO exports a policy into the directory it was loaded from, however many runs start        *)
(* meanwhile.                                                                              *)
ExportedBesideItsModel ==
    \A dir \in AllRuns : \A e \in runs[dir].exported : job[e[1]].set.algo = "ppo" => e[2].at = dir

(* The video a training job files is of the run it trained, unless it was told to load         *)
(* another one, a later run has appeared, or SAC logs to a configured root, where its playback   *)
(* does not look.                                                                            *)
FilmsItsOwnRun ==
    \A dir \in Owned :
        (/\ job[OwnerOf(dir)].load \in {Unset, Latest}
         /\ job[OwnerOf(dir)].set.algo = "sac" => dir[1] = DefaultRoot
         /\ \A other \in AllRuns : other[2] > dir[2] => ~Exists(other)) => runs[dir].video \subseteq {dir}

(* Runs and their playback (all of the above).                                            *)
RunsSound ==
    ModelsRecorded /\ PlayedUnderContract /\ NewestIsMostTrained /\ SummaryTells /\ ExportedBesideItsModel /\ FilmsItsOwnRun

(* Resume as the user guide has it: `algo.load_run=-1` with PPO, a run id with SAC.            *)
ResumesAsDocumented ==
    \A j \in {k \in Jobs : Begun(k)} :
        (/\ job[j].pc = "learn" /\ job[j].offered # NoModel /\ job[j].offered.whole
         /\ \/ job[j].set.algo = "ppo" /\ job[j].load # Unset /\ job[j].set.checkpoint = Unset
            \/ job[j].set.algo = "sac" /\ job[j].load \in Seconds) => job[j].loaded # NoModel
=============================================================================
