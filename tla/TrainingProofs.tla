--------------------------- MODULE TrainingProofs ---------------------------
(***************************************************************************)
(* What training leaves on disk.                                           *)
(*                                                                         *)
(* Runs, whatever the jobs that share a log root do to each other.          *)
(* What RunStore promises of a run holds of a directory one job wrote; two  *)
(* jobs of one second share theirs, and nothing is promised of it.  The     *)
(* invariant says of a directory with a sole owner what is on disk at each  *)
(* place of its job, the place where it was killed included, and of the     *)
(* models other jobs hold that they are of such a directory and of the      *)
(* contract filed there.  Every step but a launch leaves all but the        *)
(* directory its job trains in (Frame), up to what is exported.             *)
(*                                                                         *)
(* Synchronous training over its stops and resumes: the episodes the        *)
(* samples of one learner are labelled with, and what load finds in a file.  *)
(* The counters and the quota history it validates are sums; the lemmas on   *)
(* sums come before.                                                        *)
(***************************************************************************)
EXTENDS SyncTraining, RunStore, FiniteSetTheorems, TLAPS

------------------------------------------------------------------------------
(* Runs: what is on disk at each place of the jobs that share it.              *)

Models == [number : Nat, contract : Contracts, trained : Nat, whole : BOOLEAN, at : AllRuns]
Places == {"record", "build", "learn", "save", "summarise", "resolve", "session", "play", "ended", "killed"}
Playing == {"resolve", "session", "play", "ended", "killed"}
MaybeModel == Models \cup {NoModel}

RunDirectories ==
    [owners : SUBSET Jobs, snapshot : Contracts \cup {NoContract}, models : SUBSET Models,
     status : {"none", "completed", "failed"}, exported : SUBSET (Jobs \X Models), video : SUBSET AllRuns]
JobStates ==
    [pc : Places, set : Settings, load : {Unset, Latest} \cup Seconds, at : 1 .. MaxSecond, offered : MaybeModel,
     loaded : MaybeModel, first : Nat, done : 0 .. JobIterations, raised : BOOLEAN, resolved : MaybeModel,
     opened : MaybeModel]

RsTypes ==
    /\ second \in Seconds
    /\ runs \in [AllRuns -> RunDirectories]
    /\ DOMAIN job = Jobs /\ job = [j \in Jobs |-> job[j]]
    /\ \A j \in Jobs : job[j] = NoJob \/ job[j] \in JobStates

\* A directory belongs to the jobs that train in it.
Trains(j) == Begun(j) /\ ~job[j].set.playOnly
RsOwners ==
    /\ \A dir \in AllRuns : \A j \in runs[dir].owners : Trains(j) /\ Own(j) = dir
    /\ \A j \in Jobs : Trains(j) => j \in runs[Own(j)].owners
    /\ \A j \in Jobs : Begun(j) /\ job[j].set.playOnly => job[j].pc \in Playing
    /\ \A dir \in AllRuns : runs[dir].owners = {} =>
          /\ runs[dir].status = "none" /\ runs[dir].video = {}
          /\ dir[2] # 0 => runs[dir].models = {}

\* A model is in the directory it was saved to, one of them has the greatest number,
\* and of the runs of a root one is the latest.
HasTop(dir) == runs[dir].models = {} \/ \E m \in runs[dir].models : \A n \in runs[dir].models : n.number <= m.number
RsModels ==
    /\ \A dir \in AllRuns : HasTop(dir) /\ \A m \in runs[dir].models : m.at = dir
    /\ \A root \in Roots : /\ \A s \in Dirs(root) : s <= second
                           /\ Dirs(root) = {} \/ \E s \in Dirs(root) : \A t \in Dirs(root) : s >= t

RsCounts ==
    \A j \in Jobs : Begun(j) =>
       /\ job[j].pc \in {"record", "build"} => job[j].done = 0
       /\ job[j].pc = "save" => job[j].done >= 1
       /\ job[j].pc \in {"session", "play"} => job[j].resolved # NoModel
       /\ job[j].pc = "play" => /\ job[j].opened # NoModel
                                /\ job[j].set.algo = "ppo" => job[j].opened = job[j].resolved

\* A directory of one job only.
Sole(dir, j) == runs[dir].owners = {j}

ContractFiled(dir, j) ==
    /\ job[j].pc \in {"record", "build"} => runs[dir].models = {}
    /\ job[j].pc # "record" /\ (job[j].pc # "killed" \/ runs[dir].models # {}) =>
          runs[dir].snapshot = job[j].set.contract

Offset(jb) == Trained(jb) - Number(jb)
Numbered(dir, j) ==
    \A m \in runs[dir].models : /\ m.contract = job[j].set.contract
                                /\ m.trained - m.number = Offset(job[j])

HasLast(dir, j) ==
    job[j].done = JobIterations /\ \E m \in runs[dir].models : m.whole = TRUE /\ m.trained = Trained(job[j])
Summarised(dir, j) ==
    /\ job[j].pc \in {"record", "build", "learn", "save", "summarise"} => runs[dir].status = "none"
    /\ job[j].pc = "summarise" /\ job[j].raised = FALSE => HasLast(dir, j)
    /\ runs[dir].status = "completed" => HasLast(dir, j)
    /\ runs[dir].status = "failed" => job[j].set.algo = "sac" /\ job[j].raised = TRUE

NoneLater(dir) == \A other \in AllRuns : other[2] > dir[2] => ~Exists(other)
Filmed(dir, j) ==
    /\ job[j].load \in {Unset, Latest}
    /\ job[j].set.algo = "sac" => dir[1] = DefaultRoot
    /\ NoneLater(dir)
    => /\ runs[dir].video \subseteq {dir}
       /\ job[j].pc \in {"session", "play"} => job[j].resolved.at = dir

RsSole ==
    \A dir \in AllRuns, j \in Jobs :
       Sole(dir, j) => ContractFiled(dir, j) /\ Numbered(dir, j) /\ Summarised(dir, j) /\ Filmed(dir, j)

\* A model a job holds is of a directory that has models, and of the contract there.
Known(m) ==
    /\ runs[m.at].models # {}
    /\ \A j \in Jobs : Sole(m.at, j) => /\ job[j].pc \notin {"record", "build"}
                                        /\ m.contract = job[j].set.contract
                                        /\ runs[m.at].snapshot = job[j].set.contract
RsKnown ==
    \A j \in Jobs : Begun(j) => /\ job[j].resolved # NoModel => Known(job[j].resolved)
                                /\ job[j].opened # NoModel => Known(job[j].opened)

SameContract(mine, other) ==
    /\ \A f \in EnvStructural : Effective(mine, f) = Effective(other, f)
    /\ \A f \in Denylist : mine[f] = other[f] \/ Absent \in {mine[f], other[f]}
RsPlayed ==
    \A j \in Jobs : Begun(j) /\ job[j].opened # NoModel /\ job[j].set.strict = TRUE =>
       \A k \in Jobs : Sole(job[j].opened.at, k) => SameContract(job[j].opened.contract, job[j].set.contract)

RsExported ==
    \A dir \in AllRuns : \A e \in runs[dir].exported :
       Begun(e[1]) /\ (job[e[1]].set.algo = "ppo" => e[2].at = dir)

RsInv == RsTypes /\ RsOwners /\ RsModels /\ RsCounts /\ RsSole /\ RsKnown /\ RsPlayed /\ RsExported

\* What every step but a launch leaves: other jobs, the settings of its own, who owns
\* what, and the directories it does not train in, up to what is exported there.
Frame(j) ==
    /\ Begun(j)
    /\ \A k \in Jobs \ {j} : job'[k] = job[k]
    /\ DOMAIN job' = Jobs /\ job' = [k \in Jobs |-> job'[k]]
    /\ job'[j] \in JobStates
    /\ job'[j].set = job[j].set /\ job'[j].load = job[j].load /\ job'[j].at = job[j].at
    /\ job[j].set.playOnly = TRUE => job'[j].pc \in Playing
    /\ second' = second
    /\ runs' \in [AllRuns -> RunDirectories]
    /\ \A dir \in AllRuns : runs'[dir].owners = runs[dir].owners /\ (Exists(dir)' <=> Exists(dir))
    /\ \A dir \in AllRuns : runs[dir].models # {} => runs'[dir].models # {}
    /\ \A dir \in AllRuns : dir # Own(j) \/ job[j].set.playOnly = TRUE =>
          /\ runs'[dir].snapshot = runs[dir].snapshot /\ runs'[dir].models = runs[dir].models
          /\ runs'[dir].status = runs[dir].status /\ runs'[dir].video = runs[dir].video

LEMMA ModelIsThere ==
  ASSUME NEW m \in Models
  PROVE  m # NoModel
BY DEF Models, NoModel

LEMMA BegunJob ==
  ASSUME RsTypes, NEW j \in Jobs
  PROVE  /\ Begun(j) => job[j] \in JobStates
         /\ ~Begun(j) => job[j] = NoJob
         /\ job[j] \in JobStates => Begun(j)
<1>1. job[j] = NoJob \/ job[j] \in JobStates
  BY DEF RsTypes
<1>2. NoJob.pc = "idle"
  BY DEF NoJob
<1>3. \A r \in JobStates : r.pc # "idle"
  BY DEF JobStates, Places
<1> QED BY <1>1, <1>2, <1>3 DEF Begun

LEMMA JobFields ==
  ASSUME NEW r \in JobStates
  PROVE  /\ r.pc \in Places /\ r.set \in Settings /\ r.load \in {Unset, Latest} \cup Seconds /\ r.at \in 1 .. MaxSecond
         /\ r.loaded \in MaybeModel /\ r.first \in Nat /\ r.done \in 0 .. JobIterations /\ r.raised \in BOOLEAN
         /\ r.resolved \in MaybeModel /\ r.opened \in MaybeModel /\ r.offered \in MaybeModel
BY DEF JobStates

LEMMA SettingFields ==
  ASSUME NEW s \in Settings
  PROVE  /\ s.algo \in {"ppo", "appo", "sac"} /\ s.root \in Roots /\ s.contract \in Contracts /\ s.strict \in BOOLEAN
         /\ s.checkpoint \in Int /\ s.playOnly \in BOOLEAN /\ s.noPlay \in BOOLEAN
BY RunStoreAssumption

LEMMA OwnRun ==
  ASSUME RsTypes, NEW j \in Jobs, Begun(j)
  PROVE  Own(j) \in AllRuns /\ Own(j)[2] # 0 /\ Own(j)[1] = job[j].set.root /\ Own(j)[2] = job[j].at
<1>1. job[j] \in JobStates
  BY BegunJob
<1>2. job[j].at \in 1 .. MaxSecond /\ job[j].set.root \in Roots
  BY <1>1, JobFields, SettingFields
<1> QED BY <1>2, RunStoreAssumption DEF Own, AllRuns, Seconds

LEMMA RunFields ==
  ASSUME RsTypes, NEW dir \in AllRuns
  PROVE  /\ runs[dir] \in RunDirectories
         /\ runs[dir].owners \subseteq Jobs /\ runs[dir].models \subseteq Models /\ runs[dir].video \subseteq AllRuns
         /\ runs[dir].snapshot \in Contracts \cup {NoContract} /\ runs[dir].status \in {"none", "completed", "failed"}
         /\ runs[dir].exported \subseteq Jobs \X Models
<1>1. runs[dir] \in RunDirectories
  BY DEF RsTypes
<1> QED BY <1>1 DEF RunDirectories

LEMMA OwnersExist ==
  ASSUME NEW dir, runs[dir].owners # {}
  PROVE  Exists(dir)
<1>1. EmptyRun.owners = {}
  BY DEF EmptyRun
<1> QED BY <1>1 DEF Exists

LEMMA SoleOwner ==
  ASSUME RsTypes, NEW dir \in Owned
  PROVE  dir \in AllRuns /\ OwnerOf(dir) \in Jobs /\ Sole(dir, OwnerOf(dir))
<1>1. dir \in AllRuns /\ Cardinality(runs[dir].owners) = 1
  BY DEF Owned
<1>2. runs[dir].owners \subseteq Jobs
  BY <1>1, RunFields
<1>3. IsFiniteSet(runs[dir].owners)
  BY <1>2, RunStoreAssumption, FS_Subset
<1>4. PICK j : runs[dir].owners = {j}
  BY <1>1, <1>3, FS_Singleton
<1> QED BY <1>1, <1>2, <1>4 DEF OwnerOf, Sole

LEMMA SoleIsOwned ==
  ASSUME NEW dir \in AllRuns, NEW j, Sole(dir, j)
  PROVE  dir \in Owned
<1>1. Cardinality({j}) = 1
  BY FS_Singleton
<1> QED BY <1>1 DEF Sole, Owned

LEMMA FrameBegun ==
  ASSUME RsTypes, NEW j \in Jobs, Frame(j)
  PROVE  /\ RsTypes'
         /\ \A k \in Jobs : Begun(k)' <=> Begun(k)
         /\ \A k \in Jobs : Begun(k) => /\ job'[k] \in JobStates /\ job'[k].set = job[k].set
                                        /\ job'[k].load = job[k].load /\ job'[k].at = job[k].at /\ Own(k)' = Own(k)
         /\ \A k \in Jobs : Trains(k)' <=> Trains(k)
<1>1. \A k \in Jobs : k = j \/ job'[k] = job[k]
  BY DEF Frame
<1>2. RsTypes'
  BY <1>1 DEF Frame, RsTypes
<1>3. \A k \in Jobs : Begun(k)' <=> Begun(k)
  <2>1. Begun(j) /\ Begun(j)'
    <3>1. job'[j] \in JobStates
      BY DEF Frame
    <3>2. job'[j].pc # "idle"
      BY <3>1 DEF JobStates, Places
    <3> QED BY <3>2 DEF Frame, Begun
  <2> QED BY <1>1, <2>1 DEF Begun
<1>4. \A k \in Jobs : Begun(k) => /\ job'[k] \in JobStates /\ job'[k].set = job[k].set
                                  /\ job'[k].load = job[k].load /\ job'[k].at = job[k].at
  <2>1. SUFFICES ASSUME NEW k \in Jobs, Begun(k)
                 PROVE  /\ job'[k] \in JobStates /\ job'[k].set = job[k].set
                        /\ job'[k].load = job[k].load /\ job'[k].at = job[k].at
    OBVIOUS
  <2>2. CASE k = j
    BY <2>2 DEF Frame
  <2>3. CASE k # j
    BY <1>1, <2>1, <2>3, BegunJob
  <2> QED BY <2>2, <2>3
<1>5. \A k \in Jobs : Begun(k) => Own(k)' = Own(k)
  BY <1>4 DEF Own
<1>6. \A k \in Jobs : Trains(k)' <=> Trains(k)
  BY <1>3, <1>4 DEF Trains
<1> QED BY <1>2, <1>3, <1>4, <1>5, <1>6

LEMMA FrameOwners ==
  ASSUME RsTypes, RsOwners, NEW j \in Jobs, Frame(j)
  PROVE  RsOwners'
<1>1. /\ \A k \in Jobs : (Begun(k)' <=> Begun(k)) /\ (Trains(k)' <=> Trains(k))
      /\ \A k \in Jobs : Begun(k) => job'[k].set = job[k].set /\ Own(k)' = Own(k)
  BY FrameBegun
<1>2. \A dir \in AllRuns : runs'[dir].owners = runs[dir].owners /\ runs[dir].owners \subseteq Jobs
  BY RunFields DEF Frame
<1>3. \A k \in Jobs : Trains(k) => Begun(k) /\ Own(k) \in AllRuns
  BY OwnRun DEF Trains
<1>4. \A dir \in AllRuns : \A k \in runs'[dir].owners : Trains(k)' /\ Own(k)' = dir
  BY <1>1, <1>2, <1>3 DEF RsOwners
<1>5. \A k \in Jobs : Trains(k)' => k \in runs'[Own(k)'].owners
  BY <1>1, <1>2, <1>3 DEF RsOwners
<1>6. \A k \in Jobs : Begun(k)' /\ job'[k].set.playOnly => job'[k].pc \in Playing
  <2>1. SUFFICES ASSUME NEW k \in Jobs, Begun(k)', job'[k].set.playOnly PROVE job'[k].pc \in Playing
    OBVIOUS
  <2>2. Begun(k) /\ job[k].set.playOnly
    BY <1>1, <2>1
  <2>3. CASE k = j
    <3>1. job[j].set.playOnly \in BOOLEAN
      BY <2>2, <2>3, BegunJob, JobFields, SettingFields
    <3> QED BY <2>2, <2>3, <3>1 DEF Frame
  <2>4. CASE k # j
    <3>1. job'[k] = job[k]
      BY <2>4 DEF Frame
    <3> QED BY <2>2, <3>1 DEF RsOwners
  <2> QED BY <2>3, <2>4
<1>7. \A dir \in AllRuns : runs'[dir].owners = {} =>
          /\ runs'[dir].status = "none" /\ runs'[dir].video = {}
          /\ dir[2] # 0 => runs'[dir].models = {}
  <2>1. SUFFICES ASSUME NEW dir \in AllRuns, runs[dir].owners = {}
                 PROVE  /\ runs'[dir].status = "none" /\ runs'[dir].video = {}
                        /\ dir[2] # 0 => runs'[dir].models = {}
    BY <1>2
  <2>2. dir # Own(j) \/ job[j].set.playOnly = TRUE
    <3>1. Begun(j)
      BY DEF Frame
    <3>2. Trains(j) => Own(j) # dir
      BY <2>1 DEF RsOwners
    <3>3. job[j].set.playOnly \in BOOLEAN
      BY <3>1, BegunJob, JobFields, SettingFields
    <3> QED BY <3>1, <3>2, <3>3 DEF Trains
  <2>3. /\ runs[dir].status = "none" /\ runs[dir].video = {}
        /\ dir[2] # 0 => runs[dir].models = {}
    BY <2>1 DEF RsOwners
  <2> QED BY <2>2, <2>3 DEF Frame
<1> QED BY <1>4, <1>5, <1>6, <1>7 DEF RsOwners

FourOf(dir, j) == ContractFiled(dir, j) /\ Numbered(dir, j) /\ Summarised(dir, j) /\ Filmed(dir, j)

LEMMA FrameSole ==
  ASSUME RsTypes, RsOwners, RsSole, NEW j \in Jobs, Frame(j),
         \A o \in AllRuns : Trains(j) /\ o = Own(j) /\ Sole(o, j) => FourOf(o, j)'
  PROVE  RsSole'
<1>1. SUFFICES ASSUME NEW dir \in AllRuns, NEW k \in Jobs, Sole(dir, k)' PROVE FourOf(dir, k)'
  BY DEF RsSole, FourOf
<1>2. Sole(dir, k)
  BY <1>1 DEF Sole, Frame
<1>3. Trains(k) /\ Own(k) = dir /\ Begun(k)
  <2>1. k \in runs[dir].owners
    BY <1>2 DEF Sole
  <2> QED BY <2>1 DEF RsOwners, Trains
<1>4. CASE k = j
  BY <1>2, <1>3, <1>4
<1>5. CASE k # j
  <2>1. job'[k] = job[k]
    BY <1>5 DEF Frame
  <2>2. dir # Own(j) \/ job[j].set.playOnly = TRUE
    <3>1. Begun(j)
      BY DEF Frame
    <3>2. Trains(j) => Own(j) # dir
      BY <1>2, <1>5 DEF RsOwners, Sole
    <3>3. job[j].set.playOnly \in BOOLEAN
      BY <3>1, BegunJob, JobFields, SettingFields
    <3> QED BY <3>1, <3>2, <3>3 DEF Trains
  <2>3. /\ runs'[dir].snapshot = runs[dir].snapshot /\ runs'[dir].models = runs[dir].models
        /\ runs'[dir].status = runs[dir].status /\ runs'[dir].video = runs[dir].video
    BY <2>2 DEF Frame
  <2>4. NoneLater(dir)' <=> NoneLater(dir)
    BY DEF Frame, NoneLater
  <2>5. FourOf(dir, k)
    BY <1>2 DEF RsSole, FourOf
  <2>6. ContractFiled(dir, k)' /\ Numbered(dir, k)'
    BY <2>1, <2>3, <2>5 DEF FourOf, ContractFiled, Numbered, Offset, Trained, Number
  <2>7. Summarised(dir, k)'
    BY <2>1, <2>3, <2>5 DEF FourOf, Summarised, HasLast, Trained
  <2>8. Filmed(dir, k)'
    BY <2>1, <2>3, <2>4, <2>5 DEF FourOf, Filmed
  <2> QED BY <2>6, <2>7, <2>8 DEF FourOf
<1> QED BY <1>4, <1>5

\* What is known of a model stays known.
KeepsContracts(j) ==
    /\ job'[j].pc \in {"record", "build"} => job[j].pc \in {"record", "build"}
    /\ Trains(j) => runs'[Own(j)].snapshot = runs[Own(j)].snapshot \/ job[j].pc = "record"

LEMMA KnownStays ==
  ASSUME RsTypes, RsOwners, NEW j \in Jobs, Frame(j), KeepsContracts(j), NEW m, m.at \in AllRuns, Known(m)
  PROVE  Known(m)'
<1>1. runs'[m.at].models # {}
  BY DEF Known, Frame
<1>2. ASSUME NEW k \in Jobs, Sole(m.at, k)'
      PROVE  /\ job'[k].pc \notin {"record", "build"}
             /\ m.contract = job'[k].set.contract
             /\ runs'[m.at].snapshot = job'[k].set.contract
  <2>1. Sole(m.at, k)
    BY <1>2 DEF Sole, Frame
  <2>2. /\ job[k].pc \notin {"record", "build"} /\ m.contract = job[k].set.contract
        /\ runs[m.at].snapshot = job[k].set.contract
    BY <2>1 DEF Known
  <2>3. Trains(k) /\ Own(k) = m.at /\ Begun(k)
    <3>1. k \in runs[m.at].owners
      BY <2>1 DEF Sole
    <3> QED BY <3>1 DEF RsOwners, Trains
  <2>4. job'[k].set = job[k].set
    BY <2>3, FrameBegun
  <2>5. CASE k = j
    BY <2>2, <2>3, <2>4, <2>5 DEF KeepsContracts
  <2>6. CASE k # j
    <3>1. job'[k] = job[k]
      BY <2>6 DEF Frame
    <3>2. m.at # Own(j) \/ job[j].set.playOnly = TRUE
      <4>1. Begun(j)
        BY DEF Frame
      <4>2. Trains(j) => Own(j) # m.at
        BY <2>1, <2>6 DEF RsOwners, Sole
      <4>3. job[j].set.playOnly \in BOOLEAN
        BY <4>1, BegunJob, JobFields, SettingFields
      <4> QED BY <4>1, <4>2, <4>3 DEF Trains
    <3> QED BY <2>2, <3>1, <3>2 DEF Frame
  <2> QED BY <2>5, <2>6
<1> QED BY <1>1, <1>2 DEF Known

\* The models a job holds are those it held, or known.
HoldsKnown(j) ==
    /\ job'[j].resolved # NoModel => Known(job'[j].resolved)
    /\ job'[j].opened # NoModel => Known(job'[j].opened)

LEMMA FrameKnown ==
  ASSUME RsTypes, RsOwners, RsKnown, NEW j \in Jobs, Frame(j), KeepsContracts(j), HoldsKnown(j)
  PROVE  RsKnown'
<1>1. SUFFICES ASSUME NEW k \in Jobs, Begun(k)'
               PROVE  /\ job'[k].resolved # NoModel => Known(job[k].resolved)'
                      /\ job'[k].opened # NoModel => Known(job[k].opened)'
  BY DEF RsKnown
<1>2. Begun(k) /\ job'[k] \in JobStates
  BY <1>1, FrameBegun
<1>3. PICK x, y : x = job'[k].resolved /\ y = job'[k].opened
  OBVIOUS
<1>4. (x # NoModel => Known(x)) /\ (y # NoModel => Known(y))
  <2>1. CASE k = j
    BY <1>3, <2>1 DEF HoldsKnown
  <2>2. CASE k # j
    <3>1. job'[k] = job[k]
      BY <2>2 DEF Frame
    <3> QED BY <1>2, <1>3, <3>1 DEF RsKnown
  <2> QED BY <2>1, <2>2
<1>5. \A m \in MaybeModel : m # NoModel => m.at \in AllRuns
  BY DEF MaybeModel, Models
<1>6. x \in MaybeModel /\ y \in MaybeModel
  BY <1>2, <1>3, JobFields
<1>7. (x # NoModel => Known(x)') /\ (y # NoModel => Known(y)')
  BY <1>4, <1>5, <1>6, KnownStays
<1> QED BY <1>3, <1>7 DEF Known

\* The model a job opens is the one it had open, or of its contract.
OpensSame(j) ==
    job'[j].opened # NoModel /\ job[j].set.strict = TRUE =>
       \A k \in Jobs : Sole(job'[j].opened.at, k) => SameContract(job'[j].opened.contract, job[j].set.contract)

LEMMA FramePlayed ==
  ASSUME RsTypes, RsPlayed, NEW j \in Jobs, Frame(j), OpensSame(j)
  PROVE  RsPlayed'
<1>1. SUFFICES ASSUME NEW k \in Jobs, Begun(k)', job'[k].opened # NoModel, job'[k].set.strict = TRUE,
                      NEW i \in Jobs, Sole(job[k].opened.at, i)'
               PROVE  SameContract(job'[k].opened.contract, job'[k].set.contract)
  BY DEF RsPlayed
<1>2. Begun(k) /\ job'[k] \in JobStates /\ job'[k].set = job[k].set
  BY <1>1, FrameBegun
<1>3. job'[k].opened.at \in AllRuns
  <2>1. \A m \in MaybeModel : m # NoModel => m.at \in AllRuns
    BY DEF MaybeModel, Models
  <2> QED BY <1>1, <1>2, <2>1, JobFields
<1>4. Sole(job'[k].opened.at, i)
  BY <1>1, <1>3 DEF Sole, Frame
<1>5. CASE k = j
  BY <1>1, <1>2, <1>4, <1>5 DEF OpensSame
<1>6. CASE k # j
  <2>1. job'[k] = job[k]
    BY <1>6 DEF Frame
  <2> QED BY <1>1, <1>2, <1>4, <2>1 DEF RsPlayed
<1> QED BY <1>5, <1>6

LEMMA FrameExported ==
  ASSUME RsTypes, RsExported, NEW j \in Jobs, Frame(j), \A dir \in AllRuns : runs'[dir].exported = runs[dir].exported
  PROVE  RsExported'
<1>1. SUFFICES ASSUME NEW dir \in AllRuns, NEW e \in runs[dir].exported
               PROVE  Begun(e[1])' /\ (job'[e[1]].set.algo = "ppo" => e[2].at = dir)
  BY DEF RsExported
<1>2. e[1] \in Jobs
  <2>1. runs[dir].exported \subseteq Jobs \X Models
    BY RunFields
  <2> QED BY <2>1
<1>3. Begun(e[1]) /\ (job[e[1]].set.algo = "ppo" => e[2].at = dir)
  BY <1>1 DEF RsExported
<1> QED BY <1>2, <1>3, FrameBegun

LEMMA FrameRoots ==
  ASSUME NEW j, Frame(j), NEW root \in Roots
  PROVE  Dirs(root)' = Dirs(root)
<1>1. \A s \in Seconds : <<root, s>> \in AllRuns
  BY DEF AllRuns
<1> QED BY <1>1 DEF Dirs, Frame

------------------------------------------------------------------------------
(* The steps                                                                   *)

\* A step of one job, before what it does to the disk.
JobMoves(j, r) ==
    /\ job' = [job EXCEPT ![j] = r] /\ r \in JobStates
    /\ r.set = job[j].set /\ r.load = job[j].load /\ r.at = job[j].at
    /\ job[j].set.playOnly = TRUE => r.pc \in Playing
    /\ second' = second

LEMMA FrameOfJob ==
  ASSUME RsTypes, NEW j \in Jobs, Begun(j), NEW r, JobMoves(j, r), runs' = runs
  PROVE  Frame(j) /\ job'[j] = r
<1>1. job'[j] = r /\ (\A k \in Jobs \ {j} : job'[k] = job[k])
  BY DEF JobMoves, RsTypes
<1>2. DOMAIN job' = Jobs /\ job' = [k \in Jobs |-> job'[k]]
  BY DEF JobMoves, RsTypes
<1>3. runs' \in [AllRuns -> RunDirectories]
  BY DEF RsTypes
<1>4. \A dir \in AllRuns : runs'[dir].owners = runs[dir].owners /\ (Exists(dir)' <=> Exists(dir))
  BY DEF Exists
<1> QED BY <1>1, <1>2, <1>3, <1>4 DEF Frame, JobMoves

LEMMA FrameOfOwn ==
  ASSUME RsTypes, RsOwners, NEW j \in Jobs, Trains(j), NEW r, JobMoves(j, r),
         NEW d \in RunDirectories, runs' = [runs EXCEPT ![Own(j)] = d],
         d.owners = runs[Own(j)].owners, runs[Own(j)].models # {} => d.models # {}
  PROVE  Frame(j) /\ job'[j] = r /\ runs'[Own(j)] = d /\ \A dir \in AllRuns \ {Own(j)} : runs'[dir] = runs[dir]
<1>1. job'[j] = r /\ (\A k \in Jobs \ {j} : job'[k] = job[k]) /\ Begun(j) /\ job[j].set.playOnly # TRUE
  BY DEF JobMoves, RsTypes, Trains
<1>2. DOMAIN job' = Jobs /\ job' = [k \in Jobs |-> job'[k]]
  BY DEF JobMoves, RsTypes
<1>3. Own(j) \in AllRuns
  BY <1>1, OwnRun
<1>4. /\ runs' \in [AllRuns -> RunDirectories] /\ runs'[Own(j)] = d
      /\ \A dir \in AllRuns \ {Own(j)} : runs'[dir] = runs[dir]
  BY <1>3 DEF RsTypes
<1>5. \A dir \in AllRuns : runs'[dir].owners = runs[dir].owners /\ (runs[dir].models # {} => runs'[dir].models # {})
  BY <1>4
<1>6. runs[Own(j)] # EmptyRun /\ runs'[Own(j)] # EmptyRun
  <2>1. runs[Own(j)].owners # {} /\ runs'[Own(j)].owners # {}
    BY <1>4 DEF RsOwners
  <2>2. EmptyRun.owners = {}
    BY DEF EmptyRun
  <2> QED BY <2>1, <2>2
<1>7. \A dir \in AllRuns : Exists(dir)' <=> Exists(dir)
  <2>1. SUFFICES ASSUME NEW dir \in AllRuns PROVE Exists(dir)' <=> Exists(dir)
    OBVIOUS
  <2>2. CASE dir = Own(j)
    <3>1. runs'[dir] # EmptyRun /\ runs[dir] # EmptyRun
      BY <1>6, <2>2
    <3> QED BY <3>1 DEF Exists
  <2>3. CASE dir # Own(j)
    BY <1>4, <2>3 DEF Exists
  <2> QED BY <2>2, <2>3
<1>8. \A dir \in AllRuns : dir # Own(j) \/ job[j].set.playOnly = TRUE =>
          /\ runs'[dir].snapshot = runs[dir].snapshot /\ runs'[dir].models = runs[dir].models
          /\ runs'[dir].status = runs[dir].status /\ runs'[dir].video = runs[dir].video
  BY <1>1, <1>4
<1>9. /\ job'[j] \in JobStates /\ job'[j].set = job[j].set /\ job'[j].load = job[j].load /\ job'[j].at = job[j].at
      /\ job[j].set.playOnly = TRUE => job'[j].pc \in Playing
      /\ second' = second
  BY <1>1 DEF JobMoves
<1> QED BY <1>1, <1>2, <1>4, <1>5, <1>7, <1>8, <1>9 DEF Frame

LEMMA LatestRun ==
  ASSUME RsModels, NEW root \in Roots, Dirs(root) # {}
  PROVE  get_latest_run(root) \in Dirs(root) /\ \A t \in Dirs(root) : get_latest_run(root) >= t
<1>1. \E s \in Dirs(root) : \A t \in Dirs(root) : s >= t
  BY DEF RsModels
<1> QED BY <1>1 DEF get_latest_run, Max

LEMMA TopModel ==
  ASSUME RsModels, NEW dir \in AllRuns, runs[dir].models # {}
  PROVE  /\ get_latest_checkpoint(dir) \in runs[dir].models
         /\ \A n \in runs[dir].models : n.number <= get_latest_checkpoint(dir).number
<1>1. \E m \in runs[dir].models : \A n \in runs[dir].models : n.number <= m.number
  BY DEF RsModels, HasTop
<1> QED BY <1>1 DEF get_latest_checkpoint

Found(m, root, load) ==
    /\ m \in Models /\ m.at \in AllRuns /\ m \in runs[m.at].models /\ m.at[1] = root
    /\ load \in {Unset, Latest} => m.at[2] \in Dirs(root) /\ \A t \in Dirs(root) : m.at[2] >= t

\* What is resolved is nothing, or a model that is there, of the run asked for.
LEMMA Resolved ==
  ASSUME RsTypes, RsModels, NEW root \in Roots, NEW load \in {Unset, Latest} \cup Seconds, NEW checkpoint
  PROVE  Resolve(root, load, checkpoint) = NoModel \/ Found(Resolve(root, load, checkpoint), root, load)
<1> DEFINE named == IF load \in {Unset, Latest} THEN Dirs(root) ELSE Dirs(root) \cap {load}
           s == IF load \in {Unset, Latest} THEN get_latest_run(root) ELSE load
           dir == <<root, s>>
           chosen == {m \in runs[dir].models : m.number = checkpoint}
           m == Resolve(root, load, checkpoint)
<1>1. CASE named = {}
  BY <1>1 DEF Resolve
<1>2. CASE named # {}
  <2>1. /\ s \in Dirs(root) /\ (load \in {Unset, Latest} => \A t \in Dirs(root) : s >= t)
    BY <1>2, LatestRun
  <2>2. s \in Seconds
    BY <2>1 DEF Dirs
  <2>3. dir \in AllRuns /\ dir[1] = root /\ dir[2] = s
    BY <2>2 DEF AllRuns
  <2>4. m = NoModel \/ m \in runs[dir].models
    <3>1. CASE checkpoint # Unset
      <4>1. m = IF chosen = {} THEN NoModel ELSE CHOOSE n \in chosen : TRUE
        BY <1>2, <3>1 DEF Resolve
      <4> QED BY <4>1
    <3>2. CASE checkpoint = Unset
      <4>1. m = IF runs[dir].models = {} THEN NoModel ELSE get_latest_checkpoint(dir)
        BY <1>2, <3>2 DEF Resolve
      <4> HIDE DEF m, dir, chosen, named
      <4> QED BY <4>1, <2>3, TopModel
    <3> QED BY <3>1, <3>2
  <2> HIDE DEF m, dir, chosen, named, s
  <2>5. CASE m \in runs[dir].models
    <3>1. m \in Models /\ m.at = dir
      BY <2>3, <2>5, RunFields DEF RsModels
    <3> QED BY <2>1, <2>3, <2>5, <3>1 DEF Found, m
  <2> QED BY <2>4, <2>5 DEF m
<1> QED BY <1>1, <1>2

\* A model that is there is known.
LEMMA FoundIsKnown ==
  ASSUME RsTypes, RsModels, RsSole, NEW m, m.at \in AllRuns, m \in runs[m.at].models
  PROVE  Known(m)
<1>1. SUFFICES ASSUME NEW j \in Jobs, Sole(m.at, j)
               PROVE  /\ job[j].pc \notin {"record", "build"} /\ m.contract = job[j].set.contract
                      /\ runs[m.at].snapshot = job[j].set.contract
  BY DEF Known
<1>2. ContractFiled(m.at, j) /\ Numbered(m.at, j)
  BY <1>1 DEF RsSole
<1> QED BY <1>2 DEF ContractFiled, Numbered

LEMMA RsStart ==
  ASSUME RsInit
  PROVE  RsInv
<1>1. /\ second = 0 /\ runs = [dir \in AllRuns |-> IF dir = <<DefaultRoot, 0>> THEN OldRun ELSE EmptyRun]
      /\ job = [j \in Jobs |-> NoJob]
  BY DEF RsInit, AllRuns
<1>2. 0 \in Seconds
  BY RunStoreAssumption DEF Seconds
<1>3. <<DefaultRoot, 0>> \in AllRuns
  BY <1>2 DEF AllRuns, Roots
<1>4. \A j \in Jobs : ~Begun(j) /\ ~Trains(j)
  BY <1>1 DEF Begun, Trains, NoJob
<1> DEFINE old == [number |-> 1, contract |-> OldContract, trained |-> 2, whole |-> TRUE, at |-> <<DefaultRoot, 0>>]
<1>5. old \in Models /\ old.at = <<DefaultRoot, 0>>
  BY <1>3 DEF Models, OldContract, Contracts
<1>6. /\ EmptyRun \in RunDirectories /\ EmptyRun.owners = {} /\ EmptyRun.models = {} /\ EmptyRun.status = "none"
      /\ EmptyRun.video = {} /\ EmptyRun.exported = {}
  BY DEF EmptyRun, RunDirectories
<1>7. /\ OldRun = [owners |-> {}, snapshot |-> NoContract, models |-> {old}, status |-> "none", exported |-> {},
                   video |-> {}]
  BY DEF OldRun, EmptyRun
<1> HIDE DEF old
<1>8. /\ OldRun \in RunDirectories /\ OldRun.owners = {} /\ OldRun.models = {old} /\ OldRun.status = "none"
      /\ OldRun.video = {} /\ OldRun.exported = {}
  BY <1>5, <1>7 DEF RunDirectories
<1>9. \A dir \in AllRuns : runs[dir] = IF dir = <<DefaultRoot, 0>> THEN OldRun ELSE EmptyRun
  BY <1>1
<1>10. \A dir \in AllRuns : /\ runs[dir].owners = {} /\ runs[dir].status = "none" /\ runs[dir].video = {}
                            /\ runs[dir].exported = {}
                            /\ dir # <<DefaultRoot, 0>> => runs[dir].models = {}
                            /\ dir = <<DefaultRoot, 0>> => runs[dir].models = {old}
  BY <1>6, <1>8, <1>9
<1>11. RsTypes
  BY <1>1, <1>2, <1>6, <1>8 DEF RsTypes
<1>12. RsOwners
  BY <1>4, <1>10 DEF RsOwners
<1>13. RsModels
  <2>1. \A dir \in AllRuns : HasTop(dir) /\ \A m \in runs[dir].models : m.at = dir
    <3>1. old.number <= old.number
      BY <1>5 DEF Models
    <3> QED BY <1>5, <1>10, <3>1 DEF HasTop
  <2>2. ASSUME NEW root \in Roots
        PROVE  (\A s \in Dirs(root) : s <= second) /\ (Dirs(root) = {} \/ \E s \in Dirs(root) : \A t \in Dirs(root) : s >= t)
    <3>1. \A s \in Dirs(root) : s = 0
      <4>1. \A s \in Seconds : <<root, s>> \in AllRuns /\ (<<root, s>> = <<DefaultRoot, 0>> => s = 0)
        BY DEF AllRuns
      <4> QED BY <1>9, <4>1 DEF Dirs, Exists
    <3> QED BY <1>1, <3>1
  <2> QED BY <2>1, <2>2 DEF RsModels
<1>14. RsCounts /\ RsKnown /\ RsPlayed
  BY <1>4 DEF RsCounts, RsKnown, RsPlayed
<1>15. RsSole /\ RsExported
  BY <1>10 DEF RsSole, RsExported, Sole
<1> QED BY <1>11, <1>12, <1>13, <1>14, <1>15 DEF RsInv

\* What a step of a job must still show once its frame is known.
LEMMA FromFrame ==
  ASSUME RsInv, NEW j \in Jobs, Frame(j), KeepsContracts(j), HoldsKnown(j), OpensSame(j),
         \A dir \in AllRuns : runs'[dir].exported = runs[dir].exported,
         \A dir \in AllRuns : HasTop(dir)' /\ \A m \in runs'[dir].models : m.at = dir,
         RsCounts',
         \A o \in AllRuns : Trains(j) /\ o = Own(j) /\ Sole(o, j) => FourOf(o, j)'
  PROVE  RsInv'
<1>1. RsTypes' /\ RsOwners' /\ RsSole' /\ RsKnown' /\ RsPlayed' /\ RsExported'
  BY FrameBegun, FrameOwners, FrameSole, FrameKnown, FramePlayed, FrameExported DEF RsInv
<1>2. RsModels'
  <2>1. \A root \in Roots : Dirs(root)' = Dirs(root)
    BY FrameRoots
  <2>2. second' = second
    BY DEF Frame
  <2> QED BY <2>1, <2>2 DEF RsInv, RsModels
<1> QED BY <1>1, <1>2 DEF RsInv

LEMMA CountsStay ==
  ASSUME RsTypes, RsCounts, NEW j \in Jobs, Frame(j),
         /\ job'[j].pc \in {"record", "build"} => job'[j].done = 0
         /\ job'[j].pc = "save" => job'[j].done >= 1
         /\ job'[j].pc \in {"session", "play"} => job'[j].resolved # NoModel
         /\ job'[j].pc = "play" => /\ job'[j].opened # NoModel
                                   /\ job'[j].set.algo = "ppo" => job'[j].opened = job'[j].resolved
  PROVE  RsCounts'
<1>1. SUFFICES ASSUME NEW k \in Jobs, Begun(k)', k # j
               PROVE  /\ job'[k].pc \in {"record", "build"} => job'[k].done = 0
                      /\ job'[k].pc = "save" => job'[k].done >= 1
                      /\ job'[k].pc \in {"session", "play"} => job'[k].resolved # NoModel
                      /\ job'[k].pc = "play" => /\ job'[k].opened # NoModel
                                                /\ job'[k].set.algo = "ppo" => job'[k].opened = job'[k].resolved
  BY DEF RsCounts
<1>2. job'[k] = job[k] /\ Begun(k)
  BY <1>1, FrameBegun DEF Frame
<1> QED BY <1>2 DEF RsCounts

\* A step that leaves the disk alone.
LEMMA OnlyJob ==
  ASSUME RsInv, NEW j \in Jobs, Begun(j), NEW r, JobMoves(j, r), runs' = runs, KeepsContracts(j), HoldsKnown(j), OpensSame(j),
         /\ r.pc \in {"record", "build"} => r.done = 0
         /\ r.pc = "save" => r.done >= 1
         /\ r.pc \in {"session", "play"} => r.resolved # NoModel
         /\ r.pc = "play" => /\ r.opened # NoModel
                             /\ r.set.algo = "ppo" => r.opened = r.resolved,
         \A o \in AllRuns : Trains(j) /\ o = Own(j) /\ Sole(o, j) => FourOf(o, j)'
  PROVE  RsInv'
<1>1. Frame(j) /\ job'[j] = r
  BY FrameOfJob DEF RsInv
<1>2. RsCounts'
  BY <1>1, CountsStay DEF RsInv
<1>3. \A dir \in AllRuns : HasTop(dir)' /\ \A m \in runs'[dir].models : m.at = dir
  BY DEF RsInv, RsModels, HasTop
<1> QED BY <1>1, <1>2, <1>3, FromFrame

\* The contract is filed.
LEMMA RsRecord ==
  ASSUME RsInv, NEW j \in Jobs, Record(j)
  PROVE  RsInv'
<1> DEFINE r == [job[j] EXCEPT !.pc = "build"]
           d == [runs[Own(j)] EXCEPT !.snapshot = job[j].set.contract]
<1>1. job[j].pc = "record" /\ Begun(j) /\ job[j] \in JobStates
  BY BegunJob DEF Record, Begun, RsInv
<1>2. Trains(j) /\ Own(j) \in AllRuns /\ job[j].set \in Settings /\ runs[Own(j)] \in RunDirectories
  <2>1. job[j].set \in Settings /\ job[j].set.playOnly \in BOOLEAN
    BY <1>1, JobFields, SettingFields
  <2>2. job[j].pc \notin Playing
    BY <1>1 DEF Playing
  <2> QED BY <1>1, <2>1, <2>2, OwnRun, RunFields DEF RsInv, RsOwners, Trains
<1>3. /\ r \in JobStates /\ r.pc = "build" /\ r.set = job[j].set /\ r.load = job[j].load /\ r.at = job[j].at
      /\ r.done = job[j].done /\ r.opened = job[j].opened /\ r.resolved = job[j].resolved /\ r.loaded = job[j].loaded
      /\ r.first = job[j].first /\ r.raised = job[j].raised
  BY <1>1 DEF JobStates, Places
<1>4. /\ d \in RunDirectories /\ d.owners = runs[Own(j)].owners /\ d.models = runs[Own(j)].models
      /\ d.snapshot = job[j].set.contract /\ d.status = runs[Own(j)].status /\ d.video = runs[Own(j)].video
      /\ d.exported = runs[Own(j)].exported
  <2>1. job[j].set.contract \in Contracts
    BY <1>2, SettingFields
  <2> QED BY <1>2, <2>1 DEF RunDirectories
<1>5. JobMoves(j, r) /\ runs' = [runs EXCEPT ![Own(j)] = d]
  <2>1. job' = [job EXCEPT ![j] = r] /\ runs' = [runs EXCEPT ![Own(j)] = d]
    BY <1>1, <1>2 DEF Record, Goes
  <2> QED BY <1>2, <1>3, <2>1 DEF JobMoves, Record, Trains
<1> HIDE DEF r, d
<1>6. Frame(j) /\ job'[j] = r /\ runs'[Own(j)] = d /\ \A dir \in AllRuns \ {Own(j)} : runs'[dir] = runs[dir]
  BY <1>2, <1>4, <1>5, FrameOfOwn DEF RsInv
<1>7. \A dir \in AllRuns : runs'[dir].models = runs[dir].models /\ runs'[dir].exported = runs[dir].exported
  BY <1>4, <1>6
<1>8. \A dir \in AllRuns : HasTop(dir)' /\ \A m \in runs'[dir].models : m.at = dir
  BY <1>7 DEF RsInv, RsModels, HasTop
<1>9. RsCounts'
  BY <1>1, <1>3, <1>6, CountsStay DEF RsInv, RsCounts
<1>10. KeepsContracts(j) /\ HoldsKnown(j) /\ OpensSame(j)
  BY <1>1, <1>3, <1>6 DEF RsInv, RsKnown, RsPlayed, KeepsContracts, HoldsKnown, OpensSame
<1>11. ASSUME NEW o \in AllRuns, o = Own(j), Sole(o, j) PROVE FourOf(o, j)'
  <2>1. FourOf(o, j)
    BY <1>11 DEF RsInv, RsSole, FourOf
  <2>2. /\ runs'[o].models = runs[o].models /\ runs'[o].status = runs[o].status /\ runs'[o].video = runs[o].video
        /\ runs'[o].snapshot = job[j].set.contract /\ job'[j] = r
    BY <1>4, <1>6, <1>11
  <2>3. ContractFiled(o, j)' /\ Numbered(o, j)'
    BY <1>1, <1>3, <2>1, <2>2 DEF FourOf, ContractFiled, Numbered
  <2>4. Summarised(o, j)'
    BY <1>1, <1>3, <2>1, <2>2 DEF FourOf, Summarised
  <2>5. NoneLater(o)' <=> NoneLater(o)
    BY <1>6 DEF Frame, NoneLater
  <2>6. Filmed(o, j)'
    BY <1>1, <1>3, <2>1, <2>2, <2>5 DEF FourOf, Filmed
  <2> QED BY <2>3, <2>4, <2>6 DEF FourOf
<1> QED BY <1>2, <1>6, <1>7, <1>8, <1>9, <1>10, <1>11, FromFrame

\* A job that is not told to play only is one that trains.
LEMMA TrainsThere ==
  ASSUME RsTypes, RsOwners, NEW j \in Jobs, job[j].pc \in {"record", "build", "learn", "save", "summarise"}
  PROVE  /\ Begun(j) /\ job[j] \in JobStates /\ Trains(j) /\ job[j].set \in Settings /\ job[j].set.playOnly # TRUE
         /\ Own(j) \in AllRuns /\ runs[Own(j)] \in RunDirectories
<1>1. Begun(j)
  BY DEF Begun
<1>2. job[j] \in JobStates
  BY <1>1, BegunJob
<1>3. job[j].set \in Settings /\ job[j].set.playOnly \in BOOLEAN
  BY <1>2, JobFields, SettingFields
<1>4. job[j].pc \notin Playing
  BY DEF Playing
<1>5. job[j].set.playOnly = FALSE
  BY <1>1, <1>3, <1>4 DEF RsOwners
<1> QED BY <1>1, <1>2, <1>3, <1>5, OwnRun, RunFields DEF Trains

\* How far training is ahead of the numbers of the models is settled when it begins.
LEMMA OffsetOf ==
  ASSUME NEW jb \in JobStates
  PROVE  /\ Trained(jb) \in Nat /\ Number(jb) \in Int /\ Offset(jb) = Trained(jb) - Number(jb)
         /\ jb.done >= 1 => Number(jb) \in Nat
         /\ \A r \in JobStates : r.set = jb.set /\ r.loaded = jb.loaded /\ r.first = jb.first => Offset(r) = Offset(jb)
<1> DEFINE base(x) == IF x.loaded = NoModel THEN 0 ELSE x.loaded.trained
<1>1. \A x \in JobStates : base(x) \in Nat /\ x.done \in Nat /\ x.first \in Nat
  <2>1. SUFFICES ASSUME NEW x \in JobStates PROVE base(x) \in Nat /\ x.done \in Nat /\ x.first \in Nat
    OBVIOUS
  <2>2. x.loaded \in MaybeModel /\ x.done \in Nat /\ x.first \in Nat
    BY JobFields, RunStoreAssumption
  <2> QED BY <2>2 DEF MaybeModel, Models
<1>2. \A x \in JobStates : Trained(x) = base(x) + x.done
  BY DEF Trained
<1>3. \A x \in JobStates : Number(x) = IF x.set.algo = "ppo" THEN x.first + x.done - 1 ELSE x.done
  BY DEF Number
<1> DEFINE off(x) == IF x.set.algo = "ppo" THEN base(x) - x.first + 1 ELSE base(x)
<1>4. \A x \in JobStates : Offset(x) = off(x) /\ Trained(x) \in Nat /\ Number(x) \in Int /\ (x.done >= 1 => Number(x) \in Nat)
  <2>1. SUFFICES ASSUME NEW x \in JobStates
                 PROVE  Offset(x) = off(x) /\ Trained(x) \in Nat /\ Number(x) \in Int /\ (x.done >= 1 => Number(x) \in Nat)
    OBVIOUS
  <2>2. PICK b \in Nat, d \in Nat, f \in Nat : b = base(x) /\ d = x.done /\ f = x.first
    BY <1>1
  <2>3. Trained(x) = b + d
    BY <1>2, <2>2
  <2>4. CASE x.set.algo = "ppo"
    <3>1. Number(x) = f + d - 1 /\ off(x) = b - f + 1
      BY <1>3, <2>2, <2>4
    <3> HIDE DEF off
    <3> QED BY <2>2, <2>3, <3>1 DEF Offset
  <2>5. CASE x.set.algo # "ppo"
    <3>1. Number(x) = d /\ off(x) = b
      BY <1>3, <2>2, <2>5
    <3> HIDE DEF off
    <3> QED BY <2>2, <2>3, <3>1 DEF Offset
  <2> QED BY <2>4, <2>5
<1>5. \A r \in JobStates : r.set = jb.set /\ r.loaded = jb.loaded /\ r.first = jb.first => off(r) = off(jb)
  OBVIOUS
<1> HIDE DEF off
<1> QED BY <1>4, <1>5 DEF Offset

\* What a job resumes from.
LEMMA ResumesFound ==
  ASSUME RsTypes, RsModels, NEW jb \in JobStates
  PROVE  Resumes(jb) \in MaybeModel
<1>1. jb.load \in {Unset, Latest} \cup Seconds /\ jb.set.root \in Roots /\ jb.set.algo \in {"ppo", "appo", "sac"}
  BY JobFields, SettingFields
<1>2. \A c : Resolve(jb.set.root, jb.load, c) \in MaybeModel
  <2>1. SUFFICES ASSUME NEW c PROVE Resolve(jb.set.root, jb.load, c) \in MaybeModel
    OBVIOUS
  <2>2. \/ Resolve(jb.set.root, jb.load, c) = NoModel
        \/ Found(Resolve(jb.set.root, jb.load, c), jb.set.root, jb.load)
    BY <1>1, Resolved
  <2> QED BY <2>2 DEF Found, MaybeModel
<1>3. NoModel \in MaybeModel
  BY DEF MaybeModel
<1>4. CASE jb.set.algo = "ppo"
  BY <1>2, <1>3, <1>4 DEF Resumes
<1>5. CASE jb.set.algo = "appo"
  BY <1>2, <1>3, <1>5 DEF Resumes
<1>6. CASE jb.set.algo = "sac"
  BY <1>2, <1>3, <1>6 DEF Resumes
<1> QED BY <1>1, <1>4, <1>5, <1>6

LEMMA RsBuild ==
  ASSUME RsInv, NEW j \in Jobs, Build(j)
  PROVE  RsInv'
<1>1. job[j].pc = "build" /\ second' = second /\ runs' = runs
  BY DEF Build
<1>2. Begun(j) /\ job[j] \in JobStates /\ Trains(j) /\ job[j].set.playOnly # TRUE
  BY <1>1, TrainsThere DEF RsInv
<1> DEFINE model == Resumes(job[j])
           loads == model # NoModel => model.whole /\ Fits(model.contract, job[j].set.contract)
           refused == MustResume(job[j]) /\ model = NoModel
<1>3. PICK b, p, l, f :
        /\ b = (~loads \/ refused) /\ p = (IF loads /\ ~refused THEN "learn" ELSE "summarise")
        /\ l = (IF loads THEN model ELSE NoModel) /\ f = FirstIteration(job[j], model)
  OBVIOUS
<1> DEFINE r == [job[j] EXCEPT !.pc = p, !.raised = b, !.loaded = l, !.first = f]
<1>4. b \in BOOLEAN /\ ((p = "learn") \/ (p = "summarise" /\ b = TRUE))
  BY <1>3
<1>5. l \in MaybeModel /\ f \in Nat
  <2>1. model \in MaybeModel
    BY <1>2, ResumesFound DEF RsInv
  <2>2. NoModel \in MaybeModel /\ \A m \in MaybeModel : m # NoModel => m.number \in Nat
    BY DEF MaybeModel, Models
  <2> HIDE DEF model
  <2> QED BY <1>3, <2>1, <2>2 DEF FirstIteration
<1>6. job' = [job EXCEPT ![j] = r]
  BY <1>3 DEF Build
<1> HIDE DEF model, loads, refused
<1>7. /\ r \in JobStates /\ r.pc = p /\ r.set = job[j].set /\ r.load = job[j].load /\ r.at = job[j].at
      /\ r.done = job[j].done /\ r.opened = job[j].opened /\ r.resolved = job[j].resolved /\ r.raised = b
  BY <1>2, <1>4, <1>5 DEF JobStates, Places
<1> HIDE DEF r
<1>8. JobMoves(j, r)
  BY <1>1, <1>2, <1>6, <1>7 DEF JobMoves
<1>9. Frame(j) /\ job'[j] = r
  BY <1>1, <1>2, <1>8, FrameOfJob DEF RsInv
<1>10. KeepsContracts(j) /\ HoldsKnown(j) /\ OpensSame(j)
  BY <1>1, <1>2, <1>4, <1>7, <1>9 DEF RsInv, RsKnown, RsPlayed, KeepsContracts, HoldsKnown, OpensSame
<1>11. ASSUME NEW o \in AllRuns, Sole(o, j) PROVE FourOf(o, j)'
  <2>1. FourOf(o, j)
    BY <1>11 DEF RsInv, RsSole, FourOf
  <2>2. runs[o].models = {} /\ runs[o].status = "none" /\ runs[o].snapshot = job[j].set.contract
    BY <1>1, <2>1 DEF FourOf, ContractFiled, Summarised
  <2>3. ContractFiled(o, j)' /\ Numbered(o, j)'
    BY <1>1, <1>4, <1>7, <1>9, <2>2 DEF ContractFiled, Numbered
  <2>4. Summarised(o, j)'
    BY <1>1, <1>4, <1>7, <1>9, <2>2 DEF Summarised
  <2>5. Filmed(o, j)'
    BY <1>1, <1>4, <1>7, <1>9, <2>1 DEF FourOf, Filmed, NoneLater, Exists
  <2> QED BY <2>3, <2>4, <2>5 DEF FourOf
<1> QED BY <1>1, <1>2, <1>4, <1>7, <1>8, <1>10, <1>11, OnlyJob

LEMMA RsLearn ==
  ASSUME RsInv, NEW j \in Jobs, Learn(j)
  PROVE  RsInv'
<1>1. job[j].pc = "learn" /\ second' = second /\ runs' = runs /\ job[j].done < JobIterations
  BY DEF Learn
<1>2. Begun(j) /\ job[j] \in JobStates /\ Trains(j) /\ job[j].set.playOnly # TRUE
  BY <1>1, TrainsThere DEF RsInv
<1>3. PICK p : /\ p \in {"save", "learn"}
               /\ job' = [job EXCEPT ![j].done = @ + 1, ![j].pc = p]
  BY DEF Learn
<1> DEFINE r == [job[j] EXCEPT !.done = @ + 1, !.pc = p]
<1>4. job[j].done \in Nat /\ job[j].done + 1 \in 0 .. JobIterations
  BY <1>1, <1>2, JobFields, RunStoreAssumption
<1>5. job' = [job EXCEPT ![j] = r]
  BY <1>3
<1>6. /\ r \in JobStates /\ r.pc = p /\ r.set = job[j].set /\ r.load = job[j].load /\ r.at = job[j].at
      /\ r.done = job[j].done + 1 /\ r.opened = job[j].opened /\ r.resolved = job[j].resolved
      /\ r.loaded = job[j].loaded /\ r.first = job[j].first
  BY <1>2, <1>3, <1>4 DEF JobStates, Places
<1> HIDE DEF r
<1>7. JobMoves(j, r)
  BY <1>1, <1>2, <1>5, <1>6 DEF JobMoves
<1>8. Frame(j) /\ job'[j] = r
  BY <1>1, <1>2, <1>7, FrameOfJob DEF RsInv
<1>9. KeepsContracts(j) /\ HoldsKnown(j) /\ OpensSame(j)
  BY <1>1, <1>2, <1>3, <1>6, <1>8 DEF RsInv, RsKnown, RsPlayed, KeepsContracts, HoldsKnown, OpensSame
<1>10. ASSUME NEW o \in AllRuns, Sole(o, j) PROVE FourOf(o, j)'
  <2>1. FourOf(o, j)
    BY <1>10 DEF RsInv, RsSole, FourOf
  <2>2. runs[o].status = "none" /\ runs[o].snapshot = job[j].set.contract
    BY <1>1, <2>1 DEF FourOf, ContractFiled, Summarised
  <2>3. ContractFiled(o, j)'
    BY <1>1, <1>3, <1>6, <1>8, <2>2 DEF ContractFiled
  <2>4. Numbered(o, j)'
    <3>1. Offset(job'[j]) = Offset(job[j])
      BY <1>2, <1>6, <1>8, OffsetOf
    <3>2. job'[j].set = job[j].set
      BY <1>6, <1>8
    <3>3. Offset(job[j])' = Offset(job'[j])
      BY DEF Offset, Trained, Number
    <3> QED BY <1>1, <2>1, <3>1, <3>2, <3>3 DEF FourOf, Numbered
  <2>5. Summarised(o, j)'
    BY <1>1, <1>3, <1>6, <1>8, <2>2 DEF Summarised
  <2>6. Filmed(o, j)'
    BY <1>1, <1>3, <1>6, <1>8, <2>1 DEF FourOf, Filmed, NoneLater, Exists
  <2> QED BY <2>3, <2>4, <2>5, <2>6 DEF FourOf
<1>11. r.pc = "save" => r.done >= 1
  BY <1>4, <1>6
<1> QED BY <1>1, <1>2, <1>3, <1>6, <1>7, <1>9, <1>10, <1>11, OnlyJob

LEMMA RsRaise ==
  ASSUME RsInv, NEW j \in Jobs, Raise(j)
  PROVE  RsInv'
<1>1. job[j].pc \in {"learn", "save"} /\ second' = second /\ runs' = runs
  BY DEF Raise
<1>2. Begun(j) /\ job[j] \in JobStates /\ Trains(j) /\ job[j].set.playOnly # TRUE
  BY <1>1, TrainsThere DEF RsInv
<1> DEFINE r == [job[j] EXCEPT !.pc = "summarise", !.raised = TRUE]
<1>3. job' = [job EXCEPT ![j] = r]
  BY DEF Raise
<1>4. /\ r \in JobStates /\ r.pc = "summarise" /\ r.set = job[j].set /\ r.load = job[j].load /\ r.at = job[j].at
      /\ r.done = job[j].done /\ r.opened = job[j].opened /\ r.resolved = job[j].resolved
      /\ r.loaded = job[j].loaded /\ r.first = job[j].first /\ r.raised = TRUE
  BY <1>2 DEF JobStates, Places
<1> HIDE DEF r
<1>5. JobMoves(j, r)
  BY <1>1, <1>2, <1>3, <1>4 DEF JobMoves
<1>6. Frame(j) /\ job'[j] = r
  BY <1>1, <1>2, <1>5, FrameOfJob DEF RsInv
<1>7. KeepsContracts(j) /\ HoldsKnown(j) /\ OpensSame(j)
  BY <1>1, <1>2, <1>4, <1>6 DEF RsInv, RsKnown, RsPlayed, KeepsContracts, HoldsKnown, OpensSame
<1>8. ASSUME NEW o \in AllRuns, Sole(o, j) PROVE FourOf(o, j)'
  <2>1. FourOf(o, j)
    BY <1>8 DEF RsInv, RsSole, FourOf
  <2>2. runs[o].status = "none" /\ runs[o].snapshot = job[j].set.contract
    BY <1>1, <2>1 DEF FourOf, ContractFiled, Summarised
  <2>3. ContractFiled(o, j)'
    BY <1>1, <1>4, <1>6, <2>2 DEF ContractFiled
  <2>4. Numbered(o, j)'
    <3>1. Offset(job'[j]) = Offset(job[j])
      BY <1>2, <1>4, <1>6, OffsetOf
    <3>2. job'[j].set = job[j].set
      BY <1>4, <1>6
    <3>3. Offset(job[j])' = Offset(job'[j])
      BY DEF Offset, Trained, Number
    <3> QED BY <1>1, <2>1, <3>1, <3>2, <3>3 DEF FourOf, Numbered
  <2>5. Summarised(o, j)'
    BY <1>1, <1>4, <1>6, <2>2 DEF Summarised
  <2>6. Filmed(o, j)'
    BY <1>1, <1>4, <1>6, <2>1 DEF FourOf, Filmed, NoneLater, Exists
  <2> QED BY <2>3, <2>4, <2>5, <2>6 DEF FourOf
<1> QED BY <1>1, <1>2, <1>4, <1>5, <1>7, <1>8, OnlyJob

\* A directory with one more model has a newest one.
LEMMA WithModelTop ==
  ASSUME NEW S \in SUBSET Models, NEW m \in Models, S = {} \/ \E t \in S : \A n \in S : n.number <= t.number
  PROVE  \E t \in {n \in S : n.number # m.number} \cup {m} :
            \A n \in {k \in S : k.number # m.number} \cup {m} : n.number <= t.number
<1> DEFINE T == {n \in S : n.number # m.number} \cup {m}
<1>1. \A n \in S : n.number \in Nat
  BY DEF Models
<1>2. m.number \in Nat
  BY DEF Models
<1>3. CASE S = {}
  BY <1>2, <1>3
<1>4. CASE \E t \in S : \A n \in S : n.number <= t.number
  <2>1. PICK t \in S : \A n \in S : n.number <= t.number
    BY <1>4
  <2>2. CASE t.number <= m.number
    <3>1. m \in T /\ \A n \in T : n.number <= m.number
      BY <1>1, <1>2, <2>1, <2>2
    <3> QED BY <3>1
  <2>3. CASE m.number < t.number
    <3>1. t \in T /\ \A n \in T : n.number <= t.number
      BY <1>1, <1>2, <2>1, <2>3
    <3> QED BY <3>1
  <2>4. t.number \in Nat
    BY <1>1
  <2> QED BY <1>2, <2>2, <2>3, <2>4
<1> QED BY <1>3, <1>4

\* A model, whole or in part, is written among the others.
LEMMA Written ==
  ASSUME RsInv, NEW j \in Jobs, job[j].pc = "save", NEW whole \in BOOLEAN, NEW r, JobMoves(j, r),
         r.pc \in {"learn", "summarise", "killed"}, r.done = job[j].done, r.opened = job[j].opened,
         r.resolved = job[j].resolved, r.loaded = job[j].loaded, r.first = job[j].first, r.raised = job[j].raised,
         r.pc = "summarise" /\ r.raised = FALSE => r.done = JobIterations /\ whole = TRUE,
         runs' = WithModel(Own(j), Model(j, whole))
  PROVE  RsInv'
<1> DEFINE m == Model(j, whole)
           S == runs[Own(j)].models
           T == {n \in S : n.number # m.number} \cup {m}
           d == [runs[Own(j)] EXCEPT !.models = T]
<1>1. /\ Begun(j) /\ job[j] \in JobStates /\ Trains(j) /\ job[j].set \in Settings
      /\ Own(j) \in AllRuns /\ runs[Own(j)] \in RunDirectories
  BY TrainsThere DEF RsInv
<1>2. /\ m \in Models /\ m.number = Number(job[j]) /\ m.trained = Trained(job[j]) /\ m.whole = whole
      /\ m.at = Own(j) /\ m.contract = job[j].set.contract
  <2>1. job[j].done >= 1
    BY <1>1 DEF RsInv, RsCounts
  <2>2. Number(job[j]) \in Nat /\ Trained(job[j]) \in Nat
    BY <1>1, <2>1, OffsetOf
  <2>3. job[j].set.contract \in Contracts
    BY <1>1, SettingFields
  <2> QED BY <1>1, <2>2, <2>3 DEF Model, Models
<1>3. S \in SUBSET Models
  BY <1>1, RunFields DEF RsInv
<1> HIDE DEF m
<1>4. T \in SUBSET Models /\ T # {} /\ \E t \in T : \A n \in T : n.number <= t.number
  <2>1. S = {} \/ \E t \in S : \A n \in S : n.number <= t.number
    BY <1>1 DEF RsInv, RsModels, HasTop
  <2> HIDE DEF S
  <2> QED BY <1>2, <1>3, <2>1, WithModelTop
<1>5. /\ d \in RunDirectories /\ d.owners = runs[Own(j)].owners /\ d.models = T
      /\ d.snapshot = runs[Own(j)].snapshot /\ d.status = runs[Own(j)].status /\ d.video = runs[Own(j)].video
      /\ d.exported = runs[Own(j)].exported
  BY <1>1, <1>4 DEF RunDirectories
<1>6. runs' = [runs EXCEPT ![Own(j)] = d]
  BY <1>1 DEF WithModel, m
<1>7. m \in T /\ \A n \in T : n = m \/ n \in S
  OBVIOUS
<1> HIDE DEF d, T
<1>8. Frame(j) /\ job'[j] = r /\ runs'[Own(j)] = d /\ \A dir \in AllRuns \ {Own(j)} : runs'[dir] = runs[dir]
  BY <1>1, <1>4, <1>5, <1>6, FrameOfOwn DEF RsInv
<1>9. \A dir \in AllRuns : runs'[dir].exported = runs[dir].exported
  BY <1>5, <1>8
<1>10. ASSUME NEW dir \in AllRuns PROVE HasTop(dir)' /\ \A n \in runs'[dir].models : n.at = dir
  <2>1. CASE dir = Own(j)
    <3>1. runs'[dir].models = T
      BY <1>5, <1>8, <2>1
    <3>2. \A n \in T : n.at = dir
      BY <1>1, <1>2, <1>7, <2>1 DEF RsInv, RsModels
    <3> QED BY <1>4, <3>1, <3>2 DEF HasTop
  <2>2. CASE dir # Own(j)
    BY <1>8, <2>2 DEF RsInv, RsModels, HasTop
  <2> QED BY <2>1, <2>2
<1>11. RsCounts'
  BY <1>8, CountsStay DEF RsInv
<1>12. KeepsContracts(j) /\ HoldsKnown(j) /\ OpensSame(j)
  <2>1. runs'[Own(j)].snapshot = runs[Own(j)].snapshot
    BY <1>5, <1>8
  <2> QED BY <1>1, <1>8, <2>1 DEF RsInv, RsKnown, RsPlayed, KeepsContracts, HoldsKnown, OpensSame
<1>13. ASSUME NEW o \in AllRuns, o = Own(j), Sole(o, j) PROVE FourOf(o, j)'
  <2>1. FourOf(o, j)
    BY <1>13 DEF RsInv, RsSole, FourOf
  <2>2. /\ runs'[o].models = T /\ runs'[o].status = runs[o].status /\ runs'[o].video = runs[o].video
        /\ runs'[o].snapshot = runs[o].snapshot /\ job'[j] = r /\ r.set = job[j].set /\ r.load = job[j].load
    BY <1>5, <1>8, <1>13 DEF JobMoves
  <2>3. runs[o].status = "none" /\ runs[o].snapshot = job[j].set.contract
    BY <2>1 DEF FourOf, ContractFiled, Summarised
  <2>4. ContractFiled(o, j)'
    BY <2>2, <2>3 DEF ContractFiled
  <2>5. Offset(job[j])' = Offset(job[j]) /\ Trained(job[j])' = Trained(job[j])
    <3>1. Offset(job'[j]) = Offset(job[j])
      BY <1>1, <1>8, <2>2, OffsetOf DEF JobMoves
    <3>2. Offset(job[j])' = Offset(job'[j])
      BY DEF Offset, Trained, Number
    <3> QED BY <2>2, <3>1, <3>2 DEF Trained
  <2>6. Numbered(o, j)'
    <3>1. m.trained - m.number = Offset(job[j])
      BY <1>2 DEF Offset
    <3>2. \A n \in S : n.contract = job[j].set.contract /\ n.trained - n.number = Offset(job[j])
      BY <1>13, <2>1 DEF FourOf, Numbered
    <3> QED BY <1>2, <1>7, <2>2, <2>5, <3>1, <3>2 DEF Numbered
  <2>7. Summarised(o, j)'
    <3>1. r.pc = "summarise" /\ r.raised = FALSE => HasLast(o, j)'
      BY <1>2, <1>7, <2>2, <2>5 DEF HasLast
    <3> QED BY <2>2, <2>3, <3>1 DEF Summarised
  <2>8. NoneLater(o)' <=> NoneLater(o)
    BY <1>8 DEF Frame, NoneLater
  <2>9. Filmed(o, j)'
    BY <2>1, <2>2, <2>8 DEF FourOf, Filmed
  <2> QED BY <2>4, <2>6, <2>7, <2>9 DEF FourOf
<1> QED BY <1>8, <1>9, <1>10, <1>11, <1>12, <1>13, FromFrame

LEMMA RsSave ==
  ASSUME RsInv, NEW j \in Jobs, Save(j)
  PROVE  RsInv'
<1>1. job[j].pc = "save" /\ second' = second /\ runs' = WithModel(Own(j), Model(j, TRUE))
  BY DEF Save, Saved
<1>2. Begun(j) /\ job[j] \in JobStates /\ Trains(j) /\ job[j].set.playOnly # TRUE
  BY <1>1, TrainsThere DEF RsInv
<1>3. PICK p : p = (IF job[j].done = JobIterations THEN "summarise" ELSE "learn")
  OBVIOUS
<1> DEFINE r == [job[j] EXCEPT !.pc = p]
<1>4. job' = [job EXCEPT ![j] = r] /\ p \in {"learn", "summarise"}
  BY <1>3 DEF Save, Goes
<1>5. /\ r \in JobStates /\ r.pc = p /\ r.set = job[j].set /\ r.load = job[j].load /\ r.at = job[j].at
      /\ r.done = job[j].done /\ r.opened = job[j].opened /\ r.resolved = job[j].resolved
      /\ r.loaded = job[j].loaded /\ r.first = job[j].first /\ r.raised = job[j].raised
  BY <1>2, <1>4 DEF JobStates, Places
<1> HIDE DEF r
<1>6. JobMoves(j, r)
  BY <1>1, <1>2, <1>4, <1>5 DEF JobMoves
<1>7. r.pc = "summarise" => r.done = JobIterations
  BY <1>3, <1>5
<1> QED BY <1>1, <1>4, <1>5, <1>6, <1>7, Written

LEMMA RsSummarise ==
  ASSUME RsInv, NEW j \in Jobs, Summarise(j)
  PROVE  RsInv'
<1>1. job[j].pc = "summarise" /\ second' = second
  BY DEF Summarise
<1>2. /\ Begun(j) /\ job[j] \in JobStates /\ Trains(j) /\ job[j].set.playOnly # TRUE
      /\ Own(j) \in AllRuns /\ runs[Own(j)] \in RunDirectories
  BY <1>1, TrainsThere DEF RsInv
<1>3. PICK p : p = (IF should_run_playback(job[j]) THEN "resolve" ELSE "ended")
  OBVIOUS
<1>4. PICK s : s = Status(job[j])
  OBVIOUS
<1>5. /\ s \in {"none", "completed", "failed"} /\ (s = "completed" => job[j].raised = FALSE)
      /\ s = "failed" => job[j].set.algo = "sac" /\ job[j].raised = TRUE
  <2>1. job[j].raised \in BOOLEAN
    BY <1>2, JobFields
  <2>2. CASE job[j].raised = TRUE
    BY <1>4, <2>2 DEF Status
  <2>3. CASE job[j].raised = FALSE
    BY <1>4, <2>3 DEF Status
  <2> QED BY <2>1, <2>2, <2>3
<1> DEFINE r == [job[j] EXCEPT !.pc = p]
           d == [runs[Own(j)] EXCEPT !.status = s]
<1>6. job' = [job EXCEPT ![j] = r] /\ runs' = [runs EXCEPT ![Own(j)] = d] /\ p \in {"resolve", "ended"}
  BY <1>2, <1>3, <1>4 DEF Summarise, Goes
<1>7. /\ r \in JobStates /\ r.pc = p /\ r.set = job[j].set /\ r.load = job[j].load /\ r.at = job[j].at
      /\ r.done = job[j].done /\ r.opened = job[j].opened /\ r.resolved = job[j].resolved
      /\ r.loaded = job[j].loaded /\ r.first = job[j].first /\ r.raised = job[j].raised
  BY <1>2, <1>6 DEF JobStates, Places
<1>8. /\ d \in RunDirectories /\ d.owners = runs[Own(j)].owners /\ d.models = runs[Own(j)].models
      /\ d.snapshot = runs[Own(j)].snapshot /\ d.status = s /\ d.video = runs[Own(j)].video
      /\ d.exported = runs[Own(j)].exported
  BY <1>2, <1>5 DEF RunDirectories
<1> HIDE DEF r, d
<1>9. JobMoves(j, r)
  BY <1>1, <1>2, <1>6, <1>7 DEF JobMoves
<1>10. Frame(j) /\ job'[j] = r /\ runs'[Own(j)] = d /\ \A dir \in AllRuns \ {Own(j)} : runs'[dir] = runs[dir]
  BY <1>2, <1>6, <1>8, <1>9, FrameOfOwn DEF RsInv
<1>11. \A dir \in AllRuns : runs'[dir].models = runs[dir].models /\ runs'[dir].exported = runs[dir].exported
  BY <1>8, <1>10
<1>12. \A dir \in AllRuns : HasTop(dir)' /\ \A m \in runs'[dir].models : m.at = dir
  BY <1>11 DEF RsInv, RsModels, HasTop
<1>13. RsCounts'
  BY <1>6, <1>7, <1>10, CountsStay DEF RsInv
<1>14. KeepsContracts(j) /\ HoldsKnown(j) /\ OpensSame(j)
  <2>1. runs'[Own(j)].snapshot = runs[Own(j)].snapshot
    BY <1>8, <1>10
  <2> QED BY <1>2, <1>6, <1>7, <1>10, <2>1 DEF RsInv, RsKnown, RsPlayed, KeepsContracts, HoldsKnown, OpensSame
<1>15. ASSUME NEW o \in AllRuns, o = Own(j), Sole(o, j) PROVE FourOf(o, j)'
  <2>1. FourOf(o, j)
    BY <1>15 DEF RsInv, RsSole, FourOf
  <2>2. /\ runs'[o].models = runs[o].models /\ runs'[o].status = s /\ runs'[o].video = runs[o].video
        /\ runs'[o].snapshot = runs[o].snapshot /\ job'[j] = r
    BY <1>8, <1>10, <1>15
  <2>3. ContractFiled(o, j)'
    BY <1>1, <1>6, <1>7, <2>1, <2>2 DEF FourOf, ContractFiled
  <2>4. Offset(job[j])' = Offset(job[j]) /\ Trained(job[j])' = Trained(job[j])
    <3>1. Offset(job'[j]) = Offset(job[j])
      BY <1>2, <1>7, <1>10, OffsetOf
    <3>2. Offset(job[j])' = Offset(job'[j])
      BY DEF Offset, Trained, Number
    <3> QED BY <1>7, <2>2, <3>1, <3>2 DEF Trained
  <2>5. Numbered(o, j)'
    BY <1>7, <2>1, <2>2, <2>4 DEF FourOf, Numbered
  <2>6. Summarised(o, j)'
    <3>1. s = "completed" => HasLast(o, j)
      BY <1>1, <1>5, <2>1 DEF FourOf, Summarised
    <3>2. s = "completed" => HasLast(o, j)'
      BY <1>7, <2>2, <2>4, <3>1 DEF HasLast
    <3> QED BY <1>5, <1>6, <1>7, <2>2, <3>2 DEF Summarised
  <2>7. NoneLater(o)' <=> NoneLater(o)
    BY <1>10 DEF Frame, NoneLater
  <2>8. Filmed(o, j)'
    BY <1>6, <1>7, <2>1, <2>2, <2>7 DEF FourOf, Filmed
  <2> QED BY <2>3, <2>5, <2>6, <2>8 DEF FourOf
<1> QED BY <1>2, <1>10, <1>11, <1>12, <1>13, <1>14, <1>15, FromFrame

\* A job in its playback.
LEMMA PlaysThere ==
  ASSUME RsTypes, NEW j \in Jobs, job[j].pc \in {"resolve", "session", "play"}
  PROVE  /\ Begun(j) /\ job[j] \in JobStates /\ job[j].set \in Settings /\ job[j].set.root \in Roots
         /\ job[j].load \in {Unset, Latest} \cup Seconds /\ job[j].set.algo \in {"ppo", "appo", "sac"}
         /\ Own(j) \in AllRuns /\ Own(j)[1] = job[j].set.root /\ Own(j)[2] = job[j].at
<1>1. Begun(j)
  BY DEF Begun
<1>2. job[j] \in JobStates
  BY <1>1, BegunJob
<1> QED BY <1>1, <1>2, OwnRun, JobFields, SettingFields

LEMMA DefaultIsRoot == DefaultRoot \in Roots
BY DEF Roots

\* SAC looks for its model below the default root.
PlayRoot(jb) == IF jb.set.algo = "sac" THEN DefaultRoot ELSE jb.set.root

LEMMA FirstFound ==
  ASSUME RsTypes, RsModels, NEW jb \in JobStates
  PROVE  ResolvedFirst(jb) = NoModel \/ Found(ResolvedFirst(jb), PlayRoot(jb), jb.load)
<1>1. jb.load \in {Unset, Latest} \cup Seconds /\ jb.set.root \in Roots /\ jb.set.algo \in {"ppo", "appo", "sac"}
  BY JobFields, SettingFields
<1>2. CASE jb.set.algo = "ppo"
  <2>1. ResolvedFirst(jb) = Resolve(jb.set.root, jb.load, jb.set.checkpoint) /\ PlayRoot(jb) = jb.set.root
    BY <1>2 DEF ResolvedFirst, PlayRoot
  <2> QED BY <1>1, <2>1, Resolved
<1>3. CASE jb.set.algo = "appo"
  <2>1. ResolvedFirst(jb) = Resolve(jb.set.root, jb.load, Unset) /\ PlayRoot(jb) = jb.set.root
    BY <1>3 DEF ResolvedFirst, PlayRoot
  <2> QED BY <1>1, <2>1, Resolved
<1>4. CASE jb.set.algo = "sac"
  <2>1. ResolvedFirst(jb) = Resolve(DefaultRoot, jb.load, Unset) /\ PlayRoot(jb) = DefaultRoot
    BY <1>4 DEF ResolvedFirst, PlayRoot
  <2> QED BY <1>1, <2>1, Resolved, DefaultIsRoot
<1> QED BY <1>1, <1>2, <1>3, <1>4

LEMMA SecondFound ==
  ASSUME RsTypes, RsModels, NEW jb \in JobStates
  PROVE  \/ ResolvedSecond(jb) = NoModel
         \/ Found(ResolvedSecond(jb), PlayRoot(jb), jb.load)
         \/ jb.set.algo = "ppo" /\ ResolvedSecond(jb) = jb.resolved
<1>1. jb.load \in {Unset, Latest} \cup Seconds /\ jb.set.root \in Roots /\ jb.set.algo \in {"ppo", "appo", "sac"}
  BY JobFields, SettingFields
<1>2. CASE jb.set.algo = "ppo"
  BY <1>2 DEF ResolvedSecond
<1>3. CASE jb.set.algo = "appo"
  <2>1. ResolvedSecond(jb) = Resolve(jb.set.root, jb.load, jb.set.checkpoint) /\ PlayRoot(jb) = jb.set.root
    BY <1>3 DEF ResolvedSecond, PlayRoot
  <2> QED BY <1>1, <2>1, Resolved
<1>4. CASE jb.set.algo = "sac"
  <2>1. ResolvedSecond(jb) = Resolve(DefaultRoot, jb.load, Unset) /\ PlayRoot(jb) = DefaultRoot
    BY <1>4 DEF ResolvedSecond, PlayRoot
  <2> QED BY <1>1, <2>1, Resolved, DefaultIsRoot
<1> QED BY <1>1, <1>2, <1>3, <1>4

\* The latest run of its root is the one a job trained in, if none is later.
LEMMA LatestIsOwn ==
  ASSUME RsTypes, RsOwners, NEW j \in Jobs, Trains(j), NEW o, o = Own(j), NoneLater(o),
         job[j].load \in {Unset, Latest}, job[j].set.algo = "sac" => o[1] = DefaultRoot,
         NEW m, Found(m, PlayRoot(job[j]), job[j].load)
  PROVE  m.at = o
<1>1. Begun(j) /\ o \in AllRuns /\ o[1] = job[j].set.root
  BY OwnRun DEF Trains
<1>2. PlayRoot(job[j]) = o[1]
  BY <1>1 DEF PlayRoot
<1>3. m.at \in AllRuns /\ m.at[1] = o[1] /\ m.at[2] \in Dirs(o[1]) /\ \A t \in Dirs(o[1]) : m.at[2] >= t
  BY <1>2 DEF Found
<1>4. o[2] \in Seconds /\ o = <<o[1], o[2]>> /\ m.at = <<m.at[1], m.at[2]>> /\ m.at[2] \in Seconds
  BY <1>1, <1>3 DEF AllRuns
<1>5. Exists(o) /\ Exists(m.at)
  <2>1. j \in runs[o].owners
    BY DEF RsOwners
  <2>2. Exists(o)
    BY <2>1, OwnersExist
  <2> QED BY <1>3, <1>4, <2>2 DEF Dirs
<1>6. o[2] \in Dirs(o[1])
  BY <1>4, <1>5 DEF Dirs
<1>7. m.at[2] >= o[2] /\ ~(m.at[2] > o[2])
  BY <1>3, <1>5, <1>6 DEF NoneLater
<1>8. m.at[2] = o[2]
  BY <1>4, <1>7 DEF Seconds
<1> QED BY <1>3, <1>4, <1>8

LEMMA RsResolve ==
  ASSUME RsInv, NEW j \in Jobs, ResolveToPlay(j)
  PROVE  RsInv'
<1>1. job[j].pc = "resolve" /\ second' = second /\ runs' = runs
  BY DEF ResolveToPlay
<1>2. Begun(j) /\ job[j] \in JobStates
  BY <1>1, PlaysThere DEF RsInv
<1>3. PICK model, p : /\ model = ResolvedFirst(job[j])
                      /\ p = IF \/ model = NoModel
                                \/ job[j].set.algo = "ppo" /\ ~model.whole
                             THEN "ended" ELSE "session"
  OBVIOUS
<1>4. /\ p = "ended" \/ (p = "session" /\ model # NoModel)
      /\ model = NoModel \/ Found(model, PlayRoot(job[j]), job[j].load)
  BY <1>2, <1>3, FirstFound DEF RsInv
<1>5. model \in MaybeModel
  BY <1>4 DEF MaybeModel, Found
<1> DEFINE r == [job[j] EXCEPT !.resolved = model, !.pc = p]
<1>6. job' = [job EXCEPT ![j] = r]
  BY <1>3 DEF ResolveToPlay
<1>7. /\ r \in JobStates /\ r.pc = p /\ r.set = job[j].set /\ r.load = job[j].load /\ r.at = job[j].at
      /\ r.done = job[j].done /\ r.opened = job[j].opened /\ r.resolved = model
      /\ r.loaded = job[j].loaded /\ r.first = job[j].first /\ r.raised = job[j].raised
  BY <1>2, <1>4, <1>5 DEF JobStates, Places
<1> HIDE DEF r
<1>8. JobMoves(j, r)
  BY <1>1, <1>2, <1>4, <1>6, <1>7 DEF JobMoves, Playing
<1>9. Frame(j) /\ job'[j] = r
  BY <1>1, <1>2, <1>8, FrameOfJob DEF RsInv
<1>10. KeepsContracts(j) /\ OpensSame(j)
  BY <1>1, <1>2, <1>4, <1>7, <1>9 DEF RsInv, RsPlayed, KeepsContracts, OpensSame
<1>11. HoldsKnown(j)
  <2>1. model # NoModel => Known(model)
    BY <1>4, FoundIsKnown DEF RsInv, Found
  <2> QED BY <1>2, <1>7, <1>9, <2>1 DEF RsInv, RsKnown, HoldsKnown
<1>12. ASSUME NEW o \in AllRuns, Trains(j), o = Own(j), Sole(o, j) PROVE FourOf(o, j)'
  <2>1. FourOf(o, j)
    BY <1>12 DEF RsInv, RsSole, FourOf
  <2>2. ContractFiled(o, j)'
    BY <1>1, <1>4, <1>7, <1>9, <2>1 DEF FourOf, ContractFiled
  <2>3. Offset(job[j])' = Offset(job[j]) /\ Trained(job[j])' = Trained(job[j])
    <3>1. Offset(job'[j]) = Offset(job[j])
      BY <1>2, <1>7, <1>9, OffsetOf
    <3>2. Offset(job[j])' = Offset(job'[j])
      BY DEF Offset, Trained, Number
    <3> QED BY <1>7, <1>9, <3>1, <3>2 DEF Trained
  <2>4. Numbered(o, j)'
    BY <1>1, <1>7, <1>9, <2>1, <2>3 DEF FourOf, Numbered
  <2>5. HasLast(o, j) => HasLast(o, j)'
    BY <1>1, <1>7, <1>9, <2>3 DEF HasLast
  <2>6. Summarised(o, j)'
    BY <1>1, <1>4, <1>7, <1>9, <2>1, <2>5 DEF FourOf, Summarised
  <2>7. NoneLater(o)' <=> NoneLater(o)
    BY <1>9 DEF Frame, NoneLater
  <2>8. Filmed(o, j)'
    <3>1. SUFFICES ASSUME job[j].load \in {Unset, Latest}, job[j].set.algo = "sac" => o[1] = DefaultRoot, NoneLater(o)
                   PROVE  runs[o].video \subseteq {o} /\ (p \in {"session", "play"} => model.at = o)
      BY <1>1, <1>7, <1>9, <2>7 DEF Filmed
    <3>2. runs[o].video \subseteq {o}
      BY <2>1, <3>1 DEF FourOf, Filmed
    <3>3. CASE p = "session"
      BY <1>4, <1>12, <3>1, <3>2, <3>3, LatestIsOwn DEF RsInv
    <3> QED BY <1>4, <3>2, <3>3
  <2> QED BY <2>2, <2>4, <2>6, <2>8 DEF FourOf
<1> QED BY <1>1, <1>2, <1>4, <1>7, <1>8, <1>10, <1>11, <1>12, OnlyJob

\* What is not denied is the same, for the policy and for the environment.
LEMMA NothingDenied ==
  ASSUME NEW mine \in Contracts, NEW other \in Contracts, Denials(mine, other) = {}
  PROVE  SameContract(mine, other)
<1>1. ASSUME NEW f \in Denylist PROVE mine[f] = other[f] \/ Absent \in {mine[f], other[f]}
  <2>1. f \notin Denials(mine, other)
    OBVIOUS
  <2> QED BY <2>1 DEF Denials
<1>2. ASSUME NEW f \in EnvStructural PROVE Effective(mine, f) = Effective(other, f)
  <2>1. f \notin Denials(mine, other) /\ f \in Denylist
    BY DEF EnvStructural, Denylist
  <2>2. (mine[f] = Absent) = (other[f] = Absent)
    BY <2>1 DEF Denials
  <2>3. mine[f] = other[f] \/ Absent \in {mine[f], other[f]}
    BY <1>1, <2>1
  <2> QED BY <2>2, <2>3 DEF Effective
<1> QED BY <1>1, <1>2 DEF SameContract

LEMMA RsOpen ==
  ASSUME RsInv, NEW j \in Jobs, OpenSession(j)
  PROVE  RsInv'
<1>1. job[j].pc = "session" /\ second' = second /\ runs' = runs
  BY DEF OpenSession
<1>2. Begun(j) /\ job[j] \in JobStates /\ job[j].set \in Settings
  BY <1>1, PlaysThere DEF RsInv
<1>3. PICK model : model = ResolvedSecond(job[j])
  OBVIOUS
<1> DEFINE opens == /\ model # NoModel
                    /\ resolve_sim2sim_config(runs[model.at].snapshot, job[j].set.contract, job[j].set.strict)
                    /\ model.whole
                    /\ Fits(model.contract, job[j].set.contract)
<1>4. PICK p, o : p = (IF opens THEN "play" ELSE "ended") /\ o = (IF opens THEN model ELSE NoModel)
  OBVIOUS
<1>5. \/ p = "ended" /\ o = NoModel
      \/ /\ p = "play" /\ o = model /\ model # NoModel
         /\ resolve_sim2sim_config(runs[model.at].snapshot, job[j].set.contract, job[j].set.strict)
  BY <1>4
<1>6. job[j].resolved # NoModel /\ job[j].resolved \in MaybeModel /\ Known(job[j].resolved)
  BY <1>1, <1>2, JobFields DEF RsInv, RsCounts, RsKnown
<1>7. /\ job[j].set.algo = "ppo" => model = job[j].resolved
      /\ model # NoModel => model \in Models /\ Known(model) /\ model.at \in AllRuns
  <2>1. job[j].set.algo = "ppo" => model = job[j].resolved
    BY <1>3 DEF ResolvedSecond
  <2>2. \/ model = NoModel \/ Found(model, PlayRoot(job[j]), job[j].load)
        \/ job[j].set.algo = "ppo" /\ model = job[j].resolved
    BY <1>2, <1>3, SecondFound DEF RsInv
  <2>3. CASE Found(model, PlayRoot(job[j]), job[j].load)
    BY <2>1, <2>3, FoundIsKnown DEF RsInv, Found
  <2>4. CASE model = job[j].resolved
    BY <1>6, <2>1, <2>4 DEF MaybeModel, Models
  <2> QED BY <2>1, <2>2, <2>3, <2>4
<1> DEFINE r == [job[j] EXCEPT !.pc = p, !.opened = o]
<1>8. job' = [job EXCEPT ![j] = r]
  BY <1>3, <1>4 DEF OpenSession
<1> HIDE DEF opens
<1>9. /\ r \in JobStates /\ r.pc = p /\ r.set = job[j].set /\ r.load = job[j].load /\ r.at = job[j].at
      /\ r.done = job[j].done /\ r.opened = o /\ r.resolved = job[j].resolved
      /\ r.loaded = job[j].loaded /\ r.first = job[j].first /\ r.raised = job[j].raised
  <2>1. o \in MaybeModel
    BY <1>5, <1>7 DEF MaybeModel
  <2> QED BY <1>2, <1>5, <2>1 DEF JobStates, Places
<1> HIDE DEF r
<1>10. JobMoves(j, r)
  BY <1>1, <1>2, <1>5, <1>8, <1>9 DEF JobMoves, Playing
<1>11. Frame(j) /\ job'[j] = r
  BY <1>1, <1>2, <1>10, FrameOfJob DEF RsInv
<1>12. KeepsContracts(j)
  BY <1>1, <1>5, <1>9, <1>11 DEF KeepsContracts
<1>13. HoldsKnown(j)
  BY <1>5, <1>6, <1>7, <1>9, <1>11 DEF HoldsKnown
<1>14. OpensSame(j)
  <2>1. SUFFICES ASSUME o # NoModel, job[j].set.strict = TRUE, NEW k \in Jobs, Sole(o.at, k)
                 PROVE  SameContract(o.contract, job[j].set.contract)
    BY <1>9, <1>11 DEF OpensSame
  <2>2. o = model /\ model # NoModel /\ Known(model) /\ model.at \in AllRuns /\ model \in Models
    BY <1>5, <1>7, <2>1
  <2>3. model.contract = job[k].set.contract /\ runs[model.at].snapshot = model.contract
    BY <2>1, <2>2 DEF Known
  <2>4. model.contract \in Contracts /\ job[j].set.contract \in Contracts
    BY <1>2, <2>2, SettingFields DEF Models
  <2>5. runs[model.at].snapshot # NoContract
    BY <2>3, <2>4 DEF Contracts, NoContract
  <2>6. Denials(model.contract, job[j].set.contract) = {}
    BY <1>5, <2>1, <2>2, <2>3, <2>5 DEF resolve_sim2sim_config
  <2> QED BY <2>2, <2>4, <2>6, NothingDenied
<1>15. ASSUME NEW d \in AllRuns, Trains(j), d = Own(j), Sole(d, j) PROVE FourOf(d, j)'
  <2>1. FourOf(d, j)
    BY <1>15 DEF RsInv, RsSole, FourOf
  <2>2. ContractFiled(d, j)'
    BY <1>1, <1>5, <1>9, <1>11, <2>1 DEF FourOf, ContractFiled
  <2>3. Offset(job[j])' = Offset(job[j]) /\ Trained(job[j])' = Trained(job[j])
    <3>1. Offset(job'[j]) = Offset(job[j])
      BY <1>2, <1>9, <1>11, OffsetOf
    <3>2. Offset(job[j])' = Offset(job'[j])
      BY DEF Offset, Trained, Number
    <3> QED BY <1>9, <1>11, <3>1, <3>2 DEF Trained
  <2>4. Numbered(d, j)'
    BY <1>1, <1>9, <1>11, <2>1, <2>3 DEF FourOf, Numbered
  <2>5. HasLast(d, j) => HasLast(d, j)'
    BY <1>1, <1>9, <1>11, <2>3 DEF HasLast
  <2>6. Summarised(d, j)'
    BY <1>1, <1>5, <1>9, <1>11, <2>1, <2>5 DEF FourOf, Summarised
  <2>7. NoneLater(d)' <=> NoneLater(d)
    BY <1>11 DEF Frame, NoneLater
  <2>8. Filmed(d, j)'
    BY <1>1, <1>5, <1>9, <1>11, <2>1, <2>7 DEF FourOf, Filmed
  <2> QED BY <2>2, <2>4, <2>6, <2>8 DEF FourOf
<1>16. /\ r.pc \notin {"record", "build", "save"} /\ r.resolved # NoModel
       /\ r.pc = "play" => r.opened # NoModel /\ (r.set.algo = "ppo" => r.opened = r.resolved)
  BY <1>5, <1>6, <1>7, <1>9
<1> QED BY <1>1, <1>2, <1>10, <1>12, <1>13, <1>14, <1>15, <1>16, OnlyJob

\* The policy is exported beside the model resolved first, and the film is filed.
LEMMA RsPlay ==
  ASSUME RsInv, NEW j \in Jobs, Play(j)
  PROVE  RsInv'
<1>1. job[j].pc = "play" /\ second' = second
  BY DEF Play
<1>2. /\ Begun(j) /\ job[j] \in JobStates /\ job[j].set \in Settings /\ Own(j) \in AllRuns
      /\ job[j].set.playOnly \in BOOLEAN
  BY <1>1, PlaysThere, SettingFields DEF RsInv
<1>3. PICK x, y, dir, own : x = job[j].resolved /\ y = job[j].opened /\ dir = x.at /\ own = Own(j)
  OBVIOUS
<1>4. /\ x \in Models /\ Known(x) /\ y \in Models /\ dir \in AllRuns /\ own \in AllRuns
      /\ job[j].set.algo = "ppo" => y = x
  <2>1. x # NoModel /\ y # NoModel /\ (job[j].set.algo = "ppo" => y = x)
    BY <1>1, <1>2, <1>3 DEF RsInv, RsCounts
  <2>2. x \in MaybeModel /\ y \in MaybeModel
    BY <1>2, <1>3, JobFields
  <2>3. Known(x)
    BY <1>2, <1>3, <2>1 DEF RsInv, RsKnown
  <2> QED BY <1>2, <1>3, <2>1, <2>2, <2>3 DEF MaybeModel, Models
<1> DEFINE e == <<j, y>>
           r == [job[j] EXCEPT !.pc = "ended"]
<1>5. /\ job' = [job EXCEPT ![j] = r]
      /\ runs' = [runs EXCEPT ![dir].exported = @ \cup {e},
                              ![own].video = IF job[j].set.playOnly THEN @ ELSE {dir}]
  BY <1>3 DEF Play, Goes
<1>6. /\ r \in JobStates /\ r.pc = "ended" /\ r.set = job[j].set /\ r.load = job[j].load /\ r.at = job[j].at
      /\ r.done = job[j].done /\ r.opened = y /\ r.resolved = x
      /\ r.loaded = job[j].loaded /\ r.first = job[j].first /\ r.raised = job[j].raised
  BY <1>2, <1>3 DEF JobStates, Places
<1> DEFINE u == [runs[dir] EXCEPT !.exported = @ \cup {e}]
           mid == [runs EXCEPT ![dir] = u]
           v == [mid[own] EXCEPT !.video = IF job[j].set.playOnly THEN @ ELSE {dir}]
<1>7. runs' = [mid EXCEPT ![own] = v]
  BY <1>4, <1>5 DEF RsInv, RsTypes
<1>8. /\ u \in RunDirectories /\ u.owners = runs[dir].owners /\ u.models = runs[dir].models
      /\ u.snapshot = runs[dir].snapshot /\ u.status = runs[dir].status /\ u.video = runs[dir].video
      /\ u.exported = runs[dir].exported \cup {e}
  <2>1. runs[dir] \in RunDirectories
    BY <1>4, RunFields DEF RsInv
  <2>2. e \in Jobs \X Models
    BY <1>4
  <2> HIDE DEF e
  <2> QED BY <2>1, <2>2 DEF RunDirectories
<1> HIDE DEF e, r, u
<1>9. /\ mid \in [AllRuns -> RunDirectories]
      /\ \A d \in AllRuns : /\ mid[d].owners = runs[d].owners /\ mid[d].models = runs[d].models
                            /\ mid[d].snapshot = runs[d].snapshot /\ mid[d].status = runs[d].status
                            /\ mid[d].video = runs[d].video
                            /\ mid[d].exported = IF d = dir THEN runs[d].exported \cup {e} ELSE runs[d].exported
  BY <1>4, <1>8 DEF RsInv, RsTypes
<1> HIDE DEF mid
<1>10. /\ v \in RunDirectories /\ v.owners = mid[own].owners /\ v.models = mid[own].models
       /\ v.snapshot = mid[own].snapshot /\ v.status = mid[own].status /\ v.exported = mid[own].exported
       /\ job[j].set.playOnly = TRUE => v.video = mid[own].video
       /\ job[j].set.playOnly = FALSE => v.video = {dir}
  <2>1. mid[own] \in RunDirectories
    BY <1>4, <1>9
  <2> QED BY <1>2, <1>4, <2>1 DEF RunDirectories
<1> HIDE DEF v
<1>11. /\ runs' \in [AllRuns -> RunDirectories]
       /\ \A d \in AllRuns : /\ runs'[d].owners = runs[d].owners /\ runs'[d].models = runs[d].models
                             /\ runs'[d].snapshot = runs[d].snapshot /\ runs'[d].status = runs[d].status
                             /\ runs'[d].exported = IF d = dir THEN runs[d].exported \cup {e} ELSE runs[d].exported
                             /\ d # own \/ job[j].set.playOnly = TRUE => runs'[d].video = runs[d].video
       /\ job[j].set.playOnly = FALSE => runs'[own].video = {dir}
  BY <1>2, <1>4, <1>7, <1>9, <1>10
<1>12. \A d \in AllRuns : Exists(d)' <=> Exists(d)
  <2>1. SUFFICES ASSUME NEW d \in AllRuns PROVE runs'[d] = EmptyRun <=> runs[d] = EmptyRun
    BY DEF Exists
  <2>2. CASE d = dir
    <3>1. runs[d].models # {} /\ EmptyRun.models = {}
      BY <1>3, <1>4, <2>2 DEF Known, EmptyRun
    <3> QED BY <1>11, <3>1
  <2>3. CASE d # dir /\ (d # own \/ job[j].set.playOnly = TRUE)
    <3>1. /\ runs'[d].owners = runs[d].owners /\ runs'[d].models = runs[d].models /\ runs'[d].snapshot = runs[d].snapshot
          /\ runs'[d].status = runs[d].status /\ runs'[d].exported = runs[d].exported /\ runs'[d].video = runs[d].video
      BY <1>11, <2>3
    <3>2. runs'[d] \in RunDirectories /\ runs[d] \in RunDirectories
      BY <1>11, RunFields DEF RsInv
    <3>3. \A a \in RunDirectories :
             a = [owners |-> a.owners, snapshot |-> a.snapshot, models |-> a.models, status |-> a.status,
                  exported |-> a.exported, video |-> a.video]
      BY DEF RunDirectories
    <3>4. runs'[d] = runs[d]
      BY <3>1, <3>2, <3>3, Zenon
    <3> QED BY <3>4
  <2>4. CASE d = own /\ job[j].set.playOnly = FALSE
    <3>1. j \in runs[d].owners
      BY <1>2, <1>3, <2>4 DEF RsInv, RsOwners, Trains
    <3>2. EmptyRun.owners = {}
      BY DEF EmptyRun
    <3> QED BY <1>11, <3>1, <3>2
  <2> QED BY <1>2, <2>2, <2>3, <2>4
<1>13. Frame(j) /\ job'[j] = r
  <2>1. job'[j] = r /\ (\A k \in Jobs \ {j} : job'[k] = job[k])
    BY <1>5 DEF RsInv, RsTypes
  <2>2. DOMAIN job' = Jobs /\ job' = [k \in Jobs |-> job'[k]]
    BY <1>5 DEF RsInv, RsTypes
  <2>3. "ended" \in Playing
    BY DEF Playing
  <2> QED BY <1>1, <1>2, <1>3, <1>6, <1>11, <1>12, <2>1, <2>2, <2>3 DEF Frame
<1>14. RsTypes' /\ RsOwners'
  BY <1>13, FrameBegun, FrameOwners DEF RsInv
<1>15. RsModels'
  <2>1. \A d \in AllRuns : HasTop(d)' /\ \A m \in runs'[d].models : m.at = d
    BY <1>11 DEF RsInv, RsModels, HasTop
  <2>2. \A root \in Roots : Dirs(root)' = Dirs(root)
    BY <1>13, FrameRoots
  <2> QED BY <1>1, <2>1, <2>2 DEF RsInv, RsModels
<1>16. RsCounts'
  BY <1>6, <1>13, CountsStay DEF RsInv
<1>17. RsKnown' /\ RsPlayed'
  <2>1. KeepsContracts(j)
    BY <1>2, <1>6, <1>11, <1>13 DEF KeepsContracts
  <2>2. job'[j].resolved = job[j].resolved /\ job'[j].opened = job[j].opened
    BY <1>3, <1>6, <1>13
  <2>3. HoldsKnown(j) /\ OpensSame(j)
    BY <1>2, <2>2 DEF RsInv, RsKnown, RsPlayed, HoldsKnown, OpensSame
  <2> QED BY <1>13, <2>1, <2>3, FrameKnown, FramePlayed DEF RsInv
<1>18. RsSole'
  <2>1. ASSUME NEW o \in AllRuns, Trains(j), o = Own(j), Sole(o, j) PROVE FourOf(o, j)'
    <3>1. FourOf(o, j) /\ o = own /\ job[j].set.playOnly = FALSE
      BY <1>2, <1>3, <2>1 DEF RsInv, RsSole, FourOf, Trains
    <3>2. ContractFiled(o, j)'
      BY <1>1, <1>6, <1>11, <1>13, <3>1 DEF FourOf, ContractFiled
    <3>3. Offset(job[j])' = Offset(job[j]) /\ Trained(job[j])' = Trained(job[j])
      <4>1. Offset(job'[j]) = Offset(job[j])
        BY <1>2, <1>6, <1>13, OffsetOf
      <4>2. Offset(job[j])' = Offset(job'[j])
        BY DEF Offset, Trained, Number
      <4> QED BY <1>6, <1>13, <4>1, <4>2 DEF Trained
    <3>4. Numbered(o, j)'
      BY <1>6, <1>11, <1>13, <3>1, <3>3 DEF FourOf, Numbered
    <3>5. HasLast(o, j) => HasLast(o, j)'
      <4>1. runs'[o].models = runs[o].models /\ job'[j].done = job[j].done
        BY <1>6, <1>11, <1>13
      <4> QED BY <3>3, <4>1 DEF HasLast
    <3>6. Summarised(o, j)'
      BY <1>1, <1>6, <1>11, <1>13, <3>1, <3>5 DEF FourOf, Summarised
    <3>7. NoneLater(o)' <=> NoneLater(o)
      BY <1>13 DEF Frame, NoneLater
    <3>8. Filmed(o, j)'
      BY <1>1, <1>3, <1>6, <1>11, <1>13, <3>1, <3>7 DEF FourOf, Filmed
    <3> QED BY <3>2, <3>4, <3>6, <3>8 DEF FourOf
  <2> QED BY <1>13, <2>1, FrameSole DEF RsInv
<1>19. RsExported'
  <2>1. SUFFICES ASSUME NEW d \in AllRuns, NEW f \in runs'[d].exported
                 PROVE  Begun(f[1])' /\ (job'[f[1]].set.algo = "ppo" => f[2].at = d)
    BY DEF RsExported
  <2>2. CASE f \in runs[d].exported
    <3>1. f[1] \in Jobs
      <4>1. runs[d].exported \subseteq Jobs \X Models
        BY RunFields DEF RsInv
      <4> QED BY <2>2, <4>1
    <3>2. Begun(f[1]) /\ (job[f[1]].set.algo = "ppo" => f[2].at = d)
      BY <2>2 DEF RsInv, RsExported
    <3> QED BY <1>13, <3>1, <3>2, FrameBegun DEF RsInv
  <2>3. CASE d = dir /\ f = e
    <3>1. f[1] = j /\ f[2] = y
      BY <2>3 DEF e
    <3> QED BY <1>2, <1>3, <1>4, <1>13, <2>3, <3>1, FrameBegun DEF RsInv
  <2> QED BY <1>11, <2>1, <2>2, <2>3
<1> QED BY <1>14, <1>15, <1>16, <1>17, <1>18, <1>19 DEF RsInv

\* A job is killed: between writes, or inside one.
LEMMA RsKilled ==
  ASSUME RsInv, NEW j \in Jobs, Killed(j)
  PROVE  RsInv'
<1>1. job[j].pc \notin {"idle", "ended", "killed"} /\ second' = second
  BY DEF Killed
<1>2. Begun(j) /\ job[j] \in JobStates /\ job[j].set \in Settings
  <2>1. Begun(j)
    BY <1>1 DEF Begun
  <2> QED BY <2>1, BegunJob, JobFields DEF RsInv
<1> DEFINE r == [job[j] EXCEPT !.pc = "killed"]
<1>3. job' = [job EXCEPT ![j] = r]
  BY DEF Killed, Goes
<1>4. /\ r \in JobStates /\ r.pc = "killed" /\ r.set = job[j].set /\ r.load = job[j].load /\ r.at = job[j].at
      /\ r.done = job[j].done /\ r.opened = job[j].opened /\ r.resolved = job[j].resolved
      /\ r.loaded = job[j].loaded /\ r.first = job[j].first /\ r.raised = job[j].raised
  BY <1>2 DEF JobStates, Places
<1> HIDE DEF r
<1>5. JobMoves(j, r)
  <2>1. r.pc \in Playing
    BY <1>4 DEF Playing
  <2> QED BY <1>1, <1>3, <1>4, <2>1 DEF JobMoves
\* What is left of a run whose models stay.
<1>6. ASSUME Frame(j), job'[j] = r, NEW o \in AllRuns, Sole(o, j),
             runs'[o].models = runs[o].models, runs'[o].status = runs[o].status, runs'[o].video = runs[o].video,
             runs'[o].snapshot = runs[o].snapshot \/ runs[o].models = {}
      PROVE  FourOf(o, j)'
  <2>1. FourOf(o, j)
    BY <1>6 DEF RsInv, RsSole, FourOf
  <2>2. ContractFiled(o, j)'
    BY <1>1, <1>4, <1>6, <2>1 DEF FourOf, ContractFiled
  <2>3. Offset(job[j])' = Offset(job[j]) /\ Trained(job[j])' = Trained(job[j])
    <3>1. Offset(job'[j]) = Offset(job[j])
      BY <1>2, <1>4, <1>6, OffsetOf
    <3>2. Offset(job[j])' = Offset(job'[j])
      BY DEF Offset, Trained, Number
    <3> QED BY <1>4, <1>6, <3>1, <3>2 DEF Trained
  <2>4. Numbered(o, j)'
    BY <1>4, <1>6, <2>1, <2>3 DEF FourOf, Numbered
  <2>5. HasLast(o, j) => HasLast(o, j)'
    BY <1>4, <1>6, <2>3 DEF HasLast
  <2>6. Summarised(o, j)'
    BY <1>4, <1>6, <2>1, <2>5 DEF FourOf, Summarised
  <2>7. NoneLater(o)' <=> NoneLater(o)
    BY <1>6 DEF Frame, NoneLater
  <2>8. Filmed(o, j)'
    BY <1>4, <1>6, <2>1, <2>7 DEF FourOf, Filmed
  <2> QED BY <2>2, <2>4, <2>6, <2>8 DEF FourOf
<1>7. CASE runs' = runs
  <2>1. Frame(j) /\ job'[j] = r
    BY <1>2, <1>5, <1>7, FrameOfJob DEF RsInv
  <2>2. KeepsContracts(j) /\ HoldsKnown(j) /\ OpensSame(j)
    BY <1>2, <1>4, <1>7, <2>1 DEF RsInv, RsKnown, RsPlayed, KeepsContracts, HoldsKnown, OpensSame
  <2>3. \A o \in AllRuns : Trains(j) /\ o = Own(j) /\ Sole(o, j) => FourOf(o, j)'
    BY <1>6, <1>7, <2>1
  <2> QED BY <1>2, <1>4, <1>5, <1>7, <2>2, <2>3, OnlyJob
<1>8. CASE job[j].pc = "record" /\ runs' = [runs EXCEPT ![Own(j)].snapshot = NoContract]
  <2> DEFINE d == [runs[Own(j)] EXCEPT !.snapshot = NoContract]
  <2>1. Trains(j) /\ Own(j) \in AllRuns /\ runs[Own(j)] \in RunDirectories
    BY <1>8, TrainsThere DEF RsInv
  <2>2. /\ d \in RunDirectories /\ d.owners = runs[Own(j)].owners /\ d.models = runs[Own(j)].models
        /\ d.status = runs[Own(j)].status /\ d.video = runs[Own(j)].video
        /\ d.exported = runs[Own(j)].exported
    BY <2>1 DEF RunDirectories
  <2>3. runs' = [runs EXCEPT ![Own(j)] = d]
    BY <1>8, <2>1
  <2> HIDE DEF d
  <2>4. Frame(j) /\ job'[j] = r /\ runs'[Own(j)] = d /\ \A dir \in AllRuns \ {Own(j)} : runs'[dir] = runs[dir]
    BY <1>5, <2>1, <2>2, <2>3, FrameOfOwn DEF RsInv
  <2>5. \A dir \in AllRuns : runs'[dir].models = runs[dir].models /\ runs'[dir].exported = runs[dir].exported
    BY <2>2, <2>4
  <2>6. \A dir \in AllRuns : HasTop(dir)' /\ \A m \in runs'[dir].models : m.at = dir
    BY <2>5 DEF RsInv, RsModels, HasTop
  <2>7. RsCounts'
    BY <1>4, <2>4, CountsStay DEF RsInv
  <2>8. KeepsContracts(j) /\ HoldsKnown(j) /\ OpensSame(j)
    BY <1>2, <1>4, <1>8, <2>4 DEF RsInv, RsKnown, RsPlayed, KeepsContracts, HoldsKnown, OpensSame
  <2>9. ASSUME NEW o \in AllRuns, o = Own(j), Sole(o, j) PROVE FourOf(o, j)'
    <3>1. runs[o].models = {}
      BY <1>8, <2>9 DEF RsInv, RsSole, ContractFiled
    <3> QED BY <1>6, <2>2, <2>4, <2>9, <3>1
  <2> QED BY <2>4, <2>5, <2>6, <2>7, <2>8, <2>9, FromFrame
<1>9. CASE job[j].pc = "save" /\ runs' = WithModel(Own(j), Model(j, FALSE))
  BY <1>4, <1>5, <1>9, Written
<1> QED BY <1>7, <1>8, <1>9 DEF Killed

\* What a launch does: a job begins, and names its directory unless it only plays.
Launched(j, r, new) ==
    /\ job[j].pc = "idle" /\ job' = [job EXCEPT ![j] = r] /\ r \in JobStates
    /\ r.pc = IF r.set.playOnly THEN "resolve" ELSE "record"
    /\ r.done = 0 /\ r.resolved = NoModel /\ r.opened = NoModel
    /\ new = <<r.set.root, r.at>> /\ new \in AllRuns /\ r.at # 0
    /\ second' = r.at /\ second <= r.at
    /\ runs' = IF r.set.playOnly THEN runs ELSE [runs EXCEPT ![new].owners = @ \cup {j}]

LEMMA LaunchOf ==
  ASSUME RsInv, NEW j \in Jobs, LaunchJob(j)
  PROVE  \E r, new : Launched(j, r, new)
<1>1. PICK set \in Settings, load \in {Unset, Latest} \cup Seconds, s \in {second, second + 1} :
         /\ s \in 1 .. MaxSecond
         /\ second' = s
         /\ job' = [job EXCEPT ![j] =
              [pc |-> IF set.playOnly THEN "resolve" ELSE "record", set |-> set, load |-> load, at |-> s,
               offered |-> Resolve(set.root, load, Unset), loaded |-> NoModel, first |-> 0, done |-> 0,
               raised |-> FALSE, resolved |-> NoModel, opened |-> NoModel]]
         /\ runs' = IF set.playOnly THEN runs ELSE [runs EXCEPT ![<<set.root, s>>].owners = @ \cup {j}]
  BY Zenon DEF LaunchJob
<1>2. set.root \in Roots /\ set.playOnly \in BOOLEAN
  BY SettingFields
<1>3. PICK off, p : off = Resolve(set.root, load, Unset) /\ p = IF set.playOnly THEN "resolve" ELSE "record"
  OBVIOUS
<1>4. off \in MaybeModel /\ NoModel \in MaybeModel
  <2>1. off = NoModel \/ Found(off, set.root, load)
    BY <1>2, <1>3, Resolved DEF RsInv
  <2> QED BY <2>1 DEF Found, MaybeModel
<1> DEFINE r == [pc |-> p, set |-> set, load |-> load, at |-> s, offered |-> off, loaded |-> NoModel, first |-> 0,
                 done |-> 0, raised |-> FALSE, resolved |-> NoModel, opened |-> NoModel]
           new == <<set.root, s>>
<1>5. job' = [job EXCEPT ![j] = r]
  BY <1>1, <1>3
<1>6. p \in {"resolve", "record"}
  BY <1>3
<1>7. r \in JobStates
  BY <1>1, <1>4, <1>6, RunStoreAssumption DEF JobStates, Places
<1>8. /\ r.pc = p /\ r.set = set /\ r.at = s /\ r.done = 0 /\ r.resolved = NoModel /\ r.opened = NoModel
  OBVIOUS
<1> HIDE DEF r
<1>9. new \in AllRuns /\ s # 0 /\ second <= s
  BY <1>1, <1>2, RunStoreAssumption DEF AllRuns, Seconds, RsInv, RsTypes
<1>10. job[j].pc = "idle"
  BY DEF LaunchJob
<1> HIDE DEF new
<1>11. runs' = IF set.playOnly THEN runs ELSE [runs EXCEPT ![new].owners = @ \cup {j}]
  BY <1>1 DEF new
<1>12. Launched(j, r, new)
  BY <1>1, <1>3, <1>5, <1>7, <1>8, <1>9, <1>10, <1>11 DEF Launched, new
<1> QED BY <1>12

\* The disk after a launch.
LEMMA LaunchDisk ==
  ASSUME RsInv, NEW j \in Jobs, NEW r, NEW new, Launched(j, r, new)
  PROVE  /\ RsTypes' /\ job'[j] = r /\ Begun(j)' /\ ~Begun(j) /\ Own(j)' = new /\ new \in AllRuns /\ new[2] # 0
         /\ r.set.playOnly \in BOOLEAN
         /\ \A k \in Jobs \ {j} : job'[k] = job[k] /\ (Begun(k)' <=> Begun(k)) /\ (Trains(k)' <=> Trains(k))
                                  /\ Own(k)' = Own(k)
         /\ \A dir \in AllRuns : /\ runs'[dir].snapshot = runs[dir].snapshot /\ runs'[dir].models = runs[dir].models
                                 /\ runs'[dir].status = runs[dir].status /\ runs'[dir].exported = runs[dir].exported
                                 /\ runs'[dir].video = runs[dir].video
                                 /\ dir # new \/ r.set.playOnly = TRUE => runs'[dir] = runs[dir]
         /\ r.set.playOnly = FALSE => runs'[new].owners = runs[new].owners \cup {j}
<1>1. job'[j] = r /\ \A k \in Jobs \ {j} : job'[k] = job[k]
  BY DEF Launched, RsInv, RsTypes
<1>2. r \in JobStates /\ new = <<r.set.root, r.at>> /\ new \in AllRuns /\ new[2] = r.at /\ new[2] # 0
  BY DEF Launched
<1>3. r.set.playOnly \in BOOLEAN /\ r.at \in 1 .. MaxSecond
  BY <1>2, JobFields, SettingFields
<1>4. Begun(j)' /\ ~Begun(j)
  BY <1>1 DEF Launched, Begun
<1>5. Own(j)' = new
  BY <1>1, <1>2 DEF Own
<1>6. \A k \in Jobs \ {j} : job'[k] = job[k] /\ (Begun(k)' <=> Begun(k)) /\ (Trains(k)' <=> Trains(k)) /\ Own(k)' = Own(k)
  BY <1>1 DEF Begun, Trains, Own
<1> DEFINE d == [runs[new] EXCEPT !.owners = @ \cup {j}]
<1>7. runs[new] \in RunDirectories /\ runs \in [AllRuns -> RunDirectories]
  BY <1>2, RunFields DEF RsInv, RsTypes
<1>8. /\ d \in RunDirectories /\ d.owners = runs[new].owners \cup {j} /\ d.models = runs[new].models
      /\ d.snapshot = runs[new].snapshot /\ d.status = runs[new].status /\ d.video = runs[new].video
      /\ d.exported = runs[new].exported
  BY <1>7 DEF RunDirectories
<1>9. runs' = IF r.set.playOnly THEN runs ELSE [runs EXCEPT ![new] = d]
  BY <1>2, <1>7 DEF Launched
<1> HIDE DEF d
<1>10. /\ runs' \in [AllRuns -> RunDirectories]
       /\ \A dir \in AllRuns : /\ runs'[dir].snapshot = runs[dir].snapshot /\ runs'[dir].models = runs[dir].models
                               /\ runs'[dir].status = runs[dir].status /\ runs'[dir].exported = runs[dir].exported
                               /\ runs'[dir].video = runs[dir].video
                               /\ dir # new \/ r.set.playOnly = TRUE => runs'[dir] = runs[dir]
       /\ r.set.playOnly = FALSE => runs'[new].owners = runs[new].owners \cup {j}
  <2>1. CASE r.set.playOnly = TRUE
    BY <1>7, <1>9, <2>1
  <2>2. CASE r.set.playOnly = FALSE
    BY <1>2, <1>7, <1>8, <1>9, <2>2
  <2> QED BY <1>3, <2>1, <2>2
<1>11. RsTypes'
  <2>1. second' \in Seconds
    BY <1>3, RunStoreAssumption DEF Launched, Seconds
  <2>2. DOMAIN job' = Jobs /\ job' = [k \in Jobs |-> job'[k]]
    BY DEF Launched, RsInv, RsTypes
  <2>3. \A k \in Jobs : job'[k] = NoJob \/ job'[k] \in JobStates
    BY <1>1, <1>2 DEF RsInv, RsTypes
  <2> QED BY <1>10, <2>1, <2>2, <2>3 DEF RsTypes
<1> QED BY <1>1, <1>2, <1>3, <1>4, <1>5, <1>6, <1>10, <1>11

\* Who has a directory alone after a launch.
LEMMA LaunchSole ==
  ASSUME RsInv, NEW j \in Jobs, NEW r, NEW new, Launched(j, r, new), NEW dir \in AllRuns, NEW k \in Jobs, Sole(dir, k)'
  PROVE  \/ k = j /\ dir = new /\ r.set.playOnly = FALSE /\ runs[dir].owners = {}
         \/ k # j /\ Sole(dir, k) /\ runs'[dir] = runs[dir] /\ job'[k] = job[k]
<1>1. /\ ~Begun(j) /\ r.set.playOnly \in BOOLEAN
      /\ dir # new \/ r.set.playOnly = TRUE => runs'[dir] = runs[dir]
      /\ r.set.playOnly = FALSE => runs'[new].owners = runs[new].owners \cup {j}
      /\ \A i \in Jobs \ {j} : job'[i] = job[i]
  BY LaunchDisk
<1>2. j \notin runs[dir].owners
  BY <1>1 DEF RsInv, RsOwners, Trains
<1>3. runs'[dir].owners = {k}
  BY DEF Sole
<1>4. CASE dir = new /\ r.set.playOnly = FALSE
  BY <1>1, <1>2, <1>3, <1>4
<1>5. CASE dir # new \/ r.set.playOnly = TRUE
  BY <1>1, <1>2, <1>3, <1>5 DEF Sole
<1> QED BY <1>1, <1>4, <1>5

\* A directory that appears is a later one.
LEMMA LaunchRoots ==
  ASSUME RsInv, NEW j \in Jobs, NEW r, NEW new, Launched(j, r, new)
  PROVE  /\ \A dir \in AllRuns : Exists(dir) => Exists(dir)'
         /\ \A dir \in AllRuns : NoneLater(dir)' => NoneLater(dir)
         /\ RsModels'
<1>1. /\ r.set.playOnly \in BOOLEAN /\ new \in AllRuns
      /\ r.set.playOnly = FALSE => runs'[new].owners = runs[new].owners \cup {j}
      /\ \A dir \in AllRuns : /\ runs'[dir].models = runs[dir].models
                              /\ dir # new \/ r.set.playOnly = TRUE => runs'[dir] = runs[dir]
  BY LaunchDisk
<1>2. new = <<r.set.root, r.at>> /\ second' = r.at /\ second <= r.at /\ second \in Seconds /\ r.at \in 1 .. MaxSecond
  BY JobFields DEF Launched, RsInv, RsTypes
<1>3. \A dir \in AllRuns : Exists(dir)' <=> Exists(dir) \/ (dir = new /\ r.set.playOnly = FALSE)
  <2>1. SUFFICES ASSUME NEW dir \in AllRuns
                 PROVE  runs'[dir] # EmptyRun <=> runs[dir] # EmptyRun \/ (dir = new /\ r.set.playOnly = FALSE)
    BY DEF Exists
  <2>2. EmptyRun.owners = {}
    BY DEF EmptyRun
  <2>3. CASE dir = new /\ r.set.playOnly = FALSE
    BY <1>1, <2>2, <2>3
  <2>4. CASE dir # new \/ r.set.playOnly = TRUE
    BY <1>1, <2>4
  <2> QED BY <1>1, <2>3, <2>4
<1>4. \A dir \in AllRuns : HasTop(dir)' /\ \A m \in runs'[dir].models : m.at = dir
  BY <1>1 DEF RsInv, RsModels, HasTop
<1>5. ASSUME NEW root \in Roots
      PROVE  (\A s \in Dirs(root)' : s <= second') /\ (Dirs(root)' = {} \/ \E s \in Dirs(root)' : \A t \in Dirs(root)' : s >= t)
  <2>1. PICK here, at, before : here = (r.set.root = root /\ r.set.playOnly = FALSE) /\ at = r.at /\ before = Dirs(root)
    OBVIOUS
  <2>2. Dirs(root)' = before \/ (Dirs(root)' = before \cup {at})
    <3>1. \A s \in Seconds : <<root, s>> \in AllRuns /\ (<<root, s>> = new <=> root = r.set.root /\ s = r.at)
      BY <1>2 DEF AllRuns
    <3>2. r.at \in Seconds
      BY <1>2, RunStoreAssumption DEF Seconds
    <3>3. CASE r.set.root = root /\ r.set.playOnly = FALSE
      BY <1>3, <2>1, <3>1, <3>2, <3>3 DEF Dirs
    <3>4. CASE ~(r.set.root = root /\ r.set.playOnly = FALSE)
      BY <1>3, <2>1, <3>1, <3>4 DEF Dirs
    <3> QED BY <3>3, <3>4
  <2>3. /\ \A s \in before : s <= second /\ s \in Seconds
        /\ before = {} \/ \E s \in before : \A t \in before : s >= t
    BY <2>1 DEF RsInv, RsModels, Dirs
  <2>4. \A s \in before : s <= at
    BY <1>2, <2>1, <2>3 DEF Seconds
  <2>5. CASE Dirs(root)' = before
    BY <1>2, <2>1, <2>3, <2>4, <2>5
  <2>6. CASE Dirs(root)' = before \cup {at}
    <3>1. at \in Int /\ \A s \in before : s \in Int
      BY <1>2, <2>1, <2>3 DEF Seconds
    <3>2. at \in Dirs(root)' /\ \A t \in Dirs(root)' : at >= t /\ t <= at
      BY <2>4, <2>6, <3>1
    <3> QED BY <1>2, <2>1, <3>2
  <2> QED BY <2>2, <2>5, <2>6
<1>6. RsModels'
  BY <1>4, <1>5 DEF RsModels
<1> QED BY <1>3, <1>6 DEF NoneLater

LEMMA LaunchKnown ==
  ASSUME RsInv, NEW j \in Jobs, NEW r, NEW new, Launched(j, r, new), NEW m, m.at \in AllRuns, Known(m)
  PROVE  Known(m)' /\ (Sole(m.at, j)' => FALSE)
<1>1. /\ new[2] # 0
      /\ \A dir \in AllRuns : runs'[dir].models = runs[dir].models
  BY LaunchDisk
<1>2. ASSUME NEW k \in Jobs, Sole(m.at, k)'
      PROVE  k # j /\ Sole(m.at, k) /\ runs'[m.at] = runs[m.at] /\ job'[k] = job[k]
  <2>1. ~(m.at = new /\ runs[m.at].owners = {})
    BY <1>1 DEF Known, RsInv, RsOwners
  <2>2. PICK dir \in AllRuns : dir = m.at
    OBVIOUS
  <2>3. runs'[dir].owners = {k}
    BY <1>2, <2>2 DEF Sole
  <2>4. Sole(dir, k)'
    BY <2>3 DEF Sole
  <2>5. \/ k = j /\ dir = new /\ r.set.playOnly = FALSE /\ runs[dir].owners = {}
        \/ k # j /\ Sole(dir, k) /\ runs'[dir] = runs[dir] /\ job'[k] = job[k]
    BY <2>4, LaunchSole
  <2> QED BY <2>1, <2>2, <2>5
<1> QED BY <1>1, <1>2 DEF Known

LEMMA RsLaunch ==
  ASSUME RsInv, NEW j \in Jobs, LaunchJob(j)
  PROVE  RsInv'
<1>1. PICK r, new : Launched(j, r, new)
  BY LaunchOf
<1>2. /\ RsTypes' /\ job'[j] = r /\ Begun(j)' /\ ~Begun(j) /\ Own(j)' = new /\ new \in AllRuns /\ new[2] # 0
      /\ r.set.playOnly \in BOOLEAN
      /\ r.set.playOnly = FALSE => runs'[new].owners = runs[new].owners \cup {j}
  BY <1>1, LaunchDisk
<1>3. \A k \in Jobs \ {j} : job'[k] = job[k] /\ (Begun(k)' <=> Begun(k)) /\ (Trains(k)' <=> Trains(k)) /\ Own(k)' = Own(k)
  BY <1>1, LaunchDisk
<1>4. \A dir \in AllRuns : /\ runs'[dir].snapshot = runs[dir].snapshot /\ runs'[dir].models = runs[dir].models
                           /\ runs'[dir].status = runs[dir].status /\ runs'[dir].exported = runs[dir].exported
                           /\ runs'[dir].video = runs[dir].video
                           /\ dir # new \/ r.set.playOnly = TRUE => runs'[dir] = runs[dir]
  BY <1>1, LaunchDisk
<1>5. /\ r \in JobStates /\ r.pc = (IF r.set.playOnly THEN "resolve" ELSE "record")
      /\ r.done = 0 /\ r.resolved = NoModel /\ r.opened = NoModel
  BY <1>1 DEF Launched
<1>6. RsOwners'
  <2>1. Trains(j)' <=> r.set.playOnly = FALSE
    BY <1>2 DEF Trains
  <2>2. \A dir \in AllRuns : \A k \in runs'[dir].owners : Trains(k)' /\ Own(k)' = dir
    <3>1. SUFFICES ASSUME NEW dir \in AllRuns, NEW k \in runs'[dir].owners PROVE Trains(k)' /\ Own(k)' = dir
      OBVIOUS
    <3>2. CASE k \in runs[dir].owners
      <4>1. k \in Jobs /\ Trains(k) /\ Own(k) = dir
        BY <3>2, RunFields DEF RsInv, RsOwners
      <4>2. k # j
        BY <1>2, <4>1 DEF Trains
      <4> QED BY <1>3, <4>1, <4>2
    <3>3. CASE k \notin runs[dir].owners
      <4>1. dir = new /\ r.set.playOnly = FALSE
        BY <1>2, <1>4, <3>1, <3>3
      <4>2. k = j
        BY <1>2, <3>1, <3>3, <4>1
      <4> QED BY <1>2, <2>1, <4>1, <4>2
    <3> QED BY <3>2, <3>3
  <2>3. \A dir \in AllRuns : runs[dir].owners \subseteq runs'[dir].owners
    BY <1>2, <1>4
  <2>4. ASSUME NEW k \in Jobs, Trains(k)' PROVE k \in runs'[Own(k)'].owners
    <3>1. CASE k = j
      BY <1>2, <2>1, <2>4, <3>1
    <3>2. CASE k # j
      <4>1. Trains(k) /\ Own(k)' = Own(k) /\ Begun(k)
        BY <1>3, <2>4, <3>2 DEF Trains
      <4>2. Own(k) \in AllRuns /\ k \in runs[Own(k)].owners
        BY <4>1, OwnRun DEF RsInv, RsOwners
      <4> QED BY <2>3, <4>1, <4>2
    <3> QED BY <3>1, <3>2
  <2>5. ASSUME NEW k \in Jobs, Begun(k)', job'[k].set.playOnly PROVE job'[k].pc \in Playing
    <3>1. CASE k = j
      BY <1>2, <1>5, <2>5, <3>1 DEF Playing
    <3>2. CASE k # j
      BY <1>3, <2>5, <3>2 DEF RsInv, RsOwners
    <3> QED BY <3>1, <3>2
  <2>6. \A dir \in AllRuns : runs'[dir].owners = {} =>
          /\ runs'[dir].status = "none" /\ runs'[dir].video = {}
          /\ dir[2] # 0 => runs'[dir].models = {}
    BY <1>4, <2>3 DEF RsInv, RsOwners
  <2> QED BY <2>2, <2>4, <2>5, <2>6 DEF RsOwners
<1>7. RsModels'
  BY <1>1, LaunchRoots
<1>8. RsCounts'
  <2>1. SUFFICES ASSUME NEW k \in Jobs, Begun(k)'
                 PROVE  /\ job'[k].pc \in {"record", "build"} => job'[k].done = 0
                        /\ job'[k].pc = "save" => job'[k].done >= 1
                        /\ job'[k].pc \in {"session", "play"} => job'[k].resolved # NoModel
                        /\ job'[k].pc = "play" => /\ job'[k].opened # NoModel
                                                  /\ job'[k].set.algo = "ppo" => job'[k].opened = job'[k].resolved
    BY DEF RsCounts
  <2>2. CASE k = j
    BY <1>2, <1>5, <2>2
  <2>3. CASE k # j
    BY <1>3, <2>1, <2>3 DEF RsInv, RsCounts
  <2> QED BY <2>2, <2>3
<1>9. RsSole'
  <2>1. SUFFICES ASSUME NEW dir \in AllRuns, NEW k \in Jobs, Sole(dir, k)' PROVE FourOf(dir, k)'
    BY DEF RsSole, FourOf
  <2>2. CASE k = j /\ dir = new /\ r.set.playOnly = FALSE /\ runs[dir].owners = {}
    <3>1. runs'[dir].models = {} /\ runs'[dir].status = "none" /\ runs'[dir].video = {}
      BY <1>2, <1>4, <2>2 DEF RsInv, RsOwners
    <3>2. job'[k].pc = "record"
      BY <1>2, <1>5, <2>2
    <3>3. ContractFiled(dir, k)' /\ Numbered(dir, k)'
      BY <3>1, <3>2 DEF ContractFiled, Numbered
    <3>4. Summarised(dir, k)'
      BY <3>1, <3>2 DEF Summarised
    <3>5. Filmed(dir, k)'
      BY <3>1, <3>2 DEF Filmed
    <3> QED BY <3>3, <3>4, <3>5 DEF FourOf
  <2>3. CASE k # j /\ Sole(dir, k) /\ runs'[dir] = runs[dir] /\ job'[k] = job[k]
    <3>1. FourOf(dir, k)
      BY <2>3 DEF RsInv, RsSole, FourOf
    <3>2. NoneLater(dir)' => NoneLater(dir)
      BY <1>1, LaunchRoots
    <3>3. ContractFiled(dir, k)' /\ Numbered(dir, k)'
      BY <2>3, <3>1 DEF FourOf, ContractFiled, Numbered, Offset, Trained, Number
    <3>4. Summarised(dir, k)'
      BY <2>3, <3>1 DEF FourOf, Summarised, HasLast, Trained
    <3>5. Filmed(dir, k)'
      BY <2>3, <3>1, <3>2 DEF FourOf, Filmed
    <3> QED BY <3>3, <3>4, <3>5 DEF FourOf
  <2>4. \/ k = j /\ dir = new /\ r.set.playOnly = FALSE /\ runs[dir].owners = {}
        \/ k # j /\ Sole(dir, k) /\ runs'[dir] = runs[dir] /\ job'[k] = job[k]
    BY <1>1, <2>1, LaunchSole
  <2> QED BY <2>2, <2>3, <2>4
<1>10. \A m \in MaybeModel : m # NoModel => m.at \in AllRuns
  BY DEF MaybeModel, Models
<1>11. RsKnown'
  <2>1. SUFFICES ASSUME NEW k \in Jobs, Begun(k)'
                 PROVE  /\ job'[k].resolved # NoModel => Known(job[k].resolved)'
                        /\ job'[k].opened # NoModel => Known(job[k].opened)'
    BY DEF RsKnown
  <2>2. CASE k = j
    BY <1>2, <1>5, <2>2
  <2>3. CASE k # j
    <3>1. PICK x, y : x = job[k].resolved /\ y = job[k].opened
      OBVIOUS
    <3>2. Begun(k) /\ job[k] \in JobStates /\ job'[k] = job[k]
      BY <1>3, <2>1, <2>3, BegunJob DEF RsInv
    <3>3. x \in MaybeModel /\ y \in MaybeModel /\ (x # NoModel => Known(x)) /\ (y # NoModel => Known(y))
      BY <3>1, <3>2, JobFields DEF RsInv, RsKnown
    <3>4. (x # NoModel => Known(x)') /\ (y # NoModel => Known(y)')
      BY <1>1, <1>10, <3>3, LaunchKnown
    <3>5. job'[k].resolved = x /\ job'[k].opened = y
      BY <3>1, <3>2
    <3> QED BY <3>4, <3>5 DEF Known
  <2> QED BY <2>2, <2>3
<1>12. RsPlayed'
  <2>1. SUFFICES ASSUME NEW k \in Jobs, Begun(k)', job'[k].opened # NoModel, job'[k].set.strict = TRUE,
                        NEW i \in Jobs, Sole(job[k].opened.at, i)'
                 PROVE  SameContract(job'[k].opened.contract, job'[k].set.contract)
    BY DEF RsPlayed
  <2>2. k # j
    BY <1>2, <1>5, <2>1
  <2>3. PICK y : y = job[k].opened
    OBVIOUS
  <2>4. Begun(k) /\ job[k] \in JobStates /\ job'[k] = job[k]
    BY <1>3, <2>1, <2>2, BegunJob DEF RsInv
  <2>5. y # NoModel /\ y \in MaybeModel /\ Known(y) /\ y.at \in AllRuns
    BY <1>10, <2>1, <2>3, <2>4, JobFields DEF RsInv, RsKnown
  <2>6. runs'[y.at].owners = {i}
    BY <2>1, <2>3, <2>4 DEF Sole
  <2>7. Sole(y.at, i)'
    BY <2>6 DEF Sole
  <2>8. i # j
    BY <1>1, <2>5, <2>7, LaunchKnown
  <2>9. Sole(y.at, i)
    BY <1>1, <2>5, <2>7, <2>8, LaunchSole
  <2> QED BY <2>1, <2>3, <2>4, <2>9 DEF RsInv, RsPlayed
<1>13. RsExported'
  <2>1. SUFFICES ASSUME NEW dir \in AllRuns, NEW e \in runs[dir].exported
                 PROVE  Begun(e[1])' /\ (job'[e[1]].set.algo = "ppo" => e[2].at = dir)
    BY <1>4 DEF RsExported
  <2>2. e[1] \in Jobs
    <3>1. runs[dir].exported \subseteq Jobs \X Models
      BY RunFields DEF RsInv
    <3> QED BY <2>1, <3>1
  <2>3. Begun(e[1]) /\ (job[e[1]].set.algo = "ppo" => e[2].at = dir)
    BY <2>1 DEF RsInv, RsExported
  <2> QED BY <1>2, <1>3, <2>2, <2>3
<1> QED BY <1>2, <1>6, <1>7, <1>8, <1>9, <1>11, <1>12, <1>13 DEF RsInv

------------------------------------------------------------------------------
(* The theorem                                                                 *)

LEMMA RsStep ==
  ASSUME RsInv, RsNext
  PROVE  RsInv'
<1>1. PICK j \in Jobs :
        \/ LaunchJob(j) \/ Record(j) \/ Build(j) \/ Learn(j) \/ Save(j) \/ Raise(j) \/ Summarise(j)
        \/ ResolveToPlay(j) \/ OpenSession(j) \/ Play(j) \/ Killed(j)
  BY DEF RsNext
<1>2. CASE LaunchJob(j)
  BY <1>2, RsLaunch
<1>3. CASE Record(j)
  BY <1>3, RsRecord
<1>4. CASE Build(j)
  BY <1>4, RsBuild
<1>5. CASE Learn(j)
  BY <1>5, RsLearn
<1>6. CASE Save(j)
  BY <1>6, RsSave
<1>7. CASE Raise(j)
  BY <1>7, RsRaise
<1>8. CASE Summarise(j)
  BY <1>8, RsSummarise
<1>9. CASE ResolveToPlay(j)
  BY <1>9, RsResolve
<1>10. CASE OpenSession(j)
  BY <1>10, RsOpen
<1>11. CASE Play(j)
  BY <1>11, RsPlay
<1>12. CASE Killed(j)
  BY <1>12, RsKilled
<1> QED BY <1>1, <1>2, <1>3, <1>4, <1>5, <1>6, <1>7, <1>8, <1>9, <1>10, <1>11, <1>12

LEMMA RsStutter ==
  ASSUME RsInv, UNCHANGED rsvars
  PROVE  RsInv'
<1>1. second' = second /\ runs' = runs /\ job' = job
  BY DEF rsvars
<1>2. RsTypes' /\ RsCounts'
  <2>1. RsTypes'
    BY <1>1 DEF RsInv, RsTypes
  <2>2. RsCounts'
    BY <1>1 DEF RsInv, RsCounts, Begun
  <2> QED BY <2>1, <2>2
<1>3. RsOwners'
  BY <1>1 DEF RsInv, RsOwners, Trains, Begun, Own
<1>4. RsModels'
  BY <1>1 DEF RsInv, RsModels, HasTop, Dirs, Exists
<1>5. RsSole'
  BY <1>1 DEF RsInv, RsSole, Sole, ContractFiled, Numbered, Summarised, HasLast, Filmed, NoneLater, Exists,
              Offset, Trained, Number
<1>6. RsKnown' /\ RsPlayed' /\ RsExported'
  BY <1>1 DEF RsInv, RsKnown, Known, RsPlayed, RsExported, Begun, Sole
<1> QED BY <1>2, <1>3, <1>4, <1>5, <1>6 DEF RsInv

\* What the invariant says of a run: the properties of runs and their playback.
LEMMA RunsAreSound ==
  ASSUME RsInv
  PROVE  RunsSound
<1>1. \A dir \in Owned : /\ dir \in AllRuns /\ OwnerOf(dir) \in Jobs /\ Sole(dir, OwnerOf(dir))
                         /\ Begun(OwnerOf(dir)) /\ job[OwnerOf(dir)] \in JobStates
                         /\ FourOf(dir, OwnerOf(dir))
  <2>1. SUFFICES ASSUME NEW dir \in Owned
                 PROVE  /\ dir \in AllRuns /\ OwnerOf(dir) \in Jobs /\ Sole(dir, OwnerOf(dir))
                        /\ Begun(OwnerOf(dir)) /\ job[OwnerOf(dir)] \in JobStates /\ FourOf(dir, OwnerOf(dir))
    OBVIOUS
  <2>2. PICK j : j = OwnerOf(dir)
    OBVIOUS
  <2>3. dir \in AllRuns /\ j \in Jobs /\ Sole(dir, j)
    BY <2>2, SoleOwner DEF RsInv
  <2>4. Begun(j)
    BY <2>3 DEF RsInv, RsOwners, Sole, Trains
  <2>5. job[j] \in JobStates /\ FourOf(dir, j)
    BY <2>3, <2>4, BegunJob DEF RsInv, RsSole, FourOf
  <2> QED BY <2>2, <2>3, <2>4, <2>5
<1>2. ModelsRecorded
  <2>1. SUFFICES ASSUME NEW dir \in Owned, NEW m \in runs[dir].models PROVE runs[dir].snapshot = m.contract
    BY DEF ModelsRecorded
  <2>2. PICK j : j = OwnerOf(dir)
    OBVIOUS
  <2>3. ContractFiled(dir, j) /\ Numbered(dir, j)
    BY <1>1, <2>2 DEF FourOf
  <2> QED BY <2>1, <2>3 DEF ContractFiled, Numbered
<1>3. PlayedUnderContract
  <2>1. SUFFICES ASSUME NEW j \in Jobs, Begun(j), job[j].opened # NoModel, job[j].set.strict, job[j].opened.at \in Owned
                 PROVE  SameContract(job[j].opened.contract, job[j].set.contract)
    BY DEF PlayedUnderContract, SameContract
  <2>2. job[j].set.strict = TRUE
    <3>1. job[j].set.strict \in BOOLEAN
      BY <2>1, BegunJob, JobFields, SettingFields DEF RsInv
    <3> QED BY <2>1, <3>1
  <2> QED BY <1>1, <2>1, <2>2 DEF RsInv, RsPlayed
<1>4. NewestIsMostTrained
  <2>1. SUFFICES ASSUME NEW dir \in Owned, NEW m \in runs[dir].models
                 PROVE  m.trained <= get_latest_checkpoint(dir).trained
    BY DEF NewestIsMostTrained
  <2>2. PICK top, j : top = get_latest_checkpoint(dir) /\ j = OwnerOf(dir)
    OBVIOUS
  <2>3. dir \in AllRuns /\ job[j] \in JobStates /\ Numbered(dir, j)
    BY <1>1, <2>2 DEF FourOf
  <2>4. top \in runs[dir].models /\ m.number <= top.number
    BY <2>1, <2>2, <2>3, TopModel DEF RsInv
  <2>5. top \in Models /\ m \in Models
    BY <2>1, <2>3, <2>4, RunFields DEF RsInv
  <2>6. PICK off : off = Offset(job[j])
    OBVIOUS
  <2>7. m.trained - m.number = off /\ top.trained - top.number = off
    BY <2>1, <2>3, <2>4, <2>6 DEF Numbered
  <2>8. m.trained \in Nat /\ m.number \in Nat /\ top.trained \in Nat /\ top.number \in Nat
    BY <2>5 DEF Models
  <2> QED BY <2>2, <2>4, <2>7, <2>8
<1>5. SummaryTells
  <2>1. SUFFICES ASSUME NEW dir \in Owned, NEW j, j = OwnerOf(dir)
                 PROVE  /\ runs[dir].status = "completed" =>
                             \E m \in runs[dir].models : m.whole /\ m.trained = Trained(job[j]) /\ job[j].done = JobIterations
                        /\ runs[dir].status = "failed" => job[j].set.algo = "sac" /\ job[j].raised
    BY DEF SummaryTells
  <2>2. Summarised(dir, j)
    BY <1>1, <2>1 DEF FourOf
  <2> QED BY <2>2 DEF Summarised, HasLast
<1>6. ExportedBesideItsModel
  BY DEF RsInv, RsExported, ExportedBesideItsModel
<1>7. FilmsItsOwnRun
  <2>1. SUFFICES ASSUME NEW dir \in Owned, NEW j, j = OwnerOf(dir), job[j].load \in {Unset, Latest},
                        job[j].set.algo = "sac" => dir[1] = DefaultRoot,
                        \A other \in AllRuns : other[2] > dir[2] => ~Exists(other)
                 PROVE  runs[dir].video \subseteq {dir}
    BY DEF FilmsItsOwnRun
  <2>2. Filmed(dir, j)
    BY <1>1, <2>1 DEF FourOf
  <2> QED BY <2>1, <2>2 DEF Filmed, NoneLater
<1> QED BY <1>2, <1>3, <1>4, <1>5, <1>6, <1>7 DEF RunsSound

(* However many jobs run side by side, raise or are killed: a model lies beside *)
(* its contract, a strict playback never crosses contracts, the greatest number *)
(* is the most trained, a completed run has its last model, PPO exports beside  *)
(* the model it loaded, and a training job films its own run (the scripts under *)
(* src/scripts, experiment tracking and checkpoint resolution).                 *)
THEOREM RunsStaySound == RsSpec => []RunsSound
<1>1. RsInit => RsInv
  BY RsStart
<1>2. RsInv /\ [RsNext]_rsvars => RsInv'
  BY RsStep, RsStutter
<1>3. RsInv => RunsSound
  BY RunsAreSound
<1> QED BY <1>1, <1>2, <1>3, PTL DEF RsSpec

------------------------------------------------------------------------------
(* Synchronous training: the episodes of a learner, over its processes         *)

Labels == Sources \X (Nat \X Nat) \X (Nat \X Nat)
Distinct(L) == \A a, b \in L : a[1] = b[1] => (a[2] = b[2] <=> a[3] = b[3])

IsRun(r) ==
    /\ r = [next |-> r.next, policy |-> r.policy, norm |-> r.norm, steps |-> r.steps, total |-> r.total,
            generation |-> r.generation, history |-> r.history, perSource |-> r.perSource]
    /\ r.generation \in Nat
IsCollector(c) ==
    /\ c = [quotas |-> c.quotas, stamp |-> c.stamp, generation |-> c.generation, episode |-> c.episode]
    /\ c.generation \in Nat /\ c.episode \in [Sources -> Nat]

\* A file knows its generation, and no sample of a later process.
IsFile(file) ==
    /\ IsRun(file.run) /\ file.labels \subseteq Labels /\ Distinct(file.labels)
    /\ \A a \in file.labels : a[2][1] <= file.run.generation /\ a[3][1] <= launches

EpTypes ==
    /\ launches \in Nat /\ physical \in [Sources -> Nat]
    /\ IsRun(run) /\ IsCollector(collector) /\ collector.generation = run.generation
    /\ labels \subseteq Labels
EpFiles ==
    /\ \A file \in disk : IsFile(file) /\ (phase = "fresh" => \A a \in file.labels : a[3][1] < launches)
    /\ phase = "replace" => IsFile(temporary)

\* A sample is from before this generation and this process, or of both of them; then
\* its source has begun as many physical episodes since as ids.
Past(a) == a[2][1] < collector.generation /\ a[3][1] < launches
Present(a) ==
    /\ a[2][1] = collector.generation /\ a[3][1] = launches
    /\ a[3][2] - a[2][2] = physical[a[1]] - collector.episode[a[1]]
EpLabels ==
    /\ Distinct(labels) /\ (\A a \in labels : Past(a) \/ Present(a))
    /\ phase \in {"fresh", "absent"} => labels = {}

EpInv == EpTypes /\ EpFiles /\ EpLabels

LEMMA EpStart ==
  ASSUME Init
  PROVE  EpInv
<1>1. IsRun(NewRun) /\ NewRun.generation = 0
  BY DEF NewRun, IsRun
<1>2. IsCollector(NewCollector(Even, 0)) /\ NewCollector(Even, 0).generation = 0
  BY DEF NewCollector, IsCollector
<1>3. EpTypes
  BY <1>1, <1>2 DEF Init, EpTypes
<1>4. EpFiles /\ EpLabels
  BY DEF Init, EpFiles, EpLabels, Distinct
<1> QED BY <1>3, <1>4 DEF EpInv

\* A step that leaves samples, counters of episodes and files alone.
LEMMA EpSame ==
  ASSUME EpInv, launches' = launches, physical' = physical, labels' = labels, disk' = disk,
         run'.generation = run.generation, IsRun(run'), IsCollector(collector'),
         collector'.generation = collector.generation, collector'.episode = collector.episode,
         phase' # "fresh" \/ phase = "fresh", phase' # "absent" \/ phase = "absent",
         phase' = "replace" => IsFile(temporary)'
  PROVE  EpInv'
<1>1. EpTypes'
  BY DEF EpInv, EpTypes
<1>2. EpFiles'
  BY DEF EpInv, EpFiles, IsFile
<1>3. EpLabels'
  BY DEF EpInv, EpLabels, Past, Present
<1> QED BY <1>1, <1>2, <1>3 DEF EpInv

\* The process ends.
LEMMA EpEnds ==
  ASSUME EpInv, EndProcess, launches' = launches, disk' = disk
  PROVE  EpInv'
<1>1. IsRun(NewRun) /\ NewRun.generation = 0
  BY DEF NewRun, IsRun
<1>2. IsCollector(NewCollector(Even, 0)) /\ NewCollector(Even, 0).generation = 0
  BY DEF NewCollector, IsCollector
<1>3. EpTypes'
  BY <1>1, <1>2 DEF EndProcess, EpInv, EpTypes
<1>4. EpFiles'
  BY DEF EndProcess, EpInv, EpFiles, IsFile
<1>5. EpLabels'
  BY DEF EndProcess, EpLabels, Distinct
<1> QED BY <1>3, <1>4, <1>5 DEF EpInv

LEMMA EpLaunch ==
  ASSUME EpInv, Launch
  PROVE  EpInv'
<1>1. /\ phase = "absent" /\ launches' = launches + 1 /\ phase' = "fresh" /\ labels = {} /\ labels' = {}
      /\ run' = run /\ collector' = collector /\ disk' = disk /\ physical' = NewEpisode
  BY DEF Launch, recordVars, EpInv, EpLabels
<1>2. launches \in Nat /\ NewEpisode \in [Sources -> Nat]
  BY DEF EpInv, EpTypes, NewEpisode
<1>3. EpTypes'
  BY <1>1, <1>2 DEF EpInv, EpTypes
<1>4. EpFiles'
  <2>1. SUFFICES ASSUME NEW file \in disk
                 PROVE  IsFile(file)' /\ \A a \in file.labels : a[3][1] < launches + 1
    BY <1>1 DEF EpFiles
  <2>2. IsFile(file)
    BY <2>1 DEF EpInv, EpFiles
  <2>3. \A a \in file.labels : a[3][1] \in Nat /\ a[3][1] <= launches
    BY <2>2 DEF IsFile, Labels
  <2>4. \A a \in file.labels : a[3][1] <= launches + 1 /\ a[3][1] < launches + 1
    BY <1>2, <2>3
  <2> QED BY <1>1, <2>2, <2>4 DEF IsFile
<1>5. EpLabels'
  BY <1>1 DEF EpLabels, Distinct
<1> QED BY <1>3, <1>4, <1>5 DEF EpInv

\* A new generation: what the file holds is from before it.
LEMMA EpLoad ==
  ASSUME EpInv, NEW file \in disk, Load(file)
  PROVE  EpInv'
<1>1. phase = "fresh" /\ launches' = launches /\ disk' = disk /\ launches \in Nat
  BY DEF Load, EpInv, EpTypes
<1>2. CASE ~Accepts(file)
  <2>1. phase' = "refused" /\ run' = run /\ collector' = collector /\ labels' = labels /\ physical' = physical
    BY <1>2 DEF Load, recordVars
  <2> QED BY <1>1, <2>1, EpSame DEF EpInv, EpTypes
<1>3. CASE Accepts(file)
  <2>1. IsFile(file) /\ \A a \in file.labels : a[3][1] < launches
    BY <1>1 DEF EpInv, EpFiles
  <2>2. PICK r, g : r = file.run /\ g = r.generation
    OBVIOUS
  <2>3. IsRun(r) /\ g \in Nat
    BY <2>1, <2>2 DEF IsFile, IsRun
  <2>4. /\ phase' = "head" /\ run' = Restored(file) /\ labels' = file.labels /\ physical' = NewEpisode
        /\ collector' = NewCollector(file.schedule.quotas, g + 1)
    BY <1>3, <2>2 DEF Load
  <2>5. IsRun(run') /\ run'.generation = g + 1
    <3>1. PICK p : p = IF mode = "central" THEN [s \in Sources |-> file.run.next * Uniform] ELSE r.perSource
      OBVIOUS
    <3>2. run' = [r EXCEPT !.generation = g + 1, !.perSource = p]
      BY <2>2, <2>4, <3>1 DEF Restored
    <3>3. run' = [next |-> r.next, policy |-> r.policy, norm |-> r.norm, steps |-> r.steps, total |-> r.total,
                  generation |-> g + 1, history |-> r.history, perSource |-> p]
      BY <2>3, <3>2 DEF IsRun
    <3> QED BY <2>3, <3>3 DEF IsRun
  <2>6. /\ IsCollector(collector') /\ collector'.generation = g + 1
        /\ collector'.episode = [s \in Sources |-> 0]
    BY <2>3, <2>4 DEF NewCollector, IsCollector
  <2>7. physical' \in [Sources -> Nat]
    BY <2>4 DEF NewEpisode, EpInv, EpTypes
  <2>8. EpTypes'
    BY <1>1, <2>1, <2>4, <2>5, <2>6, <2>7 DEF EpTypes, IsFile
  <2>9. EpFiles'
    BY <1>1, <2>4 DEF EpInv, EpFiles, IsFile
  <2>10. EpLabels'
    <3>1. \A a \in file.labels : a[2][1] \in Nat /\ a[2][1] <= g /\ a[3][1] < launches
      BY <2>1, <2>2 DEF IsFile, Labels
    <3>2. \A a \in labels' : Past(a)'
      BY <1>1, <2>3, <2>4, <2>6, <3>1 DEF Past
    <3> QED BY <2>1, <2>4, <3>2 DEF EpLabels, IsFile
  <2> QED BY <2>8, <2>9, <2>10 DEF EpInv
<1> QED BY <1>2, <1>3

LEMMA EpLoopHead ==
  ASSUME EpInv, LoopHead
  PROVE  EpInv'
<1>1. phase \in {"fresh", "head"} /\ launches' = launches /\ disk' = disk
  BY DEF LoopHead
<1>2. CASE run.next < MaxIterations
  <2>1. /\ phase' = "collect" /\ collector' = [collector EXCEPT !.quotas = schedule.quotas]
        /\ run' = run /\ labels' = labels /\ physical' = physical
    BY <1>2 DEF LoopHead
  <2>2. /\ IsCollector(collector') /\ collector'.generation = collector.generation
        /\ collector'.episode = collector.episode
    <3>1. IsCollector(collector)
      BY DEF EpInv, EpTypes
    <3> QED BY <2>1, <3>1 DEF IsCollector
  <2> QED BY <1>1, <2>1, <2>2, EpSame DEF EpInv, EpTypes
<1>3. CASE ~(run.next < MaxIterations)
  <2>1. EndProcess
    BY <1>3 DEF LoopHead
  <2> QED BY <1>1, <2>1, EpEnds
<1> QED BY <1>2, <1>3

\* A window: whoever ends an episode begins the next one, by id and in fact.
LEMMA EpCollect ==
  ASSUME EpInv, NEW dones \in SUBSET Sources, Collect(dones)
  PROVE  EpInv'
<1>1. phase = "collect" /\ launches' = launches /\ disk' = disk /\ run' = run /\ launches \in Nat
  BY DEF Collect, EpInv, EpTypes
<1>2. CASE ~(collector.stamp \in {<< >>, Stamp})
  <2>1. phase' = "refused" /\ collector' = collector /\ labels' = labels /\ physical' = physical
    BY <1>2 DEF Collect
  <2> QED BY <1>1, <2>1, EpSame DEF EpInv, EpTypes
<1>3. CASE collector.stamp \in {<< >>, Stamp}
  <2>1. PICK g, ep : g = collector.generation /\ ep = collector.episode
    OBVIOUS
  <2>2. PICK stamp : stamp = <<run.next + 1, run.policy + 1, run.norm + Waves(collector.quotas)>>
    OBVIOUS
  <2>3. collector' = [collector EXCEPT !.episode = After(ep, dones), !.stamp = stamp]
    BY <1>3, <2>1, <2>2 DEF Collect
  <2>4. phase' = "update" /\ labels' = labels \cup WindowLabels(dones) /\ physical' = After(physical, dones)
    BY <1>3 DEF Collect
  <2>5. IsCollector(collector) /\ g \in Nat /\ ep \in [Sources -> Nat] /\ physical \in [Sources -> Nat]
    BY <2>1 DEF EpInv, EpTypes, IsCollector
  <2>6. /\ After(ep, dones) \in [Sources -> Nat] /\ After(physical, dones) \in [Sources -> Nat]
        /\ \A s \in Sources : After(physical, dones)[s] - After(ep, dones)[s] = physical[s] - ep[s]
    <3>1. /\ After(ep, dones) = [s \in Sources |-> IF s \in dones THEN ep[s] + 1 ELSE ep[s]]
          /\ After(physical, dones) = [s \in Sources |-> IF s \in dones THEN physical[s] + 1 ELSE physical[s]]
      BY DEF After
    <3> QED BY <2>5, <3>1
  <2>7. IsCollector(collector') /\ collector'.generation = g /\ collector'.episode = After(ep, dones)
    <3>1. collector' = [quotas |-> collector.quotas, stamp |-> stamp, generation |-> g, episode |-> After(ep, dones)]
      BY <2>1, <2>3, <2>5 DEF IsCollector
    <3> QED BY <2>5, <2>6, <3>1 DEF IsCollector
  <2>8. ASSUME NEW a \in WindowLabels(dones)
        PROVE  /\ a \in Labels /\ a[2][1] = g /\ a[3][1] = launches
               /\ a[3][2] - a[2][2] = physical[a[1]] - ep[a[1]]
    <3>1. PICK s \in Sources, k \in {0, 1} : a = <<s, <<g, ep[s] + k>>, <<launches, physical[s] + k>>>>
      BY <2>1, <2>8 DEF WindowLabels
    <3>2. PICK x \in Nat, y \in Nat : x = ep[s] /\ y = physical[s]
      BY <2>5
    <3>3. a = <<s, <<g, x + k>>, <<launches, y + k>>>> /\ x + k \in Nat /\ y + k \in Nat
      BY <3>1, <3>2
    <3>4. a \in Labels /\ a[1] = s /\ a[2][1] = g /\ a[3][1] = launches /\ a[3][2] = y + k /\ a[2][2] = x + k
      BY <1>1, <2>5, <3>3 DEF Labels
    <3> QED BY <3>2, <3>4
  <2>9. EpTypes'
    BY <1>1, <2>1, <2>4, <2>6, <2>7, <2>8 DEF EpInv, EpTypes
  <2>10. EpFiles'
    BY <1>1, <2>4 DEF EpInv, EpFiles, IsFile
  <2>11. \A a \in labels' : Past(a)' \/ Present(a)'
    <3>1. SUFFICES ASSUME NEW a \in labels' PROVE Past(a)' \/ Present(a)'
      OBVIOUS
    <3>2. a[1] \in Sources
      BY <2>9 DEF EpTypes, Labels
    <3>3. \/ a[2][1] < g /\ a[3][1] < launches
          \/ a[2][1] = g /\ a[3][1] = launches /\ a[3][2] - a[2][2] = physical[a[1]] - ep[a[1]]
      BY <2>1, <2>4, <2>8 DEF EpInv, EpLabels, Past, Present
    <3> QED BY <1>1, <2>4, <2>6, <2>7, <3>2, <3>3 DEF Past, Present
  <2>12. Distinct(labels')
    <3>1. SUFFICES ASSUME NEW a \in labels', NEW b \in labels', a[1] = b[1]
                   PROVE  a[2] = b[2] <=> a[3] = b[3]
      BY DEF Distinct
    <3>2. CASE a \in labels /\ b \in labels
      BY <3>1, <3>2 DEF EpInv, EpLabels, Distinct
    <3>3. PICK ag \in Nat, ai \in Nat, al \in Nat, ap \in Nat, bg \in Nat, bi \in Nat, bl \in Nat, bp \in Nat :
             a[2] = <<ag, ai>> /\ a[3] = <<al, ap>> /\ b[2] = <<bg, bi>> /\ b[3] = <<bl, bp>>
      BY <2>9 DEF EpTypes, Labels
    <3>4. PICK off \in Int : off = physical[a[1]] - ep[a[1]]
      <4>1. a[1] \in Sources
        BY <2>9 DEF EpTypes, Labels
      <4>2. physical[a[1]] \in Nat /\ ep[a[1]] \in Nat
        BY <2>5, <4>1
      <4> QED BY <4>2
    <3>5. /\ (ag < g /\ al < launches) \/ (ag = g /\ al = launches /\ ap - ai = off)
          /\ (bg < g /\ bl < launches) \/ (bg = g /\ bl = launches /\ bp - bi = off)
      BY <2>1, <2>4, <2>8, <3>1, <3>3, <3>4 DEF EpInv, EpLabels, Past, Present
    <3>6. CASE a \notin labels \/ b \notin labels
      <4>1. (ag = g /\ al = launches) \/ (bg = g /\ bl = launches)
        BY <2>4, <2>8, <3>1, <3>3, <3>6
      <4>2. (ag = bg /\ ai = bi) <=> (al = bl /\ ap = bp)
        BY <1>1, <2>5, <3>5, <4>1
      <4> QED BY <3>3, <4>2
    <3> QED BY <3>2, <3>6
  <2>13. EpLabels'
    BY <2>4, <2>11, <2>12 DEF EpLabels
  <2> QED BY <2>9, <2>10, <2>13 DEF EpInv
<1> QED BY <1>2, <1>3

LEMMA EpUpdate ==
  ASSUME EpInv, Update
  PROVE  EpInv'
<1>1. /\ launches' = launches /\ disk' = disk /\ labels' = labels /\ physical' = physical /\ collector' = collector
      /\ phase' \in {"refused", "probe", "log"}
  BY DEF Update
<1>2. PICK n, no, t, st, ps, hi :
        /\ n = run.next + 1 /\ no = run.norm + Waves(collector.quotas)
        /\ t = (run.next + 1) * Budget /\ st = (run.next + 1) * Updates
        /\ ps = [s \in Sources |-> run.perSource[s] + collector.quotas[s]]
        /\ hi = IF mode = "central" THEN run.history ELSE Recorded(run.history, collector.quotas)
  OBVIOUS
<1>3. run' = [run EXCEPT !.next = n, !.policy = n, !.norm = no, !.total = t, !.steps = st, !.perSource = ps, !.history = hi]
  BY <1>2 DEF Update
<1>4. IsRun(run)
  BY DEF EpInv, EpTypes
<1>5. run' = [next |-> n, policy |-> n, norm |-> no, steps |-> st, total |-> t, generation |-> run.generation,
              history |-> hi, perSource |-> ps]
  BY <1>3, <1>4 DEF IsRun
<1>6. IsRun(run') /\ run'.generation = run.generation
  BY <1>4, <1>5 DEF IsRun
<1> QED BY <1>1, <1>6, EpSame DEF EpInv, EpTypes

\* A probe ends every episode, in fact and by id.
LEMMA EpProbe ==
  ASSUME EpInv, Probe
  PROVE  EpInv'
<1>1. /\ phase' = "log" /\ launches' = launches /\ disk' = disk /\ labels' = labels /\ run' = run
      /\ physical' = NewEpisode /\ collector' = [collector EXCEPT !.episode = NextIds]
  BY DEF Probe
<1>2. IsCollector(collector) /\ collector.episode \in [Sources -> Nat] /\ physical \in [Sources -> Nat]
  BY DEF EpInv, EpTypes, IsCollector
<1>3. /\ NextIds \in [Sources -> Nat] /\ NewEpisode \in [Sources -> Nat]
      /\ \A s \in Sources : NewEpisode[s] - NextIds[s] = physical[s] - collector.episode[s]
  BY <1>2 DEF NextIds, NewEpisode
<1>4. IsCollector(collector') /\ collector'.generation = collector.generation /\ collector'.episode = NextIds
  <2>1. collector' = [quotas |-> collector.quotas, stamp |-> collector.stamp, generation |-> collector.generation,
                      episode |-> NextIds]
    BY <1>1, <1>2 DEF IsCollector
  <2> QED BY <1>2, <1>3, <2>1 DEF IsCollector
<1>5. EpTypes'
  BY <1>1, <1>3, <1>4 DEF EpInv, EpTypes
<1>6. EpFiles'
  BY <1>1 DEF EpInv, EpFiles, IsFile
<1>7. EpLabels'
  <2>1. \A a \in labels : a[1] \in Sources /\ (Past(a) \/ Present(a))
    BY DEF EpInv, EpTypes, EpLabels, Labels
  <2>2. \A a \in labels : Past(a)' \/ Present(a)'
    BY <1>1, <1>3, <1>4, <2>1 DEF Past, Present
  <2> QED BY <1>1, <2>2 DEF EpInv, EpLabels
<1> QED BY <1>5, <1>6, <1>7 DEF EpInv

\* What a process writes down is its own past.
LEMMA EpWrite ==
  ASSUME EpInv, WriteTemporary
  PROVE  EpInv'
<1>1. /\ phase' = "replace" /\ launches' = launches /\ disk' = disk /\ labels' = labels /\ physical' = physical
      /\ run' = run /\ collector' = collector /\ temporary' = Snapshot
  BY DEF WriteTemporary, recordVars
<1>2. Snapshot.run = run /\ Snapshot.labels = labels
  BY DEF Snapshot
<1>3. \A a \in labels : a[2][1] <= run.generation /\ a[3][1] <= launches
  <2>1. \A a \in labels : a[2][1] \in Nat /\ a[3][1] \in Nat
    BY DEF EpInv, EpTypes, Labels
  <2>2. collector.generation \in Nat /\ collector.generation = run.generation /\ launches \in Nat
    BY DEF EpInv, EpTypes, IsCollector
  <2> QED BY <2>1, <2>2 DEF EpInv, EpLabels, Past, Present
<1>4. IsFile(Snapshot)
  BY <1>2, <1>3 DEF EpInv, EpTypes, EpLabels, IsFile
<1>5. IsFile(temporary)'
  BY <1>1, <1>4 DEF IsFile
<1> QED BY <1>1, <1>5, EpSame DEF EpInv, EpTypes

LEMMA EpReplace ==
  ASSUME EpInv, Replace
  PROVE  EpInv'
<1>1. /\ phase = "replace" /\ phase' = "head" /\ launches' = launches /\ disk' = disk \cup {temporary}
      /\ labels' = labels /\ physical' = physical /\ run' = run /\ collector' = collector
  BY DEF Replace, recordVars
<1>2. IsFile(temporary)
  BY <1>1 DEF EpInv, EpFiles
<1>3. EpTypes'
  BY <1>1 DEF EpInv, EpTypes
<1>4. EpFiles'
  BY <1>1, <1>2 DEF EpInv, EpFiles, IsFile
<1>5. EpLabels'
  BY <1>1 DEF EpInv, EpLabels, Past, Present
<1> QED BY <1>3, <1>4, <1>5 DEF EpInv

LEMMA EpStep ==
  ASSUME EpInv, [Next]_vars
  PROVE  EpInv'
<1>1. CASE Launch
  BY <1>1, EpLaunch
<1>2. CASE LoadAny
  BY <1>2, EpLoad DEF LoadAny
<1>3. CASE LoopHead
  BY <1>3, EpLoopHead
<1>4. CASE CollectWindow
  BY <1>4, EpCollect DEF CollectWindow
<1>5. CASE Update
  BY <1>5, EpUpdate
<1>6. CASE Probe
  BY <1>6, EpProbe
<1>7. CASE Log
  <2>1. /\ phase' \in {"save", "head"} /\ launches' = launches /\ disk' = disk /\ labels' = labels
        /\ physical' = physical /\ run' = run /\ collector' = collector
    BY <1>7 DEF Log, recordVars
  <2> QED BY <2>1, EpSame DEF EpInv, EpTypes
<1>8. CASE WriteTemporary
  BY <1>8, EpWrite
<1>9. CASE Replace
  BY <1>9, EpReplace
<1>10. CASE Stop
  BY <1>10, EpEnds DEF Stop
<1>11. CASE UNCHANGED vars
  <2>1. /\ phase' = phase /\ launches' = launches /\ disk' = disk /\ labels' = labels /\ physical' = physical
        /\ run' = run /\ collector' = collector /\ temporary' = temporary
    BY <1>11 DEF vars, recordVars
  <2>2. phase' = "replace" => IsFile(temporary)'
    BY <2>1 DEF EpInv, EpFiles, IsFile
  <2> QED BY <2>1, <2>2, EpSame DEF EpInv, EpTypes
<1> QED BY <1>1, <1>2, <1>3, <1>4, <1>5, <1>6, <1>7, <1>8, <1>9, <1>10, <1>11 DEF Next

(* However often training is stopped and resumed, from whichever file: among the *)
(* samples one learner saw, the generation and the id of a source name one       *)
(* physical episode (SynchronousPPORunner.load, the collector's episode ids, and *)
(* the resets around a probe).  EpisodesDistinct is the second part of ResumeSound. *)
THEOREM EpisodesStayDistinct == Spec => []EpisodesDistinct
<1>1. Init => EpInv
  BY EpStart
<1>2. EpInv /\ [Next]_vars => EpInv'
  BY EpStep
<1>3. EpInv => EpisodesDistinct
  BY DEF EpInv, EpLabels, Distinct, EpisodesDistinct
<1> QED BY <1>1, <1>2, <1>3, PTL DEF Spec

------------------------------------------------------------------------------
(* Sums: FoldFunction over a finite set of terms, in whatever order                *)

\* Every subset of a finite set has what one has as soon as it is left by taking any
\* element away.
LEMMA EverySubset ==
  ASSUME NEW D, IsFiniteSet(D), NEW P, {} \in P,
         \A s \in SUBSET D : s # {} /\ (\A x \in s : s \ {x} \in P) => s \in P
  PROVE  \A s \in SUBSET D : s \in P
<1>1. SUFFICES ASSUME NEW odd \in SUBSET D, odd \notin P PROVE FALSE
  OBVIOUS
<1> DEFINE Odd == {s \in SUBSET D : s \notin P}
           R == StrictSubsetOrdering(D)
<1>2. IsWellFoundedOn(R, FiniteSubsetsOf(D))
  BY FS_StrictSubsetOrderingWellFounded
<1>3. Odd \subseteq FiniteSubsetsOf(D) /\ Odd # {}
  BY <1>1, FS_Subset DEF FiniteSubsetsOf
<1>4. \E u \in Odd : \A w \in Odd : ~ (<<w, u>> \in R)
  <2> HIDE DEF Odd, R
  <2> QED BY <1>2, <1>3, WFMin
<1>5. PICK u \in SUBSET D : u \notin P /\ \A w \in SUBSET D : w \notin P => ~ (<<w, u>> \in R)
  BY <1>4
<1>6. ASSUME NEW x \in u PROVE u \ {x} \in P
  <2>1. <<u \ {x}, u>> \in R
    BY <1>6 DEF StrictSubsetOrdering
  <2> QED BY <1>5, <2>1
<1> QED BY <1>5, <1>6

\* g holds the sum of f over every part of D: whichever element is taken first, the
\* others add up to what is left.
Peels(g, f, D) ==
    /\ g \in [SUBSET D -> Int] /\ g[{}] = 0
    /\ \A s \in SUBSET D : \A x \in s : g[s] = f[x] + g[s \ {x}]

LEMMA SumsExist ==
  ASSUME NEW D, IsFiniteSet(D), NEW f \in [D -> Int]
  PROVE  \E g : Peels(g, f, D)
<1> DEFINE P == {s \in SUBSET D : \E g : Peels(g, f, s)}
<1>1. {} \in P
  <2> DEFINE g == [s \in SUBSET {} |-> 0]
  <2>1. Peels(g, f, {})
    BY DEF Peels
  <2> QED BY <2>1
<1>2. ASSUME NEW s \in SUBSET D, s # {}, \A x \in s : s \ {x} \in P PROVE s \in P
  <2>1. PICK x \in s : TRUE
    BY <1>2
  <2>2. PICK g : Peels(g, f, s \ {x})
    BY <1>2
  <2> DEFINE h == [t \in SUBSET s |-> IF x \in t THEN f[x] + g[t \ {x}] ELSE g[t]]
  <2>3. f[x] \in Int /\ \A t \in SUBSET s : x \notin t => t \in SUBSET (s \ {x})
    OBVIOUS
  <2>4. \A t \in SUBSET s : t \ {x} \in SUBSET (s \ {x})
    OBVIOUS
  <2>5. \A t \in SUBSET (s \ {x}) : g[t] \in Int
    BY <2>2 DEF Peels
  <2>6. h \in [SUBSET s -> Int] /\ h[{}] = 0
    BY <2>2, <2>3, <2>4, <2>5 DEF Peels
  <2>7. ASSUME NEW t \in SUBSET s, NEW y \in t PROVE h[t] = f[y] + h[t \ {y}]
    <3>1. CASE x \notin t
      <4>1. h[t] = g[t] /\ h[t \ {y}] = g[t \ {y}] /\ t \in SUBSET (s \ {x})
        BY <3>1
      <4> QED BY <2>2, <4>1 DEF Peels
    <3>2. CASE x = y
      BY <3>2
    <3>3. CASE x \in t /\ x # y
      <4>1. PICK r : r = t \ {x}
        OBVIOUS
      <4>2. r \in SUBSET (s \ {x}) /\ y \in r /\ (t \ {y}) \ {x} = r \ {y}
        BY <3>3, <4>1
      <4>3. h[t] = f[x] + g[r] /\ h[t \ {y}] = f[x] + g[r \ {y}]
        BY <3>3, <4>1, <4>2
      <4>4. g[r] = f[y] + g[r \ {y}]
        BY <2>2, <4>2 DEF Peels
      <4>5. g[r] \in Int /\ g[r \ {y}] \in Int /\ f[y] \in Int /\ f[x] \in Int
        BY <2>5, <4>2
      <4> QED BY <4>3, <4>4, <4>5
    <3> QED BY <3>1, <3>2, <3>3
  <2>8. Peels(h, f, s)
    <3> HIDE DEF h
    <3> QED BY <2>6, <2>7 DEF Peels
  <2> QED BY <2>8
<1>3. D \in P
  <2> HIDE DEF P
  <2> QED BY <1>1, <1>2, EverySubset
<1> QED BY <1>3

\* The fold takes the elements in one order; the sum is the same in every other.
LEMMA TallyPeels ==
  ASSUME NEW D, IsFiniteSet(D), NEW f \in [D -> Int]
  PROVE  \E g : Peels(g, f, D) /\ Tally(f) = g[D]
<1> DEFINE First(s) == CHOOSE x \in s : TRUE
           iter[s \in SUBSET D] == IF s = {} THEN 0 ELSE LET x == First(s) IN f[x] + iter[s \ {x}]
<1>1. PICK g : Peels(g, f, D)
  BY SumsExist
<1>2. Tally(f) = iter[D]
  <2>1. DOMAIN f = D
    OBVIOUS
  <2> QED BY <2>1 DEF Tally, FoldFunction, FoldFunctionOnSet, MapThenFoldSet
<1>3. iter = [s \in SUBSET D |-> IF s = {} THEN 0 ELSE f[First(s)] + iter[s \ {First(s)}]]
  <2>1. g = [s \in SUBSET D |-> IF s = {} THEN 0 ELSE f[First(s)] + g[s \ {First(s)}]]
    <3>1. ASSUME NEW s \in SUBSET D PROVE g[s] = IF s = {} THEN 0 ELSE f[First(s)] + g[s \ {First(s)}]
      BY <1>1 DEF Peels
    <3>2. g = [s \in SUBSET D |-> g[s]]
      BY <1>1 DEF Peels
    <3> HIDE DEF First
    <3> QED BY <3>1, <3>2
  <2>2. \E h : h = [s \in SUBSET D |-> IF s = {} THEN 0 ELSE f[First(s)] + h[s \ {First(s)}]]
    <3> HIDE DEF First
    <3> QED BY <2>1
  <2> HIDE DEF First
  <2> QED BY <2>2 DEF iter
<1>4. iter = g
  <2> DEFINE P == {s \in SUBSET D : iter[s] = g[s]}
  <2> HIDE DEF iter
  <2>1. {} \in P
    BY <1>1, <1>3 DEF Peels
  <2>2. ASSUME NEW s \in SUBSET D, s # {}, \A x \in s : s \ {x} \in P PROVE s \in P
    <3>1. PICK x \in s : x = First(s)
      BY <2>2
    <3>2. iter[s] = f[x] + iter[s \ {x}]
      <4> HIDE DEF First
      <4> QED BY <1>3, <2>2, <3>1
    <3>3. iter[s \ {x}] = g[s \ {x}] /\ g[s] = f[x] + g[s \ {x}]
      BY <1>1, <2>2 DEF Peels
    <3> QED BY <3>2, <3>3
  <2>3. \A s \in SUBSET D : s \in P
    <3> HIDE DEF P
    <3> QED BY <2>1, <2>2, EverySubset
  <2>4. iter = [s \in SUBSET D |-> iter[s]] /\ g = [s \in SUBSET D |-> g[s]]
    <3>1. g = [s \in SUBSET D |-> g[s]]
      BY <1>1 DEF Peels
    <3>2. iter = [s \in SUBSET D |-> iter[s]]
      <4> HIDE DEF First
      <4> QED BY <1>3
    <3> QED BY <3>1, <3>2
  <2> QED BY <2>3, <2>4
<1> QED BY <1>1, <1>2, <1>4

\* Equal terms have equal sums.
LEMMA SumsAgree ==
  ASSUME NEW D, NEW E, NEW f, NEW e, NEW g, NEW h, Peels(g, f, D), Peels(h, e, E),
         NEW S, IsFiniteSet(S), S \subseteq D, S \subseteq E, \A x \in S : f[x] = e[x]
  PROVE  g[S] = h[S]
<1> DEFINE P == {s \in SUBSET S : g[s] = h[s]}
<1>1. {} \in P
  BY DEF Peels
<1>2. ASSUME NEW s \in SUBSET S, s # {}, \A x \in s : s \ {x} \in P PROVE s \in P
  <2>1. PICK x \in s : TRUE
    BY <1>2
  <2>2. g[s \ {x}] = h[s \ {x}] /\ f[x] = e[x] /\ s \in SUBSET D /\ s \in SUBSET E
    BY <1>2
  <2> QED BY <2>2 DEF Peels
<1>3. \A s \in SUBSET S : s \in P
  <2>1. IsFiniteSet(S)
    OBVIOUS
  <2> HIDE DEF P
  <2> QED BY ONLY <1>1, <1>2, <2>1, EverySubset
<1> QED BY <1>3

LEMMA TallyIsInt ==
  ASSUME NEW D, IsFiniteSet(D), NEW f \in [D -> Int]
  PROVE  Tally(f) \in Int
<1>1. PICK g : Peels(g, f, D) /\ Tally(f) = g[D]
  BY TallyPeels
<1> QED BY <1>1 DEF Peels

LEMMA TallyPlus ==
  ASSUME NEW D, IsFiniteSet(D), NEW f \in [D -> Int], NEW e \in [D -> Int], NEW b \in [D -> Int],
         \A x \in D : b[x] = f[x] + e[x]
  PROVE  Tally(b) = Tally(f) + Tally(e)
<1>1. PICK g : Peels(g, f, D) /\ Tally(f) = g[D]
  BY TallyPeels
<1>2. PICK h : Peels(h, e, D) /\ Tally(e) = h[D]
  BY TallyPeels
<1>3. PICK k : Peels(k, b, D) /\ Tally(b) = k[D]
  BY TallyPeels
<1> DEFINE P == {s \in SUBSET D : k[s] = g[s] + h[s]}
<1>4. {} \in P
  BY <1>1, <1>2, <1>3 DEF Peels
<1>5. ASSUME NEW s \in SUBSET D, s # {}, \A x \in s : s \ {x} \in P PROVE s \in P
  <2>1. PICK x \in s : TRUE
    BY <1>5
  <2>2. PICK r \in SUBSET D : r = s \ {x}
    OBVIOUS
  <2>3. k[r] = g[r] + h[r] /\ b[x] = f[x] + e[x] /\ f[x] \in Int /\ e[x] \in Int
    BY <1>5, <2>2
  <2>4. k[s] = b[x] + k[r] /\ g[s] = f[x] + g[r] /\ h[s] = e[x] + h[r] /\ g[r] \in Int /\ h[r] \in Int
    BY <1>1, <1>2, <1>3, <2>2 DEF Peels
  <2> QED BY <2>3, <2>4
<1>6. D \in P
  <2> HIDE DEF P
  <2> QED BY <1>4, <1>5, EverySubset
<1> QED BY <1>1, <1>2, <1>3, <1>6

LEMMA TallyAtMost ==
  ASSUME NEW D, IsFiniteSet(D), NEW f \in [D -> Int], NEW e \in [D -> Int], \A x \in D : f[x] <= e[x]
  PROVE  Tally(f) <= Tally(e)
<1>1. PICK g : Peels(g, f, D) /\ Tally(f) = g[D]
  BY TallyPeels
<1>2. PICK h : Peels(h, e, D) /\ Tally(e) = h[D]
  BY TallyPeels
<1> DEFINE P == {s \in SUBSET D : g[s] <= h[s]}
<1>3. {} \in P
  BY <1>1, <1>2 DEF Peels
<1>4. ASSUME NEW s \in SUBSET D, s # {}, \A x \in s : s \ {x} \in P PROVE s \in P
  <2>1. PICK x \in s : TRUE
    BY <1>4
  <2>2. PICK r \in SUBSET D : r = s \ {x}
    OBVIOUS
  <2>3. g[r] <= h[r] /\ f[x] <= e[x] /\ f[x] \in Int /\ e[x] \in Int
    BY <1>4, <2>2
  <2>4. g[s] = f[x] + g[r] /\ h[s] = e[x] + h[r] /\ g[r] \in Int /\ h[r] \in Int
    BY <1>1, <1>2, <2>2 DEF Peels
  <2> QED BY <2>3, <2>4
<1>5. D \in P
  <2> HIDE DEF P
  <2> QED BY <1>3, <1>4, EverySubset
<1> QED BY <1>1, <1>2, <1>5

LEMMA TallyConstant ==
  ASSUME NEW D, IsFiniteSet(D), NEW c \in Int
  PROVE  Tally([x \in D |-> c]) = c * Cardinality(D)
<1> DEFINE f == [x \in D |-> c]
<1>1. PICK g : Peels(g, f, D) /\ Tally(f) = g[D]
  BY TallyPeels
<1> DEFINE P == {s \in SUBSET D : g[s] = c * Cardinality(s)}
<1>2. {} \in P
  BY <1>1, FS_EmptySet DEF Peels
<1>3. ASSUME NEW s \in SUBSET D, s # {}, \A x \in s : s \ {x} \in P PROVE s \in P
  <2>1. PICK x \in s : TRUE
    BY <1>3
  <2>2. PICK n : n = Cardinality(s)
    OBVIOUS
  <2>3. IsFiniteSet(s) /\ n \in Nat /\ Cardinality(s \ {x}) = n - 1
    BY <2>2, FS_Subset, FS_CardinalityType, FS_RemoveElement
  <2>4. g[s \ {x}] = c * (n - 1)
    BY <1>3, <2>3
  <2>5. g[s] = c + g[s \ {x}]
    BY <1>1 DEF Peels
  <2>6. c + c * (n - 1) = c * n
    BY <2>3
  <2> QED BY <2>2, <2>4, <2>5, <2>6
<1>4. \A s \in SUBSET D : s \in P
  <2> HIDE DEF P, f
  <2> QED BY <1>2, <1>3, EverySubset
<1> QED BY <1>1, <1>4

\* Terms that are natural numbers: none exceeds the sum.
LEMMA TallyOfNaturals ==
  ASSUME NEW D, IsFiniteSet(D), NEW f \in [D -> Nat]
  PROVE  Tally(f) \in Nat /\ \A x \in D : f[x] <= Tally(f)
<1>1. f \in [D -> Int]
  OBVIOUS
<1>2. PICK g : Peels(g, f, D) /\ Tally(f) = g[D]
  BY <1>1, TallyPeels
<1> DEFINE P == {s \in SUBSET D : g[s] >= 0}
<1>3. {} \in P
  BY <1>2 DEF Peels
<1>4. ASSUME NEW s \in SUBSET D, s # {}, \A x \in s : s \ {x} \in P PROVE s \in P
  <2>1. PICK x \in s : TRUE
    BY <1>4
  <2>2. g[s \ {x}] >= 0 /\ g[s \ {x}] \in Int /\ g[s] = f[x] + g[s \ {x}] /\ f[x] \in Nat
    BY <1>2, <1>4 DEF Peels
  <2> QED BY <2>2
<1>5. \A s \in SUBSET D : s \in P
  <2> HIDE DEF P
  <2> QED BY <1>3, <1>4, EverySubset
<1>6. g[D] \in Int /\ g[D] >= 0
  BY <1>2, <1>5 DEF Peels
<1>7. ASSUME NEW x \in D PROVE f[x] <= g[D]
  <2>1. g[D] = f[x] + g[D \ {x}] /\ g[D \ {x}] \in Int /\ g[D \ {x}] >= 0 /\ f[x] \in Nat
    BY <1>2, <1>5 DEF Peels
  <2> QED BY <2>1
<1> QED BY <1>2, <1>6, <1>7

\* One term more, and one term changed.
LEMMA TallyExtended ==
  ASSUME NEW E, IsFiniteSet(E), NEW y \in E, NEW e \in [E -> Int], NEW f \in [E \ {y} -> Int],
         \A x \in E \ {y} : e[x] = f[x]
  PROVE  Tally(e) = Tally(f) + e[y]
<1>1. PICK D : D = E \ {y}
  OBVIOUS
<1>2. IsFiniteSet(D) /\ D \subseteq E
  BY <1>1, FS_RemoveElement
<1>3. PICK g : Peels(g, f, D) /\ Tally(f) = g[D]
  <2>1. f \in [D -> Int]
    BY <1>1
  <2> QED BY <1>2, <2>1, TallyPeels
<1>4. PICK h : Peels(h, e, E) /\ Tally(e) = h[E]
  BY TallyPeels
<1>5. g[D] = h[D]
  <2>1. \A x \in D : f[x] = e[x]
    BY <1>1
  <2> QED BY <1>2, <1>3, <1>4, <2>1, SumsAgree
<1>6. h[E] = e[y] + h[D] /\ h[D] \in Int /\ e[y] \in Int
  BY <1>1, <1>4 DEF Peels
<1> QED BY <1>3, <1>4, <1>5, <1>6

LEMMA TallyChanged ==
  ASSUME NEW D, IsFiniteSet(D), NEW y \in D, NEW f \in [D -> Int], NEW e \in [D -> Int],
         \A x \in D \ {y} : e[x] = f[x]
  PROVE  Tally(e) = Tally(f) + (e[y] - f[y])
<1>1. PICK g : Peels(g, f, D) /\ Tally(f) = g[D]
  BY TallyPeels
<1>2. PICK h : Peels(h, e, D) /\ Tally(e) = h[D]
  BY TallyPeels
<1>3. PICK r \in SUBSET D : r = D \ {y}
  OBVIOUS
<1>4. IsFiniteSet(r)
  BY FS_Subset
<1>5. g[r] = h[r]
  BY <1>1, <1>2, <1>3, <1>4, SumsAgree
<1>6. g[D] = f[y] + g[r] /\ h[D] = e[y] + h[r] /\ g[r] \in Int /\ f[y] \in Int /\ e[y] \in Int
  BY <1>1, <1>2, <1>3 DEF Peels
<1> QED BY <1>1, <1>2, <1>5, <1>6
\* A finite function of integers has a greatest value.
LEMMA Greatest ==
  ASSUME NEW D, IsFiniteSet(D), D # {}, NEW f \in [D -> Int]
  PROVE  \E x \in D : \A y \in D : f[y] <= f[x]
<1> DEFINE P == {s \in SUBSET D : s = {} \/ \E x \in s : \A y \in s : f[y] <= f[x]}
<1>1. {} \in P
  OBVIOUS
<1>2. ASSUME NEW s \in SUBSET D, s # {}, \A x \in s : s \ {x} \in P PROVE s \in P
  <2>1. PICK z \in s : TRUE
    BY <1>2
  <2>2. s \ {z} = {} \/ \E x \in s \ {z} : \A y \in s \ {z} : f[y] <= f[x]
    BY <1>2
  <2>3. CASE s \ {z} = {}
    <3>1. \A y \in s : f[y] <= f[z]
      BY <2>3
    <3> QED BY <3>1
  <2>4. CASE \E x \in s \ {z} : \A y \in s \ {z} : f[y] <= f[x]
    <3>1. PICK x \in s \ {z} : \A y \in s \ {z} : f[y] <= f[x]
      BY <2>4
    <3>2. f[z] \in Int /\ f[x] \in Int /\ \A y \in s : f[y] \in Int
      OBVIOUS
    <3>3. CASE f[z] <= f[x]
      <4>1. \A y \in s : f[y] <= f[x]
        BY <3>1, <3>3
      <4> QED BY <4>1
    <3>4. CASE f[x] <= f[z]
      <4>1. \A y \in s : f[y] <= f[z]
        BY <3>1, <3>2, <3>4
      <4> QED BY <4>1
    <3> QED BY <3>2, <3>3, <3>4
  <2> QED BY <2>2, <2>3, <2>4
<1>3. D \in P
  <2> HIDE DEF P
  <2> QED BY <1>1, <1>2, EverySubset
<1> QED BY <1>3

\* The next multiple of Interval, and how many there are up to it.
LEMMA Divides ==
  ASSUME NEW n \in Nat
  PROVE  /\ n \div Interval \in Nat /\ 0 \div Interval = 0 /\ 0 % Interval = 0
         /\ n \div Interval <= (n + 1) \div Interval
         /\ (n + 1) % Interval = 0 => n \div Interval < (n + 1) \div Interval
<1>1. Interval \in Nat /\ Interval > 0
  BY BudgetAssumption
<1>2. PICK k \in Nat : k = Interval
  BY <1>1
<1>3. PICK a \in Int, b \in Int, c \in Int, d \in Int :
         a = n \div k /\ b = n % k /\ c = (n + 1) \div k /\ d = (n + 1) % k
  BY <1>1, <1>2
<1>4. /\ n = k * a + b /\ 0 <= b /\ b < k
      /\ n + 1 = k * c + d /\ 0 <= d /\ d < k
  BY <1>1, <1>2, <1>3
<1>5. a <= c
  <2>1. SUFFICES ASSUME c + 1 <= a PROVE FALSE
    OBVIOUS
  <2>2. k * (c + 1) <= k * a
    BY <1>1, <1>2, <2>1
  <2>3. k * (c + 1) = k * c + k
    OBVIOUS
  <2> QED BY <1>4, <2>2, <2>3
<1>6. ASSUME d = 0 PROVE a < c
  <2>1. SUFFICES ASSUME a = c PROVE FALSE
    BY <1>5
  <2> QED BY <1>4, <1>6, <2>1
<1>7. a >= 0
  <2>1. SUFFICES ASSUME a <= -1 PROVE FALSE
    OBVIOUS
  <2>2. k * a <= k * (-1)
    BY <1>1, <1>2, <2>1
  <2> QED BY <1>4, <2>2
<1>8. 0 \div k = 0 /\ 0 % k = 0
  BY <1>1, <1>2
<1> QED BY <1>2, <1>3, <1>5, <1>6, <1>7, <1>8

\* A window: its quotas, the waves it takes, and the whole budget.
LEMMA WindowQuotas ==
  /\ Budget \in Nat /\ Uniform \in Nat /\ Uniform <= Budget
  /\ Even \in Quotas /\ Waves(Even) = Uniform
  /\ \A q \in Quotas : /\ Waves(q) \in Uniform .. Budget
                       /\ Feasible(q) /\ Near(q, q)
                       /\ q \in [Sources -> Nat] /\ \A s \in Sources : q[s] >= 1
<1>1. PICK n : n = Cardinality(Sources)
  OBVIOUS
<1>2. n \in Nat /\ n >= 1 /\ IsFiniteSet(Sources)
  BY <1>1, BudgetAssumption, FS_CardinalityType, FS_EmptySet
<1>3. Uniform \in Nat /\ Uniform >= 1 /\ MinSteps \in Nat /\ MinSteps >= 1 /\ MinSteps <= Uniform /\ MaxSteps \in Nat
      /\ Uniform <= MaxSteps /\ MaxChange \in Nat
  BY BudgetAssumption
<1>4. Budget = Uniform * n /\ Budget \in Nat /\ Uniform <= Budget
  <2>1. Uniform * 1 <= Uniform * n /\ Uniform * n \in Nat
    BY <1>2, <1>3
  <2> QED BY <1>1, <1>3, <2>1 DEF Budget
<1>5. Even \in Quotas
  <2>1. Tally([s \in Sources |-> Uniform]) = Uniform * n
    <3>1. Uniform \in Int
      BY <1>3
    <3> QED BY <1>1, <1>2, <3>1, TallyConstant
  <2>2. Even \in [Sources -> MinSteps .. MaxSteps]
    BY <1>3 DEF Even
  <2>3. Tally(Even) = Budget
    BY <1>4, <2>1 DEF Even
  <2> QED BY <2>2, <2>3 DEF Quotas
<1>6. ASSUME NEW q \in Quotas
      PROVE  /\ Feasible(q) /\ Near(q, q)
             /\ q \in [Sources -> Nat] /\ \A s \in Sources : q[s] >= 1
             /\ Tally(q) = Budget
  <2>1. q \in [Sources -> MinSteps .. MaxSteps] /\ Tally(q) = Budget
    BY <1>6 DEF Quotas
  <2>2. \A s \in Sources : q[s] \in Nat /\ q[s] >= 1 /\ q[s] - q[s] \in -MaxChange .. MaxChange
    BY <1>3, <2>1
  <2>3. q \in [Sources -> Nat]
    BY <2>1, <2>2
  <2> QED BY <2>1, <2>2, <2>3 DEF Feasible, Near
<1>7. ASSUME NEW q \in Quotas
      PROVE  \E s \in Sources : Waves(q) = q[s] /\ \A t \in Sources : q[t] <= q[s]
  <2>1. q \in [Sources -> Int]
    BY <1>6, <1>7
  <2>2. PICK s \in Sources : \A t \in Sources : q[t] <= q[s]
    <3>1. Sources # {}
      BY BudgetAssumption
    <3> QED BY <1>2, <2>1, <3>1, Greatest
  <2>3. Range(q) = {q[t] : t \in Sources}
    BY <2>1 DEF Range
  <2>4. \A y \in Range(q) : q[s] >= y
    BY <2>1, <2>2, <2>3
  <2>5. q[s] \in Range(q) /\ \A y \in Range(q) : y \in Int
    BY <2>1, <2>3
  <2>6. Waves(q) \in Range(q) /\ \A y \in Range(q) : Waves(q) >= y
    BY <2>4, <2>5 DEF Waves, Max
  <2>7. Waves(q) = q[s]
    BY <2>4, <2>5, <2>6
  <2> QED BY <2>2, <2>7
<1>8. ASSUME NEW q \in Quotas PROVE Waves(q) \in Uniform .. Budget
  <2>1. PICK s \in Sources : Waves(q) = q[s] /\ \A t \in Sources : q[t] <= q[s]
    BY <1>7, <1>8
  <2>2. q \in [Sources -> Nat] /\ Tally(q) = Budget
    BY <1>6, <1>8
  <2>3. PICK w \in Nat : w = q[s]
    BY <2>2
  <2>4. w <= Budget
    BY <1>2, <2>2, <2>3, TallyOfNaturals
  <2>5. Budget <= w * n
    <3> DEFINE c == [t \in Sources |-> w]
    <3>1. c \in [Sources -> Int] /\ q \in [Sources -> Int] /\ \A t \in Sources : q[t] <= c[t]
      BY <2>1, <2>2, <2>3
    <3>2. Tally(q) <= Tally(c)
      <4> HIDE DEF c
      <4> QED BY <1>2, <3>1, TallyAtMost
    <3>3. Tally(c) = w * n
      <4>1. w \in Int
        OBVIOUS
      <4> QED BY <1>1, <1>2, <4>1, TallyConstant
    <3> QED BY <2>2, <3>2, <3>3
  <2>6. Uniform <= w
    <3>1. SUFFICES ASSUME w + 1 <= Uniform PROVE FALSE
      BY <1>3
    <3>2. (w + 1) * n <= Uniform * n
      BY <1>2, <1>3, <3>1
    <3>3. (w + 1) * n = w * n + n /\ w * n \in Nat
      BY <1>2
    <3> QED BY <1>2, <1>4, <2>5, <3>2, <3>3
  <2> QED BY <1>3, <1>4, <2>1, <2>3, <2>4, <2>6
<1>9. Waves(Even) = Uniform
  <2>1. PICK s \in Sources : Waves(Even) = Even[s]
    BY <1>5, <1>7
  <2> QED BY <2>1 DEF Even
<1> QED BY <1>3, <1>4, <1>5, <1>6, <1>8, <1>9

------------------------------------------------------------------------------
(* Synchronous training: the counters and the history of the quotas             *)

Entries == [iterations : Nat \ {0}, quotas : Quotas]
Weights == [Quotas -> Nat]
Weighed(h, w) == Tally([i \in 1 .. Len(h) |-> h[i].iterations * w[h[i].quotas]])

One == [q \in Quotas |-> 1]
WavesOf == [q \in Quotas |-> Waves(q)]
StepsOf(s) == [q \in Quotas |-> q[s]]

LEMMA AreWeights ==
  /\ One \in Weights /\ WavesOf \in Weights /\ \A s \in Sources : StepsOf(s) \in Weights
  /\ \A q \in Quotas : /\ One[q] = 1 /\ WavesOf[q] = Waves(q)
                       /\ \A s \in Sources : StepsOf(s)[q] = q[s]
<1>1. \A q \in Quotas : Waves(q) \in Nat /\ q \in [Sources -> Nat]
  BY WindowQuotas
<1> QED BY <1>1 DEF One, WavesOf, StepsOf, Weights

LEMMA WeighedIsInt ==
  ASSUME NEW h \in Seq(Entries), NEW w \in Weights
  PROVE  /\ [i \in 1 .. Len(h) |-> h[i].iterations * w[h[i].quotas]] \in [1 .. Len(h) -> Int]
         /\ IsFiniteSet(1 .. Len(h)) /\ Weighed(h, w) \in Int
         /\ \A i \in 1 .. Len(h) : h[i] \in Entries /\ w[h[i].quotas] \in Nat
<1>1. \A i \in 1 .. Len(h) : h[i] \in Entries
  OBVIOUS
<1>2. \A i \in 1 .. Len(h) : h[i].iterations \in Nat /\ w[h[i].quotas] \in Nat
  BY <1>1 DEF Entries, Weights
<1>3. [i \in 1 .. Len(h) |-> h[i].iterations * w[h[i].quotas]] \in [1 .. Len(h) -> Int]
  BY <1>2
<1>4. IsFiniteSet(1 .. Len(h))
  BY FS_Interval
<1> QED BY <1>1, <1>2, <1>3, <1>4, TallyIsInt DEF Weighed

\* A window more: the last record counts it, or a record of its own.
LEMMA RecordedCases ==
  ASSUME NEW h \in Seq(Entries), NEW q \in Quotas
  PROVE  LET N == Len(h)
             k == Recorded(h, q)
         IN  /\ k \in Seq(Entries) /\ k # << >> /\ k[Len(k)].quotas = q
             /\ \/ /\ N > 0 /\ h[N].quotas = q /\ Len(k) = N
                   /\ \A i \in 1 .. N : k[i].quotas = h[i].quotas
                   /\ \A i \in 1 .. N - 1 : k[i].iterations = h[i].iterations
                   /\ k[N].iterations = h[N].iterations + 1
                \/ /\ N = 0 \/ h[N].quotas # q
                   /\ Len(k) = N + 1 /\ k[N + 1].quotas = q /\ k[N + 1].iterations = 1
                   /\ \A i \in 1 .. N : k[i] = h[i]
<1>0. PICK N \in Nat : N = Len(h)
  OBVIOUS
<1>1. PICK k : N = Len(h) /\ k = Recorded(h, q)
  BY <1>0
<1>2. CASE N > 0 /\ h[N].quotas = q
  <2>1. PICK e : e = h[N]
    OBVIOUS
  <2>2. e \in Entries
    BY <1>1, <1>2, <2>1
  <2>3. PICK x : x = [e EXCEPT !.iterations = @ + 1]
    OBVIOUS
  <2>4. x \in Entries /\ x.quotas = e.quotas /\ x.iterations = e.iterations + 1
    BY <2>2, <2>3 DEF Entries
  <2>5. k = [h EXCEPT ![N] = x]
    BY <1>1, <1>2, <2>1, <2>3 DEF Recorded
  <2>6. k \in Seq(Entries) /\ Len(k) = N /\ k[N] = x /\ \A i \in 1 .. N - 1 : k[i] = h[i]
    BY <1>1, <1>2, <2>4, <2>5
  <2>7. \A i \in 1 .. N : i # N => i \in 1 .. N - 1
    OBVIOUS
  <2>8. \A i \in 1 .. N : k[i].quotas = h[i].quotas
    BY <2>1, <2>4, <2>6, <2>7
  <2>9. k # << >>
    BY <1>2, <2>6
  <2> QED BY <1>1, <1>2, <2>1, <2>4, <2>6, <2>8, <2>9
<1>3. CASE ~(N > 0 /\ h[N].quotas = q)
  <2>1. PICK x : x = [iterations |-> 1, quotas |-> q]
    OBVIOUS
  <2>2. x \in Entries /\ x.quotas = q /\ x.iterations = 1
    BY <2>1 DEF Entries
  <2>3. k = Append(h, x)
    BY <1>1, <1>3, <2>1 DEF Recorded
  <2>4. k \in Seq(Entries) /\ Len(k) = N + 1 /\ k[N + 1] = x /\ \A i \in 1 .. N : k[i] = h[i]
    BY <1>1, <2>2, <2>3
  <2>5. N = 0 \/ h[N].quotas # q
    BY <1>3
  <2>6. k # << >>
    BY <2>4
  <2> QED BY <1>1, <2>2, <2>4, <2>5, <2>6
<1> QED BY <1>2, <1>3

LEMMA RecordedWeighs ==
  ASSUME NEW h \in Seq(Entries), NEW q \in Quotas, NEW w \in Weights
  PROVE  Weighed(Recorded(h, q), w) = Weighed(h, w) + w[q]
<1>0. PICK N \in Nat : N = Len(h)
  OBVIOUS
<1>1. PICK k : N = Len(h) /\ k = Recorded(h, q)
  BY <1>0
<1>2. k \in Seq(Entries) /\ w[q] \in Nat
  BY <1>1, RecordedCases DEF Weights
<1> DEFINE f == [i \in 1 .. Len(h) |-> h[i].iterations * w[h[i].quotas]]
           e == [i \in 1 .. Len(k) |-> k[i].iterations * w[k[i].quotas]]
<1>3. /\ f \in [1 .. N -> Int] /\ IsFiniteSet(1 .. N) /\ Weighed(h, w) = Tally(f)
      /\ \A i \in 1 .. N : h[i].iterations \in Nat /\ w[h[i].quotas] \in Nat
  BY <1>1, WeighedIsInt DEF Weighed, Entries
<1>4. e \in [1 .. Len(k) -> Int] /\ Weighed(k, w) = Tally(e)
  BY <1>2, WeighedIsInt DEF Weighed
<1>5. CASE /\ N > 0 /\ h[N].quotas = q /\ Len(k) = N
           /\ \A i \in 1 .. N : k[i].quotas = h[i].quotas
           /\ \A i \in 1 .. N - 1 : k[i].iterations = h[i].iterations
           /\ k[N].iterations = h[N].iterations + 1
  <2>1. \A i \in (1 .. N) \ {N} : e[i] = f[i]
    <3>1. ASSUME NEW i \in (1 .. N) \ {N} PROVE e[i] = f[i]
      <4>1. i \in 1 .. N - 1 /\ i \in 1 .. Len(k) /\ i \in 1 .. Len(h)
        BY <1>1, <1>5
      <4> QED BY <1>5, <4>1
    <3> QED BY <3>1
  <2>2. PICK a \in Nat, b \in Nat : a = h[N].iterations /\ b = w[q]
    BY <1>2, <1>3, <1>5
  <2>3. f[N] = a * b /\ e[N] = (a + 1) * b
    <3>1. N \in 1 .. Len(h) /\ N \in 1 .. Len(k) /\ k[N].quotas = q
      BY <1>1, <1>5
    <3> QED BY <1>5, <2>2, <3>1
  <2>4. e[N] - f[N] = b
    BY <2>3
  <2>5. N \in 1 .. N /\ e \in [1 .. N -> Int]
    BY <1>4, <1>5
  <2>6. Tally(e) = Tally(f) + (e[N] - f[N])
    <3> HIDE DEF e, f
    <3>1. PICK D : D = 1 .. N
      OBVIOUS
    <3>2. IsFiniteSet(D) /\ N \in D /\ f \in [D -> Int] /\ e \in [D -> Int] /\ \A i \in D \ {N} : e[i] = f[i]
      BY <1>3, <2>1, <2>5, <3>1
    <3> QED BY ONLY <3>2, TallyChanged
  <2> QED BY <1>1, <1>3, <1>4, <2>2, <2>4, <2>6
<1>6. CASE /\ Len(k) = N + 1 /\ k[N + 1].quotas = q /\ k[N + 1].iterations = 1
           /\ \A i \in 1 .. N : k[i] = h[i]
  <2>1. \A i \in 1 .. N : e[i] = f[i]
    BY <1>1, <1>6
  <2>2. e[N + 1] = w[q]
    BY <1>2, <1>6
  <2>3. N + 1 \notin 1 .. N /\ (1 .. N) \cup {N + 1} = 1 .. N + 1
    OBVIOUS
  <2>4. e \in [1 .. N + 1 -> Int]
    BY <1>4, <1>6
  <2>5. Tally(e) = Tally(f) + e[N + 1]
    <3> HIDE DEF e, f
    <3>1. PICK E, y : E = 1 .. N + 1 /\ y = N + 1
      OBVIOUS
    <3>2. y \in E /\ E \ {y} = 1 .. N /\ IsFiniteSet(E) /\ e \in [E -> Int]
      BY <2>3, <2>4, <3>1, FS_Interval
    <3>3. f \in [E \ {y} -> Int] /\ \A i \in E \ {y} : e[i] = f[i]
      BY <1>3, <2>1, <3>2
    <3>4. Tally(e) = Tally(f) + e[y]
      BY ONLY <3>2, <3>3, TallyExtended
    <3> QED BY <3>1, <3>4
  <2> QED BY <1>1, <1>3, <1>4, <2>2, <2>5
<1> QED BY <1>1, <1>5, <1>6, RecordedCases

LEMMA BeforeEnd ==
  ASSUME NEW h \in Seq(Entries)
  PROVE  Before(h, Len(h) + 1) = Weighed(h, One)
<1>1. Len(h) \in Nat /\ (Len(h) + 1) - 1 = Len(h)
  OBVIOUS
<1>2. ASSUME NEW i \in 1 .. Len(h) PROVE h[i].iterations = h[i].iterations * One[h[i].quotas]
  <2>1. h[i] \in Entries
    OBVIOUS
  <2>2. h[i].iterations \in Nat /\ h[i].quotas \in Quotas
    BY <2>1 DEF Entries
  <2> QED BY <2>2 DEF One
<1>3. [i \in 1 .. Len(h) |-> h[i].iterations] = [i \in 1 .. Len(h) |-> h[i].iterations * One[h[i].quotas]]
  BY <1>2
<1>4. Before(h, Len(h) + 1) = Tally([i \in 1 .. Len(h) |-> h[i].iterations])
  BY <1>1 DEF Before
<1> QED BY <1>3, <1>4 DEF Weighed

\* Every record could have followed the one before it, at a probe.
Follows(m, h) ==
    /\ h # << >> => h[1].quotas = Even
    /\ \A i \in 1 .. Len(h) : /\ i > 1 => Near(h[i].quotas, h[i - 1].quotas)
                              /\ m = "fixed" => h[i].quotas = Even
                              /\ Before(h, i) % Interval = 0

LEMMA FollowsOn ==
  ASSUME NEW m, NEW h \in Seq(Entries), NEW q \in Quotas, Follows(m, h),
         m = "fixed" => q = Even,
         h = << >> => q = Even,
         h # << >> => Near(q, h[Len(h)].quotas),
         Weighed(h, One) % Interval # 0 => h # << >> /\ q = h[Len(h)].quotas
  PROVE  Follows(m, Recorded(h, q))
<1>0. PICK N \in Nat : N = Len(h)
  OBVIOUS
<1>1. PICK k : N = Len(h) /\ k = Recorded(h, q)
  BY <1>0
<1>2. k \in Seq(Entries) /\ k # << >> /\ (N = 0 <=> h = << >>)
  BY <1>1, RecordedCases
<1>3. \A i \in 1 .. N : /\ i > 1 => Near(h[i].quotas, h[i - 1].quotas)
                        /\ m = "fixed" => h[i].quotas = Even
                        /\ Before(h, i) % Interval = 0
  BY <1>1 DEF Follows
<1>4. CASE /\ N > 0 /\ h[N].quotas = q /\ Len(k) = N
           /\ \A i \in 1 .. N : k[i].quotas = h[i].quotas
           /\ \A i \in 1 .. N - 1 : k[i].iterations = h[i].iterations
  <2>1. k[1].quotas = Even
    <3>1. 1 \in 1 .. N /\ h # << >>
      BY <1>2, <1>4
    <3> QED BY <1>4, <3>1 DEF Follows
  <2>2. ASSUME NEW i \in 1 .. N PROVE Before(k, i) = Before(h, i)
    <3>1. \A j \in 1 .. i - 1 : j \in 1 .. N - 1
      OBVIOUS
    <3>2. [j \in 1 .. i - 1 |-> k[j].iterations] = [j \in 1 .. i - 1 |-> h[j].iterations]
      BY <1>4, <3>1
    <3> QED BY <3>2 DEF Before
  <2>3. ASSUME NEW i \in 1 .. N, i > 1 PROVE Near(k[i].quotas, k[i - 1].quotas)
    <3>1. i - 1 \in 1 .. N
      BY <2>3
    <3> QED BY <1>3, <1>4, <2>3, <3>1
  <2>4. \A i \in 1 .. N : m = "fixed" => k[i].quotas = Even
    BY <1>3, <1>4
  <2> QED BY <1>1, <1>3, <1>4, <2>1, <2>2, <2>3, <2>4 DEF Follows
<1>5. CASE /\ N = 0 \/ h[N].quotas # q
           /\ Len(k) = N + 1 /\ k[N + 1].quotas = q
           /\ \A i \in 1 .. N : k[i] = h[i]
  <2>1. k[1].quotas = Even
    <3>1. CASE N = 0
      BY <1>2, <1>5, <3>1
    <3>2. CASE N # 0
      <4>1. 1 \in 1 .. N /\ h # << >>
        BY <1>2, <3>2
      <4> QED BY <1>5, <4>1 DEF Follows
    <3> QED BY <3>1, <3>2
  <2>2. ASSUME NEW i \in 1 .. N + 1 PROVE Before(k, i) = Before(h, i)
    <3>1. \A j \in 1 .. i - 1 : j \in 1 .. N
      OBVIOUS
    <3>2. [j \in 1 .. i - 1 |-> k[j].iterations] = [j \in 1 .. i - 1 |-> h[j].iterations]
      BY <1>5, <3>1
    <3> QED BY <3>2 DEF Before
  <2>3. Before(h, N + 1) % Interval = 0
    <3>1. Before(h, N + 1) = Weighed(h, One)
      BY <1>1, BeforeEnd
    <3> QED BY <1>1, <1>2, <1>5, <3>1
  <2>4. ASSUME NEW i \in 1 .. N + 1, i > 1 PROVE Near(k[i].quotas, k[i - 1].quotas)
    <3>1. CASE i = N + 1
      <4>1. i - 1 = N /\ N \in 1 .. N
        BY <2>4, <3>1
      <4> QED BY <1>1, <1>2, <1>5, <3>1, <4>1
    <3>2. CASE i # N + 1
      <4>1. i \in 1 .. N /\ i - 1 \in 1 .. N
        BY <2>4, <3>2
      <4> QED BY <1>3, <1>5, <2>4, <4>1
    <3> QED BY <3>1, <3>2
  <2>5. ASSUME NEW i \in 1 .. N + 1, m = "fixed" PROVE k[i].quotas = Even
    <3>1. CASE i = N + 1
      BY <1>5, <2>5, <3>1
    <3>2. CASE i # N + 1
      <4>1. i \in 1 .. N
        BY <3>2
      <4> QED BY <1>3, <1>5, <2>5, <4>1
    <3> QED BY <3>1, <3>2
  <2>6. \A i \in 1 .. N + 1 : Before(k, i) % Interval = 0
    <3>1. \A i \in 1 .. N + 1 : i = N + 1 \/ i \in 1 .. N
      OBVIOUS
    <3> QED BY <1>3, <2>2, <2>3, <3>1
  <2>7. \A i \in 1 .. Len(k) : i \in 1 .. N + 1
    BY <1>5
  <2> QED BY <1>1, <2>1, <2>4, <2>5, <2>6, <2>7 DEF Follows
<1>6. \/ /\ N > 0 /\ h[N].quotas = q /\ Len(k) = N
         /\ \A i \in 1 .. N : k[i].quotas = h[i].quotas
         /\ \A i \in 1 .. N - 1 : k[i].iterations = h[i].iterations
      \/ /\ N = 0 \/ h[N].quotas # q
         /\ Len(k) = N + 1 /\ k[N + 1].quotas = q
         /\ \A i \in 1 .. N : k[i] = h[i]
  BY <1>1, RecordedCases, Zenon
<1> QED BY <1>4, <1>5, <1>6

\* The counters of a runner and its schedule, in mode m, after any number of iterations.
Counted(m, r, s) ==
    /\ r.next \in Nat /\ r.policy = r.next /\ r.steps = r.next * Updates /\ r.total = r.next * Budget
    /\ r.norm \in r.next * Uniform .. r.next * Budget
    /\ m = "central" => r.norm = r.next * Uniform
    /\ s = [quotas |-> s.quotas, probes |-> s.probes]
    /\ s.quotas \in Quotas /\ (m # "adaptive" => s.quotas = Even)
    /\ s.probes \in Nat /\ s.probes <= r.next \div Interval

\* What the quotas added up to, by their history and source by source.
Told(m, r, s) ==
    /\ r.history \in Seq(Entries) /\ Follows(m, r.history)
    /\ Weighed(r.history, One) = r.next /\ Weighed(r.history, WavesOf) = r.norm
    /\ r.perSource \in [Sources -> Nat] /\ Tally(r.perSource) = r.total
    /\ \A x \in Sources : /\ Weighed(r.history, StepsOf(x)) = r.perSource[x]
                          /\ r.perSource[x] >= r.next
    /\ r.next = 0 => r.history = << >> /\ s.quotas = Even
    /\ r.next > 0 => /\ r.history # << >>
                     /\ Near(s.quotas, r.history[Len(r.history)].quotas)
                     /\ r.next % Interval # 0 => s.quotas = r.history[Len(r.history)].quotas

Whole(m, r, s) == Counted(m, r, s) /\ (m # "central" => Told(m, r, s))

\* A file holds what a runner and its learner had after an iteration.
WholeFile(m, file) ==
    /\ Whole(m, file.run, file.schedule)
    /\ file.learner = [steps |-> file.run.steps, samples |-> file.run.total]
    /\ file.run.next > 0 /\ file.iteration = file.run.next - 1

\* load takes such a file back.
LEMMA WholeIsAccepted ==
  ASSUME NEW file, WholeFile(mode, file)
  PROVE  Accepts(file)
<1>1. PICK r, s, n : r = file.run /\ s = file.schedule /\ n = r.next
  OBVIOUS
<1>2. Counted(mode, r, s) /\ (mode # "central" => Told(mode, r, s))
  BY <1>1 DEF WholeFile, Whole
<1>3. n \in Nat /\ n > 0 /\ file.iteration + 1 = n
  <2>1. n \in Nat
    BY <1>1, <1>2 DEF Counted
  <2> QED BY <1>1, <2>1 DEF WholeFile
<1>4. file.learner.steps = r.steps /\ file.learner.samples = r.total
  BY <1>1 DEF WholeFile
<1>5. r.policy = n /\ r.steps = n * Updates /\ r.total = n * Budget /\ r.norm \in n * Uniform .. n * Budget
      /\ (mode = "central" => r.norm = n * Uniform) /\ s.quotas \in Quotas /\ s.probes <= n \div Interval
  BY <1>1, <1>2 DEF Counted
<1>6. CASE mode = "central"
  BY <1>1, <1>3, <1>4, <1>5, <1>6 DEF Accepts
<1>7. CASE mode # "central"
  <2>1. Told(mode, r, s)
    BY <1>2, <1>7
  <2>2. PICK h, N : h = r.history /\ N = Len(h)
    OBVIOUS
  <2>3. /\ N \in Nat /\ h \in Seq(Entries) /\ Follows(mode, h) /\ N > 0 /\ h # << >>
        /\ Weighed(h, One) = n /\ Weighed(h, WavesOf) = r.norm
        /\ \A x \in Sources : Weighed(h, StepsOf(x)) = r.perSource[x]
        /\ Near(s.quotas, h[N].quotas) /\ (n % Interval # 0 => s.quotas = h[N].quotas)
    <3>1. r.next > 0
      BY <1>1, <1>3
    <3>2. h \in Seq(Entries) /\ h # << >>
      BY <2>1, <2>2, <3>1 DEF Told
    <3>3. N \in Nat /\ N > 0
      BY <2>2, <3>2
    <3> QED BY <1>1, <2>1, <2>2, <3>1, <3>2, <3>3 DEF Told
  <2>4. \A i \in 1 .. N : h[i] \in Entries /\ h[i].iterations > 0 /\ h[i].quotas \in Quotas
    <3>1. \A i \in 1 .. N : h[i] \in Entries
      BY <2>2, <2>3
    <3> QED BY <3>1 DEF Entries
  <2>5. Tally([i \in 1 .. N |-> h[i].iterations * Waves(h[i].quotas)]) = r.norm
    <3>1. \A i \in 1 .. N : WavesOf[h[i].quotas] = Waves(h[i].quotas)
      BY <2>4, AreWeights
    <3>2. [i \in 1 .. N |-> h[i].iterations * Waves(h[i].quotas)] = [i \in 1 .. N |-> h[i].iterations * WavesOf[h[i].quotas]]
      BY <3>1
    <3> QED BY <2>2, <2>3, <3>2 DEF Weighed
  <2>6. ASSUME NEW x \in Sources
        PROVE  Tally([i \in 1 .. N |-> h[i].iterations * h[i].quotas[x]]) = r.perSource[x]
    <3>1. \A i \in 1 .. N : StepsOf(x)[h[i].quotas] = h[i].quotas[x]
      BY <2>4, AreWeights
    <3>2. [i \in 1 .. N |-> h[i].iterations * h[i].quotas[x]] = [i \in 1 .. N |-> h[i].iterations * StepsOf(x)[h[i].quotas]]
      BY <3>1
    <3> QED BY <2>2, <2>3, <3>2 DEF Weighed
  <2>7. Before(h, N + 1) = n
    BY <2>2, <2>3, BeforeEnd
  <2>8. \A i \in 1 .. N : /\ h[i].iterations > 0 /\ Feasible(h[i].quotas)
                          /\ i > 1 => Near(h[i].quotas, h[i - 1].quotas)
                          /\ mode = "fixed" => h[i].quotas = Even
                          /\ Before(h, i) % Interval = 0
    BY <2>2, <2>3, <2>4, WindowQuotas DEF Follows
  <2>9. h[1].quotas = Even
    BY <2>3 DEF Follows
  <2>10. HistoryValid(file)
    BY <1>1, <1>5, <2>2, <2>3, <2>5, <2>6, <2>7, <2>8, <2>9 DEF HistoryValid
  <2>11. (\A x \in Sources : r.perSource[x] > 0) /\ Tally(r.perSource) = n * Budget /\ Feasible(s.quotas)
    <3>1. \A x \in Sources : r.perSource[x] \in Nat /\ r.perSource[x] >= n
      BY <1>1, <2>1 DEF Told
    <3> QED BY <1>3, <1>5, <2>1, <3>1, WindowQuotas DEF Told
  <2> QED BY <1>1, <1>3, <1>4, <1>5, <1>7, <2>10, <2>11 DEF Accepts
<1> QED BY <1>6, <1>7
LEMMA WholeAtFirst ==
  ASSUME NEW m
  PROVE  Whole(m, NewRun, NewSchedule) /\ NewRun.steps = 0 /\ NewRun.total = 0 /\ NewRun.next = 0
<1>1. PICK r, s : r = NewRun /\ s = NewSchedule
  OBVIOUS
<1>2. /\ r.next = 0 /\ r.policy = 0 /\ r.norm = 0 /\ r.steps = 0 /\ r.total = 0 /\ r.history = << >>
      /\ r.perSource = [x \in Sources |-> 0] /\ s = [quotas |-> Even, probes |-> 0]
  BY <1>1 DEF NewRun, NewSchedule
<1>3. Budget \in Nat /\ Uniform \in Nat /\ Updates \in Nat /\ Even \in Quotas
  BY WindowQuotas, BudgetAssumption
<1>4. Counted(m, r, s)
  <2>1. 0 * Budget = 0 /\ 0 * Uniform = 0 /\ 0 * Updates = 0 /\ 0 \in 0 .. 0
    BY <1>3
  <2>2. 0 \div Interval = 0
    BY Divides
  <2> QED BY <1>2, <1>3, <2>1, <2>2 DEF Counted
<1>5. Told(m, r, s)
  <2>1. << >> \in Seq(Entries) /\ Follows(m, << >>) /\ 1 .. Len(<< >>) = {}
    BY DEF Follows
  <2>2. ASSUME NEW w \in Weights PROVE Weighed(<< >>, w) = 0
    <3> DEFINE f == [i \in 1 .. Len(<< >>) |-> << >>[i].iterations * w[<< >>[i].quotas]]
    <3>1. f \in [{} -> Int] /\ IsFiniteSet({})
      BY <2>1, FS_EmptySet
    <3>2. \E g : Peels(g, f, {}) /\ Tally(f) = g[{}]
      <4> HIDE DEF f
      <4> QED BY <3>1, TallyPeels
    <3>3. Tally(f) = 0
      BY <3>2 DEF Peels
    <3> QED BY <3>3 DEF Weighed
  <2>3. Tally([x \in Sources |-> 0]) = 0
    <3>0. PICK z \in Int : z = 0
      OBVIOUS
    <3>1. Tally([x \in Sources |-> z]) = z * Cardinality(Sources)
      BY BudgetAssumption, TallyConstant
    <3>2. PICK c \in Nat : c = Cardinality(Sources)
      BY BudgetAssumption, FS_CardinalityType
    <3>3. 0 * c = 0
      BY <3>2
    <3> QED BY <3>0, <3>1, <3>2, <3>3
  <2> QED BY <1>2, <2>1, <2>2, <2>3, AreWeights DEF Told
<1> QED BY <1>1, <1>2, <1>4, <1>5 DEF Whole

\* An iteration more.
LEMMA WholeAfterWindow ==
  ASSUME NEW m, NEW r, NEW s, Whole(m, r, s), NEW t,
         t.next = r.next + 1, t.policy = r.next + 1, t.norm = r.norm + Waves(s.quotas),
         t.total = (r.next + 1) * Budget, t.steps = (r.next + 1) * Updates,
         m # "central" => /\ t.perSource = [x \in Sources |-> r.perSource[x] + s.quotas[x]]
                          /\ t.history = Recorded(r.history, s.quotas)
  PROVE  /\ Whole(m, t, s) /\ t.next > 0 /\ t.total = r.total + Budget /\ t.steps = r.steps + Updates
         /\ m # "central" => s.quotas = t.history[Len(t.history)].quotas
         /\ t.next % Interval = 0 => s.probes < t.next \div Interval
<1>1. Counted(m, r, s)
  BY DEF Whole
<1>a. PICK B \in Nat, U \in Nat, P \in Nat : B = Budget /\ U = Uniform /\ P = Updates
  BY WindowQuotas, BudgetAssumption
<1>b. PICK n \in Nat, o \in Int : n = r.next /\ o = r.norm
  <2>1. r.next \in Nat /\ r.norm \in r.next * U .. r.next * B
    BY <1>1, <1>a DEF Counted
  <2>2. r.next * U \in Nat /\ r.next * B \in Nat
    BY <2>1
  <2> QED BY <2>1, <2>2
<1>c. PICK q \in Quotas, W \in Nat : q = s.quotas /\ W = Waves(q)
  <2>1. s.quotas \in Quotas
    BY <1>1 DEF Counted
  <2>2. Waves(s.quotas) \in U .. B
    BY <1>a, <2>1, WindowQuotas
  <2> QED BY <2>1, <2>2
<1>2. n = r.next /\ q = s.quotas /\ B = Budget /\ U = Uniform /\ W = Waves(q) /\ P = Updates /\ o = r.norm
  BY <1>a, <1>b, <1>c
<1>3. U <= W /\ W <= B
  BY <1>2, WindowQuotas
<1>4. (n + 1) * B = n * B + B /\ (n + 1) * U = n * U + U /\ (n + 1) * P = n * P + P
  OBVIOUS
<1>5. n * U <= o /\ o <= n * B /\ r.total = n * B /\ r.steps = n * P /\ (m = "central" => o = n * U)
  BY <1>1, <1>2 DEF Counted
<1>6. t.total = r.total + Budget /\ t.steps = r.steps + Updates /\ t.next = n + 1 /\ t.next > 0
  BY <1>2, <1>4, <1>5
<1>7. s.probes <= (n + 1) \div Interval /\ ((n + 1) % Interval = 0 => s.probes < (n + 1) \div Interval)
  <2>1. PICK a \in Int, b \in Int, p \in Nat : a = n \div Interval /\ b = (n + 1) \div Interval /\ p = s.probes
    BY <1>1, BudgetAssumption DEF Counted
  <2>2. p <= a
    BY <1>1, <1>2, <2>1 DEF Counted
  <2>3. a <= b /\ ((n + 1) % Interval = 0 => a < b)
    BY <2>1, Divides
  <2> QED BY <2>1, <2>2, <2>3
<1>8. Counted(m, t, s)
  <2>1. t.norm \in t.next * Uniform .. t.next * Budget
    <3>1. t.norm = o + W /\ t.next * Uniform = n * U + U /\ t.next * Budget = n * B + B /\ n * U \in Int /\ n * B \in Int
      BY <1>2, <1>4
    <3> QED BY <1>3, <1>5, <3>1
  <2>2. m = "central" => t.norm = t.next * Uniform
    <3>1. m = "central" => W = U
      BY <1>1, <1>2, WindowQuotas DEF Counted
    <3> QED BY <1>2, <1>4, <1>5, <3>1
  <2> QED BY <1>1, <1>2, <1>7, <2>1, <2>2 DEF Counted
<1>9. ASSUME m # "central"
      PROVE  Told(m, t, s) /\ s.quotas = t.history[Len(t.history)].quotas
  <2>1. Told(m, r, s)
    BY <1>9 DEF Whole
  <2>2. PICK h, k : h = r.history /\ k = Recorded(h, q)
    OBVIOUS
  <2>3. h \in Seq(Entries) /\ Follows(m, h) /\ Weighed(h, One) = n /\ t.history = k
    BY <1>2, <1>9, <2>1, <2>2 DEF Told
  <2>4. k \in Seq(Entries) /\ k # << >> /\ k[Len(k)].quotas = q
    BY <2>2, <2>3, RecordedCases
  <2>5. \A w \in Weights : Weighed(k, w) = Weighed(h, w) + w[q]
    BY <2>2, <2>3, RecordedWeighs
  <2>6. Weighed(k, One) = n + 1 /\ Weighed(k, WavesOf) = o + W
    BY <1>2, <2>1, <2>2, <2>3, <2>5, AreWeights DEF Told
  <2>7. Follows(m, k)
    <3>1. m = "fixed" => q = Even
      BY <1>1, <1>2 DEF Counted
    <3>2. CASE n = 0
      <4>1. h = << >> /\ q = Even
        BY <1>2, <2>1, <2>2, <3>2 DEF Told
      <4>2. Weighed(h, One) % Interval = 0
        BY <2>3, <3>2, Divides
      <4> QED BY <2>2, <2>3, <3>1, <4>1, <4>2, FollowsOn
    <3>3. CASE n > 0
      <4>1. h # << >> /\ Near(q, h[Len(h)].quotas) /\ (n % Interval # 0 => q = h[Len(h)].quotas)
        BY <1>2, <2>1, <2>2, <3>3 DEF Told
      <4> QED BY <2>2, <2>3, <3>1, <4>1, FollowsOn
    <3> QED BY <3>2, <3>3
  <2>8. /\ t.perSource \in [Sources -> Nat] /\ Tally(t.perSource) = t.total
        /\ \A x \in Sources : Weighed(k, StepsOf(x)) = t.perSource[x] /\ t.perSource[x] >= n + 1
    <3>1. PICK a \in [Sources -> Nat] : a = r.perSource
      BY <2>1 DEF Told
    <3>2. q \in [Sources -> Nat] /\ (\A x \in Sources : q[x] >= 1) /\ Tally(q) = B
      BY <1>2, WindowQuotas DEF Feasible
    <3>3. t.perSource = [x \in Sources |-> a[x] + q[x]]
      BY <1>2, <1>9, <3>1
    <3>4. t.perSource \in [Sources -> Nat] /\ \A x \in Sources : t.perSource[x] = a[x] + q[x]
      BY <3>2, <3>3
    <3>5. Tally(t.perSource) = Tally(a) + Tally(q)
      <4>1. t.perSource \in [Sources -> Int] /\ a \in [Sources -> Int] /\ q \in [Sources -> Int]
        BY <3>2, <3>4
      <4> QED BY <3>4, <4>1, BudgetAssumption, TallyPlus
    <3>6. Tally(a) = r.total
      BY <2>1, <3>1 DEF Told
    <3>7. ASSUME NEW x \in Sources PROVE Weighed(k, StepsOf(x)) = t.perSource[x] /\ t.perSource[x] >= n + 1
      <4>1. Weighed(h, StepsOf(x)) = a[x] /\ a[x] >= n
        BY <1>2, <2>1, <2>2, <3>1 DEF Told
      <4>2. StepsOf(x) \in Weights /\ StepsOf(x)[q] = q[x]
        BY AreWeights
      <4>3. a[x] \in Nat /\ q[x] \in Nat /\ q[x] >= 1
        BY <3>2
      <4> QED BY <2>5, <3>4, <4>1, <4>2, <4>3
    <3> QED BY <1>2, <1>6, <3>2, <3>4, <3>5, <3>6, <3>7
  <2>9. Near(s.quotas, k[Len(k)].quotas) /\ s.quotas = k[Len(k)].quotas
    BY <1>2, <2>4, WindowQuotas
  <2>10. t.norm = o + W /\ t.next # 0
    BY <1>2, <1>6
  <2> QED BY <1>6, <2>3, <2>4, <2>6, <2>7, <2>8, <2>9, <2>10 DEF Told
<1> QED BY <1>2, <1>6, <1>7, <1>8, <1>9 DEF Whole

\* A probe may move quotas from those the last window was collected with.
LEMMA WholeAfterProbe ==
  ASSUME NEW m, NEW r, NEW s, Whole(m, r, s), m = "adaptive", r.next > 0, r.next % Interval = 0,
         s.quotas = r.history[Len(r.history)].quotas, s.probes < r.next \div Interval,
         NEW q \in Quotas, Near(q, s.quotas),
         NEW t, t = [quotas |-> q, probes |-> s.probes + 1]
  PROVE  Whole(m, r, t)
<1>1. Counted(m, r, s) /\ Told(m, r, s)
  BY DEF Whole
<1>2. PICK n \in Nat, p \in Nat : n = r.next /\ p = s.probes
  BY <1>1 DEF Counted
<1>3. t.quotas = q /\ t.probes = p + 1 /\ t = [quotas |-> t.quotas, probes |-> t.probes]
  BY <1>2
<1>4. t.probes \in Nat /\ t.probes <= n \div Interval
  <2>1. n \div Interval \in Nat
    BY Divides
  <2> QED BY <1>2, <1>3, <2>1
<1>5. Counted(m, r, t)
  BY <1>1, <1>2, <1>3, <1>4 DEF Counted
<1>6. Told(m, r, t)
  BY <1>1, <1>2, <1>3 DEF Told
<1> QED BY <1>5, <1>6 DEF Whole

------------------------------------------------------------------------------
(* Synchronous training: what the validations find                              *)

NrRunner ==
    /\ phase \in {"absent", "fresh", "head", "collect", "update", "probe", "log", "save", "replace"}
    /\ Whole(mode, run, schedule)
    /\ learner = [steps |-> run.steps, samples |-> run.total + (IF phase = "update" THEN Budget ELSE 0)]
    /\ phase \in {"probe", "log", "save", "replace"} => run.next > 0
    /\ phase = "probe" => /\ mode # "central" /\ run.next % Interval = 0
                          /\ schedule.quotas = run.history[Len(run.history)].quotas
                          /\ schedule.probes < run.next \div Interval
NrCollector ==
    /\ collector.quotas \in Quotas
    /\ phase \in {"collect", "update"} => collector.quotas = schedule.quotas
    /\ phase # "update" => collector.stamp \in {<< >>, Stamp}
    /\ phase = "update" => collector.stamp = <<run.next + 1, run.policy + 1, run.norm + Waves(collector.quotas)>>
NrFiles ==
    /\ \A file \in disk : WholeFile(mode, file)
    /\ phase = "replace" => WholeFile(mode, temporary)

NrInv == NrRunner /\ NrCollector /\ NrFiles

LEMMA NrStart ==
  ASSUME Init
  PROVE  NrInv
<1>1. /\ phase = "absent" /\ run = NewRun /\ schedule = NewSchedule /\ collector = NewCollector(Even, 0)
      /\ learner = NewLearner /\ disk = {}
  BY DEF Init
<1>2. NrRunner
  BY <1>1, WholeAtFirst DEF NrRunner, NewLearner
<1>3. NrCollector
  BY <1>1, WindowQuotas DEF NrCollector, NewCollector
<1> QED BY <1>1, <1>2, <1>3 DEF NrInv, NrFiles

LEMMA NrEnds ==
  ASSUME NrInv, EndProcess, mode' = mode, disk' = disk
  PROVE  NrInv'
<1>1. /\ phase' = "absent" /\ run' = NewRun /\ schedule' = NewSchedule /\ collector' = NewCollector(Even, 0)
      /\ learner' = NewLearner
  BY DEF EndProcess
<1>2. NrRunner'
  BY <1>1, WholeAtFirst DEF NrRunner, NewLearner
<1>3. NrCollector'
  BY <1>1, WindowQuotas DEF NrCollector, NewCollector
<1>4. NrFiles'
  BY <1>1 DEF NrInv, NrFiles
<1> QED BY <1>2, <1>3, <1>4 DEF NrInv

LEMMA NrLaunch ==
  ASSUME NrInv, Launch
  PROVE  NrInv'
<1>1. /\ phase = "absent" /\ phase' = "fresh" /\ mode' = mode /\ run' = run /\ schedule' = schedule
      /\ collector' = collector /\ learner' = learner /\ disk' = disk
  BY DEF Launch, recordVars
<1>2. NrRunner'
  BY <1>1 DEF NrInv, NrRunner
<1>3. NrCollector'
  BY <1>1 DEF NrInv, NrCollector, Stamp
<1>4. NrFiles'
  BY <1>1 DEF NrInv, NrFiles
<1> QED BY <1>2, <1>3, <1>4 DEF NrInv

LEMMA NrLoad ==
  ASSUME EpInv, NrInv, NEW file \in disk, Load(file)
  PROVE  NrInv'
<1>1. WholeFile(mode, file) /\ Accepts(file)
  BY WholeIsAccepted DEF NrInv, NrFiles
<1>2. PICK r, s, g : r = file.run /\ s = file.schedule /\ g = file.run.generation + 1
  OBVIOUS
<1>3. /\ phase' = "head" /\ run' = Restored(file) /\ schedule' = s /\ learner' = file.learner
      /\ collector' = NewCollector(s.quotas, g) /\ mode' = mode /\ disk' = disk
  BY <1>1, <1>2 DEF Load
<1>4. /\ run'.next = r.next /\ run'.policy = r.policy /\ run'.norm = r.norm /\ run'.steps = r.steps
      /\ run'.total = r.total /\ run'.history = r.history /\ (mode # "central" => run'.perSource = r.perSource)
  <2>1. IsRun(r)
    BY <1>2 DEF EpInv, EpFiles, IsFile
  <2>2. PICK p : p = IF mode = "central" THEN [x \in Sources |-> r.next * Uniform] ELSE r.perSource
    OBVIOUS
  <2>3. run' = [r EXCEPT !.generation = g, !.perSource = p]
    BY <1>2, <1>3, <2>2 DEF Restored
  <2>4. run' = [next |-> r.next, policy |-> r.policy, norm |-> r.norm, steps |-> r.steps, total |-> r.total,
                generation |-> g, history |-> r.history, perSource |-> p]
    BY <2>1, <2>3 DEF IsRun
  <2> QED BY <2>2, <2>4
<1>5. Counted(mode, r, s) /\ (mode # "central" => Told(mode, r, s))
  BY <1>1, <1>2 DEF WholeFile, Whole
<1>6. Counted(mode, run', s)
  BY <1>4, <1>5 DEF Counted
<1>7. mode # "central" => Told(mode, run', s)
  BY <1>4, <1>5 DEF Told
<1>8. NrRunner'
  <2>1. learner' = [steps |-> run'.steps, samples |-> run'.total + 0]
    <3>1. learner' = [steps |-> r.steps, samples |-> r.total]
      BY <1>1, <1>2, <1>3 DEF WholeFile
    <3>2. r.total \in Int
      <4>1. r.next \in Nat /\ Budget \in Nat /\ r.total = r.next * Budget
        BY <1>5, WindowQuotas DEF Counted
      <4> QED BY <4>1
    <3> QED BY <1>4, <3>1, <3>2
  <2> QED BY <1>3, <1>6, <1>7, <2>1 DEF NrRunner, Whole
<1>9. NrCollector'
  <2>1. s.quotas \in Quotas
    BY <1>5 DEF Counted
  <2> QED BY <1>3, <2>1 DEF NrCollector, NewCollector
<1>10. NrFiles'
  BY <1>3 DEF NrInv, NrFiles
<1> QED BY <1>8, <1>9, <1>10 DEF NrInv

LEMMA NrLoopHead ==
  ASSUME EpInv, NrInv, LoopHead
  PROVE  NrInv'
<1>1. phase \in {"fresh", "head"} /\ mode' = mode /\ disk' = disk
  BY DEF LoopHead
<1>2. CASE run.next < MaxIterations
  <2>1. /\ phase' = "collect" /\ collector' = [collector EXCEPT !.quotas = schedule.quotas]
        /\ run' = run /\ schedule' = schedule /\ learner' = learner
    BY <1>2 DEF LoopHead
  <2>2. collector'.quotas = schedule.quotas /\ collector'.stamp = collector.stamp
    BY <2>1 DEF EpInv, EpTypes, IsCollector
  <2>3. NrRunner'
    BY <1>1, <2>1 DEF NrInv, NrRunner
  <2>4. NrCollector'
    <3>1. schedule.quotas \in Quotas
      BY DEF NrInv, NrRunner, Whole, Counted
    <3> QED BY <1>1, <2>1, <2>2, <3>1 DEF NrInv, NrCollector, Stamp
  <2>5. NrFiles'
    BY <1>1, <2>1 DEF NrInv, NrFiles
  <2> QED BY <2>3, <2>4, <2>5 DEF NrInv
<1>3. CASE ~(run.next < MaxIterations)
  <2>1. EndProcess
    BY <1>3 DEF LoopHead
  <2> QED BY <1>1, <2>1, NrEnds
<1> QED BY <1>2, <1>3

LEMMA NrCollect ==
  ASSUME EpInv, NrInv, NEW dones \in SUBSET Sources, Collect(dones)
  PROVE  NrInv'
<1>1. phase = "collect" /\ collector.stamp \in {<< >>, Stamp} /\ collector.quotas = schedule.quotas
  BY DEF Collect, NrInv, NrCollector
<1>2. PICK stamp, ep : /\ stamp = <<run.next + 1, run.policy + 1, run.norm + Waves(collector.quotas)>>
                       /\ ep = After(collector.episode, dones)
  OBVIOUS
<1>3. /\ phase' = "update" /\ learner' = [learner EXCEPT !.samples = @ + Tally(collector.quotas)]
      /\ collector' = [collector EXCEPT !.episode = ep, !.stamp = stamp]
      /\ mode' = mode /\ run' = run /\ schedule' = schedule /\ disk' = disk
  BY <1>1, <1>2 DEF Collect
<1>4. collector'.quotas = collector.quotas /\ collector'.stamp = stamp
  BY <1>3 DEF EpInv, EpTypes, IsCollector
<1>5. Counted(mode, run, schedule) /\ Tally(collector.quotas) = Budget
  BY DEF NrInv, NrRunner, NrCollector, Whole, Quotas
<1>6. learner' = [steps |-> run.steps, samples |-> run.total + Budget]
  <2>1. run.next \in Nat /\ Budget \in Nat /\ run.total = run.next * Budget
    BY <1>5, WindowQuotas DEF Counted
  <2>2. PICK tot \in Int, b \in Int : tot = run.total /\ b = Budget
    BY <2>1
  <2>3. learner = [steps |-> run.steps, samples |-> tot]
    <3>1. learner = [steps |-> run.steps, samples |-> tot + 0]
      BY <1>1, <2>2 DEF NrInv, NrRunner
    <3> QED BY <2>2, <3>1
  <2> QED BY <1>3, <1>5, <2>2, <2>3
<1>7. NrRunner'
  BY <1>1, <1>3, <1>6 DEF NrInv, NrRunner
<1>8. NrCollector'
  BY <1>1, <1>2, <1>3, <1>4 DEF NrInv, NrCollector
<1>9. NrFiles'
  BY <1>3 DEF NrInv, NrFiles
<1> QED BY <1>7, <1>8, <1>9 DEF NrInv

\* The learner has seen what the runner counts, and a probe is due when one more fits.
LEMMA NrUpdate ==
  ASSUME EpInv, NrInv, Update
  PROVE  NrInv'
<1>1. /\ phase = "update" /\ mode' = mode /\ schedule' = schedule /\ collector' = collector /\ disk' = disk
      /\ learner' = [learner EXCEPT !.steps = @ + Updates]
  BY DEF Update
<1>2. PICK n, no, t, st, ps, hi :
        /\ n = run.next + 1 /\ no = run.norm + Waves(collector.quotas)
        /\ t = (run.next + 1) * Budget /\ st = (run.next + 1) * Updates
        /\ ps = [s \in Sources |-> run.perSource[s] + collector.quotas[s]]
        /\ hi = IF mode = "central" THEN run.history ELSE Recorded(run.history, collector.quotas)
  OBVIOUS
<1>3. run' = [run EXCEPT !.next = n, !.policy = n, !.norm = no, !.total = t, !.steps = st, !.perSource = ps, !.history = hi]
  BY <1>2 DEF Update
<1>4. IsRun(run)
  BY DEF EpInv, EpTypes
<1>5. run' = [next |-> n, policy |-> n, norm |-> no, steps |-> st, total |-> t, generation |-> run.generation,
              history |-> hi, perSource |-> ps]
  BY <1>3, <1>4 DEF IsRun
<1>6. run'.next = n /\ run'.policy = n /\ run'.norm = no /\ run'.steps = st /\ run'.total = t
      /\ run'.history = hi /\ run'.perSource = ps
  BY <1>5
<1>7. Whole(mode, run, schedule) /\ collector.quotas = schedule.quotas
  BY <1>1 DEF NrInv, NrRunner, NrCollector
<1>8. /\ Whole(mode, run', schedule) /\ run'.next > 0
      /\ run'.total = run.total + Budget /\ run'.steps = run.steps + Updates
      /\ mode # "central" => schedule.quotas = run'.history[Len(run'.history)].quotas
      /\ run'.next % Interval = 0 => schedule.probes < run'.next \div Interval
  BY <1>2, <1>6, <1>7, WholeAfterWindow
<1>9. learner' = [steps |-> run'.steps, samples |-> run'.total]
  BY <1>1, <1>8 DEF NrInv, NrRunner
<1>10. phase' = IF ProbeDue THEN "probe" ELSE "log"
  <2>1. learner'.steps = run'.steps /\ learner'.samples = run'.total
    BY <1>9
  <2> QED BY <2>1 DEF Update
<1>11. NrRunner'
  <2>1. run'.total \in Int
    <3>1. run'.next \in Nat /\ Budget \in Nat /\ run'.total = run'.next * Budget
      BY <1>8, WindowQuotas DEF Whole, Counted
    <3> QED BY <3>1
  <2>2. learner' = [steps |-> run'.steps, samples |-> run'.total + 0]
    BY <1>9, <2>1
  <2> QED BY <1>1, <1>8, <1>10, <2>2 DEF NrRunner, ProbeDue
<1>12. NrCollector'
  BY <1>1, <1>2, <1>6, <1>10 DEF NrInv, NrCollector, NrRunner, Whole, Counted, Stamp
<1>13. NrFiles'
  BY <1>1, <1>10 DEF NrInv, NrFiles
<1> QED BY <1>11, <1>12, <1>13 DEF NrInv

LEMMA NrProbe ==
  ASSUME EpInv, NrInv, Probe
  PROVE  NrInv'
<1>1. /\ phase = "probe" /\ phase' = "log" /\ mode' = mode /\ run' = run /\ learner' = learner /\ disk' = disk
      /\ collector' = [collector EXCEPT !.episode = NextIds]
  BY DEF Probe
<1>2. collector'.quotas = collector.quotas /\ collector'.stamp = collector.stamp
  BY <1>1 DEF EpInv, EpTypes, IsCollector
<1>3. /\ Whole(mode, run, schedule) /\ run.next > 0 /\ run.next % Interval = 0
      /\ schedule.quotas = run.history[Len(run.history)].quotas /\ schedule.probes < run.next \div Interval
  BY <1>1 DEF NrInv, NrRunner
<1>4. Whole(mode, run, schedule')
  <2>1. CASE mode = "adaptive"
    <3>1. PICK q \in Reallocations : schedule' = [quotas |-> q, probes |-> schedule.probes + 1]
      BY <2>1 DEF Probe
    <3>2. q \in Quotas /\ Near(q, schedule.quotas)
      BY <3>1 DEF Reallocations, Feasible, Quotas
    <3> QED BY <1>3, <2>1, <3>1, <3>2, WholeAfterProbe
  <2>2. CASE mode # "adaptive"
    <3>1. schedule' = schedule
      BY <2>2 DEF Probe
    <3> QED BY <1>3, <3>1
  <2> QED BY <2>1, <2>2
<1>5. NrRunner'
  BY <1>1, <1>3, <1>4 DEF NrInv, NrRunner
<1>6. NrCollector'
  BY <1>1, <1>2 DEF NrInv, NrCollector, Stamp
<1>7. NrFiles'
  BY <1>1 DEF NrInv, NrFiles
<1> QED BY <1>5, <1>6, <1>7 DEF NrInv

LEMMA NrWrite ==
  ASSUME NrInv, WriteTemporary
  PROVE  NrInv'
<1>1. /\ phase = "save" /\ phase' = "replace" /\ temporary' = Snapshot /\ mode' = mode /\ disk' = disk
      /\ run' = run /\ schedule' = schedule /\ collector' = collector /\ learner' = learner
  BY DEF WriteTemporary, recordVars
<1>2. WholeFile(mode, Snapshot)
  <2>1. /\ Snapshot.run = run /\ Snapshot.schedule = schedule /\ Snapshot.learner = learner
        /\ Snapshot.iteration = run.next - 1
    BY DEF Snapshot
  <2>2. Whole(mode, run, schedule) /\ run.next > 0
    BY <1>1 DEF NrInv, NrRunner
  <2>3. learner = [steps |-> run.steps, samples |-> run.total]
    <3>1. run.next \in Nat /\ Budget \in Nat /\ run.total = run.next * Budget
      BY <2>2, WindowQuotas DEF Whole, Counted
    <3>2. PICK tot \in Int : tot = run.total
      BY <3>1
    <3>3. learner = [steps |-> run.steps, samples |-> tot + 0]
      BY <1>1, <3>2 DEF NrInv, NrRunner
    <3> QED BY <3>2, <3>3
  <2> QED BY <2>1, <2>2, <2>3 DEF WholeFile
<1>3. NrRunner'
  BY <1>1 DEF NrInv, NrRunner
<1>4. NrCollector'
  BY <1>1 DEF NrInv, NrCollector, Stamp
<1>5. NrFiles'
  BY <1>1, <1>2 DEF NrInv, NrFiles
<1> QED BY <1>3, <1>4, <1>5 DEF NrInv

LEMMA NrStep ==
  ASSUME EpInv, NrInv, [Next]_vars
  PROVE  NrInv'
<1>1. CASE Launch
  BY <1>1, NrLaunch
<1>2. CASE LoadAny
  BY <1>2, NrLoad DEF LoadAny
<1>3. CASE LoopHead
  BY <1>3, NrLoopHead
<1>4. CASE CollectWindow
  BY <1>4, NrCollect DEF CollectWindow
<1>5. CASE Update
  BY <1>5, NrUpdate
<1>6. CASE Probe
  BY <1>6, NrProbe
<1>7. CASE Log
  <2>1. /\ phase = "log" /\ phase' \in {"save", "head"} /\ mode' = mode /\ disk' = disk /\ run' = run
        /\ schedule' = schedule /\ collector' = collector /\ learner' = learner
    BY <1>7 DEF Log, recordVars
  <2>2. NrRunner'
    BY <2>1 DEF NrInv, NrRunner
  <2>3. NrCollector'
    BY <2>1 DEF NrInv, NrCollector, Stamp
  <2>4. NrFiles'
    BY <2>1 DEF NrInv, NrFiles
  <2> QED BY <2>2, <2>3, <2>4 DEF NrInv
<1>8. CASE WriteTemporary
  BY <1>8, NrWrite
<1>9. CASE Replace
  <2>1. /\ phase = "replace" /\ phase' = "head" /\ mode' = mode /\ disk' = disk \cup {temporary} /\ run' = run
        /\ schedule' = schedule /\ collector' = collector /\ learner' = learner
    BY <1>9 DEF Replace, recordVars
  <2>2. NrRunner'
    BY <2>1 DEF NrInv, NrRunner
  <2>3. NrCollector'
    BY <2>1 DEF NrInv, NrCollector, Stamp
  <2>4. NrFiles'
    BY <2>1 DEF NrInv, NrFiles
  <2> QED BY <2>2, <2>3, <2>4 DEF NrInv
<1>10. CASE Stop
  <2>1. EndProcess /\ mode' = mode /\ disk' = disk
    BY <1>10 DEF Stop
  <2> QED BY <2>1, NrEnds
<1>11. CASE UNCHANGED vars
  <2>1. /\ phase' = phase /\ mode' = mode /\ disk' = disk /\ run' = run /\ temporary' = temporary
        /\ schedule' = schedule /\ collector' = collector /\ learner' = learner
    BY <1>11 DEF vars, recordVars
  <2>2. NrRunner'
    BY <2>1 DEF NrInv, NrRunner
  <2>3. NrCollector'
    BY <2>1 DEF NrInv, NrCollector, Stamp
  <2>4. NrFiles'
    BY <2>1 DEF NrInv, NrFiles
  <2> QED BY <2>2, <2>3, <2>4 DEF NrInv
<1> QED BY <1>1, <1>2, <1>3, <1>4, <1>5, <1>6, <1>7, <1>8, <1>9, <1>10, <1>11 DEF Next

(* Whatever the probes decided and however often training was stopped and resumed: *)
(* load accepts every file on disk, the stamps of the windows follow one another,   *)
(* the counters of the runner agree with the learner, and the quotas divide the     *)
(* budget of a window within the bounds; and the episodes of a learner's samples    *)
(* stay distinct (SynchronousPPORunner.load, its validations, and SourceSchedule).  *)
THEOREM ResumeStaysSound == Spec => []ResumeSound
<1>1. Init => EpInv /\ NrInv
  BY EpStart, NrStart
<1>2. EpInv /\ NrInv /\ [Next]_vars => EpInv' /\ NrInv'
  BY EpStep, NrStep
<1>3. EpInv /\ NrInv => ResumeSound
  <2>1. SUFFICES ASSUME EpInv, NrInv PROVE ResumeSound
    OBVIOUS
  <2>2. EpisodesDistinct
    BY <2>1 DEF EpInv, EpLabels, Distinct, EpisodesDistinct
  <2>3. schedule.quotas \in Quotas /\ collector.quotas \in Quotas /\ phase # "refused"
    BY <2>1 DEF NrInv, NrRunner, NrCollector, Whole, Counted
  <2>4. \A file \in disk : Accepts(file)
    BY <2>1, WholeIsAccepted DEF NrInv, NrFiles
  <2> QED BY <2>2, <2>3, <2>4 DEF ResumeSound, NothingRefused
<1> QED BY <1>1, <1>2, <1>3, PTL DEF Spec
=============================================================================
