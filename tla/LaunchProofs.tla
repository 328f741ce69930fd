----------------------------- MODULE LaunchProofs -----------------------------
(***************************************************************************)
(* Around a training, for every host, hub, task and set of starts:         *)
(* LaunchSound (the assets that processes resolve at once and the GPUs     *)
(* they end up on), PlaybackSound (the interactive window and the filmed   *)
(* session) and AllegroSound (the in-hand task and its grasp cache).  Each *)
(* follows from an inductive invariant of the component's own.             *)
(***************************************************************************)
EXTENDS DevicePlacement, InteractivePlayback, Allegro, FiniteSetTheorems, SequenceTheorems, TLAPS

LEMMA SmallestOf ==
  ASSUME NEW T \in SUBSET Nat, T # {}
  PROVE  \E x \in T : \A y \in T : x <= y
<1> DEFINE Up == {1 .. x : x \in T}
           R == StrictSubsetOrdering(Nat)
<1>1. IsWellFoundedOn(R, FiniteSubsetsOf(Nat))
  BY FS_StrictSubsetOrderingWellFounded
<1>2. Up \subseteq FiniteSubsetsOf(Nat) /\ Up # {}
  <2>1. ASSUME NEW x \in T PROVE 1 .. x \in FiniteSubsetsOf(Nat)
    <3>1. x \in Nat /\ 1 \in Int /\ x \in Int
      OBVIOUS
    <3>2. IsFiniteSet(1 .. x)
      BY <3>1, FS_Interval
    <3> QED BY <3>1, <3>2 DEF FiniteSubsetsOf
  <2> QED BY <2>1
<1>3. \E u \in Up : \A w \in Up : ~ (<<w, u>> \in R)
  <2> HIDE DEF Up, R
  <2> QED BY <1>1, <1>2, WFMin
<1>4. PICK x \in T : \A y \in T : ~ (<<1 .. y, 1 .. x>> \in R)
  BY <1>3
<1>5. ASSUME NEW y \in T PROVE x <= y
  <2>1. SUFFICES ASSUME y < x PROVE FALSE
    OBVIOUS
  <2>2. 1 .. y \subseteq 1 .. x /\ x \in 1 .. x /\ x \notin 1 .. y
    BY <2>1
  <2>3. 1 .. y \in SUBSET Nat /\ 1 .. x \in SUBSET Nat
    OBVIOUS
  <2> QED BY <1>4, <2>2, <2>3 DEF StrictSubsetOrdering
<1> QED BY <1>5

LEMMA Induction ==
  ASSUME NEW S, 0 \in S, \A n \in Nat : n \in S => n + 1 \in S
  PROVE  \A n \in Nat : n \in S
<1>1. SUFFICES ASSUME NEW k \in Nat, k \notin S PROVE FALSE
  OBVIOUS
<1> DEFINE T == {n \in Nat : n \notin S}
<1>2. T \in SUBSET Nat /\ T # {}
  BY <1>1
<1>3. PICK x \in T : \A y \in T : x <= y
  <2> HIDE DEF T
  <2> QED BY <1>2, SmallestOf
<1>4. x \in Nat /\ x # 0 /\ x \notin S
  BY <1>3
<1>5. x - 1 \in Nat /\ x - 1 \notin T
  BY <1>3, <1>4
<1>6. x - 1 \in S /\ (x - 1) + 1 = x
  BY <1>4, <1>5
<1> QED BY <1>4, <1>5, <1>6

------------------------------------------------------------------------------
(* Assets                                                                  *)

Working == {"resolve", "download", "retry"}
Fetching == {"download", "retry"}
Targets == {DirTarget(d) : d \in AhDirs} \cup {FileTarget(f) : f \in AhMotions}

AhTypes ==
    /\ ahAt \in [AhProc -> Working \cup {"idle", "returned", "raised"}]
    /\ ahRequest \in [AhProc -> AhRequests \cup {NoRequest}]
    /\ ahTodo \in [AhProc -> Seq(Targets)]
    /\ endpoint \in [AhProc -> {"mirror", "unset", "official"}]
    /\ promised \in [AhProc -> SUBSET Targets] /\ beside \in [AhProc -> SUBSET Targets]
    /\ cut \subseteq Targets /\ mirror \in BOOLEAN

\* What a process has still to resolve: the last of the files its request names, or
\* directories.
Queue(p) ==
    ahAt[p] \in Working =>
        /\ ahRequest[p] \in AhRequests
        /\ ahAt[p] \in Fetching => ahTodo[p] # <<>>
        /\ IF ahRequest[p].kind = "files"
           THEN /\ Len(ahTodo[p]) <= Len(ahRequest[p].paths)
                /\ \A i \in DOMAIN ahTodo[p] :
                       ahTodo[p][i] = FileTarget(ahRequest[p].paths[Len(ahRequest[p].paths) - Len(ahTodo[p]) + i].file)
           ELSE \A i \in DOMAIN ahTodo[p] : ahTodo[p][i].kind = "dir"

\* A directory whose marker is there is whole, or was cut short, or is on its way.
Underway(d) == \E q \in AhProc : ahAt[q] \in Fetching /\ Head(ahTodo[q]) = DirTarget(d)
MarkedIsWhole ==
    \A d \in AhDirs : MarkerOf[d] \in assets =>
        FilesOf[d] \subseteq assets \/ DirTarget(d) \in cut \/ Underway(d)

\* What a process has found or fetched so far.
Kept(p) == \A t \in promised[p] \ (cut \cup beside[p]) : OnDisk(t)

\* A bot taken from a checkout is whole there; one returned from the root is whole here.
BotHeld(p) ==
    ahRequest[p].kind = "bot" =>
        /\ ahAt[p] \in Working \cup {"returned"} /\ ConfiguredRoot(ahRequest[p]) => FilesOf[ahRequest[p].bot] \subseteq checkout
        /\ ahAt[p] = "returned" /\ ~ConfiguredRoot(ahRequest[p]) => FilesOf[ahRequest[p].bot] \subseteq assets

\* Only a retry under a mirror sees the official endpoint.
EndpointHeld(p) ==
    IF ahAt[p] = "retry" THEN mirror /\ endpoint[p] = "official"
    ELSE endpoint[p] = IF mirror THEN "mirror" ELSE "unset"

AhInv ==
    /\ AhTypes /\ MarkedIsWhole
    /\ \A p \in AhProc : Queue(p) /\ Kept(p) /\ BotHeld(p) /\ EndpointHeld(p)

DirTargets == {DirTarget(d) : d \in AhDirs}

LEMMA TargetKinds ==
  /\ \A t \in DirTargets : t \in Targets /\ t.kind = "dir"
  /\ \A d \in AhDirs : DirTarget(d) \in DirTargets
  /\ \A f : FileTarget(f).kind = "file" /\ FileTarget(f).name = f
  /\ \A t \in Targets : \/ t.kind = "dir" /\ t.name \in AhDirs /\ t = DirTarget(t.name)
                        \/ t.kind = "file" /\ t.name \in AhMotions /\ t = FileTarget(t.name)
  BY DEF DirTargets, Targets, DirTarget, FileTarget

\* A sequence of directories, as targets.
LEMMA DirsAsTargets ==
  ASSUME NEW s \in Seq(AhDirs)
  PROVE  [i \in 1 .. Len(s) |-> DirTarget(s[i])] \in Seq(DirTargets)
<1>1. \A i \in 1 .. Len(s) : DirTarget(s[i]) \in DirTargets
  BY TargetKinds, ElementOfSeq
<1>2. Len(s) \in Nat
  BY LenProperties
<1>3. [i \in 1 .. Len(s) |-> DirTarget(s[i])] \in [1 .. Len(s) -> DirTargets]
  BY <1>1
<1> QED
  BY <1>2, <1>3, SeqDef

LEMMA PathTargets ==
  ASSUME NEW path \in Seq(STRING)
  PROVE  DirsOfPath(path) \in Seq(DirTargets)
<1>1. CASE RobotsIn(path) = {}
  <2>1. <<>> \in Seq(DirTargets)
    OBVIOUS
  <2> QED
    BY <1>1, <2>1, Zenon DEF DirsOfPath
<1>2. CASE RobotsIn(path) # {}
  <2>1. RobotsIn(path) \in SUBSET Nat
    BY LenProperties, SMT DEF RobotsIn
  <2>2. PICK i \in RobotsIn(path) : \A j \in RobotsIn(path) : i <= j
    BY <1>2, <2>1, SmallestOf
  <2>3. (CHOOSE k \in RobotsIn(path) : \A j \in RobotsIn(path) : k <= j) \in RobotsIn(path)
    BY <2>2, Zenon
  <2>4. RobotOf(path) \in DOMAIN RobotSpecs
    BY <2>3, Zenon DEF RobotsIn, RobotOf
  <2>5. RobotSpecs[RobotOf(path)] \in Seq(AhDirs)
    BY <2>4, AhAssumption, Zenon
  <2>6. DirsOfPath(path) =
          [n \in 1 .. Len(RobotSpecs[RobotOf(path)]) |-> DirTarget(RobotSpecs[RobotOf(path)][n])]
    BY <1>2, Zenon DEF DirsOfPath
  <2> QED
    BY <2>5, <2>6, DirsAsTargets, Zenon
<1> QED
  BY <1>1, <1>2

\* What a request names: its files in order, or directories.
LEMMA RequestTargets ==
  ASSUME NEW r \in AhRequests
  PROVE  /\ TargetsOf(r) \in Seq(Targets)
         /\ r.kind = "files" => /\ Len(TargetsOf(r)) = Len(r.paths)
                                /\ \A i \in DOMAIN TargetsOf(r) : TargetsOf(r)[i] = FileTarget(r.paths[i].file)
         /\ r.kind # "files" => \A i \in DOMAIN TargetsOf(r) : TargetsOf(r)[i].kind = "dir"
<1>1. CASE r.kind = "files"
  <2>1. r.paths \in Seq(AhPaths)
    BY <1>1, AhAssumption
  <2>2. TargetsOf(r) = [i \in 1 .. Len(r.paths) |-> FileTarget(r.paths[i].file)]
    BY <1>1 DEF TargetsOf
  <2>3. Len(r.paths) \in Nat
    BY <2>1, LenProperties
  <2>4. ASSUME NEW i \in 1 .. Len(r.paths) PROVE FileTarget(r.paths[i].file) \in Targets
    <3>1. r.paths[i] \in AhPaths
      BY <2>1, ElementOfSeq
    <3>2. r.paths[i].file \in AhMotions
      BY <3>1 DEF AhPaths
    <3> QED
      BY <3>2 DEF Targets
  <2>5. TargetsOf(r) \in [1 .. Len(r.paths) -> Targets]
    BY <2>2, <2>4
  <2>6. TargetsOf(r) \in Seq(Targets) /\ Len(TargetsOf(r)) = Len(r.paths)
    BY <2>3, <2>5, SeqDef, LenProperties
  <2> QED
    BY <1>1, <2>2, <2>6
<1>2. CASE r.kind # "files"
  <2>1. TargetsOf(r) \in Seq(DirTargets)
    <3>1. CASE r.kind = "robots"
      <4>1. DirsOfPath(r.first) \in Seq(DirTargets) /\ DirsOfPath(r.second) \in Seq(DirTargets)
        BY <3>1, AhAssumption, PathTargets
      <4>2. TargetsOf(r) = DirsOfPath(r.first) \o DirsOfPath(r.second)
        BY <3>1 DEF TargetsOf, Concat
      <4> QED
        BY <4>1, <4>2, ConcatProperties
    <3>2. CASE r.kind = "scene"
      <4>1. TargetsOf(r) = <<DirTarget(r.dir)>> /\ DirTarget(r.dir) \in DirTargets
        BY <3>2, AhAssumption, TargetKinds DEF TargetsOf
      <4> QED
        BY <4>1
    <3>3. CASE r.kind = "bot"
      <4>1. TargetsOf(r) = <<DirTarget(r.bot)>> /\ DirTarget(r.bot) \in DirTargets
        BY <3>3, AhAssumption, TargetKinds DEF TargetsOf
      <4> QED
        BY <4>1
    <3> QED
      BY <1>2, <3>1, <3>2, <3>3, AhAssumption
  <2>2. \A i \in DOMAIN TargetsOf(r) : TargetsOf(r)[i] \in DirTargets
    BY <2>1, ElementOfSeq, LenProperties
  <2>3. TargetsOf(r) \in Seq(Targets)
    <3>1. DirTargets \subseteq Targets
      BY TargetKinds
    <3>2. PICK n \in Nat : TargetsOf(r) \in [1 .. n -> DirTargets]
      BY <2>1, SeqDef
    <3>3. TargetsOf(r) \in [1 .. n -> Targets]
      BY <3>1, <3>2
    <3> QED
      BY <3>3, SeqDef
  <2> QED
    BY <1>2, <2>2, <2>3, TargetKinds
<1> QED
  BY <1>1, <1>2

\* The first target of a process, and what it is.
LEMMA FirstTarget ==
  ASSUME AhTypes, NEW p \in AhProc, ahTodo[p] # <<>>
  PROVE  /\ Head(ahTodo[p]) \in Targets /\ Head(ahTodo[p]) = ahTodo[p][1] /\ 1 \in DOMAIN ahTodo[p]
         /\ Tail(ahTodo[p]) \in Seq(Targets)
         /\ Len(Tail(ahTodo[p])) = Len(ahTodo[p]) - 1
         /\ \A i \in DOMAIN Tail(ahTodo[p]) : /\ i + 1 \in DOMAIN ahTodo[p]
                                              /\ Tail(ahTodo[p])[i] = ahTodo[p][i + 1]
<1>1. ahTodo[p] \in Seq(Targets)
  BY DEF AhTypes
<1>2. Head(ahTodo[p]) \in Targets /\ Tail(ahTodo[p]) \in Seq(Targets)
  BY <1>1, HeadTailProperties
<1> QED
  BY <1>1, <1>2, SMT

\* The file a process looks for is the one its next target names.
LEMMA NextPath ==
  ASSUME AhTypes, NEW p \in AhProc, Queue(p), ahAt[p] = "resolve", ahTodo[p] # <<>>
  PROVE  Head(ahTodo[p]).kind = "file" => PathOf(p).file = Head(ahTodo[p]).name
<1>1. Head(ahTodo[p]) = ahTodo[p][1] /\ 1 \in DOMAIN ahTodo[p]
  BY FirstTarget
<1>2. CASE ahRequest[p].kind = "files"
  <2>1. ahTodo[p][1] = FileTarget(ahRequest[p].paths[Len(ahRequest[p].paths) - Len(ahTodo[p]) + 1].file)
    BY <1>1, <1>2 DEF Queue, Working
  <2> DEFINE f == ahRequest[p].paths[Len(ahRequest[p].paths) - Len(ahTodo[p]) + 1].file
  <2>2. FileTarget(f).name = f
    BY TargetKinds, Zenon
  <2>3. PathOf(p).file = f
    BY DEF PathOf
  <2> HIDE DEF f
  <2> QED
    BY <1>1, <2>1, <2>2, <2>3, Zenon DEF f
<1>3. CASE ahRequest[p].kind # "files"
  <2>1. ahTodo[p][1].kind = "dir"
    BY <1>1, <1>3 DEF Queue, Working
  <2> QED
    BY <1>1, <2>1
<1> QED
  BY <1>2, <1>3

\* A queue with its first target gone is again the last part of its request.
LEMMA QueueAdvances ==
  ASSUME AhTypes, NEW p \in AhProc, Queue(p), ahAt[p] \in Working, ahTodo[p] # <<>>,
         ahRequest' = ahRequest, ahTodo'[p] = Tail(ahTodo[p]), ahAt'[p] = "resolve"
  PROVE  Queue(p)'
<1>1. /\ Len(Tail(ahTodo[p])) = Len(ahTodo[p]) - 1
      /\ \A i \in DOMAIN Tail(ahTodo[p]) : /\ i + 1 \in DOMAIN ahTodo[p]
                                           /\ Tail(ahTodo[p])[i] = ahTodo[p][i + 1]
      /\ Len(ahTodo[p]) \in Nat /\ Tail(ahTodo[p]) \in Seq(Targets)
  BY FirstTarget, LenProperties DEF AhTypes
<1>2. ahRequest[p] \in AhRequests /\ ahAt'[p] \notin Fetching
  BY DEF Queue, Fetching
<1>3. CASE ahRequest[p].kind = "files"
  <2>1. Len(ahRequest[p].paths) \in Nat
    BY <1>2, <1>3, AhAssumption, LenProperties
  <2>2. /\ Len(ahTodo[p]) <= Len(ahRequest[p].paths)
        /\ \A i \in DOMAIN ahTodo[p] :
               ahTodo[p][i] = FileTarget(ahRequest[p].paths[Len(ahRequest[p].paths) - Len(ahTodo[p]) + i].file)
    BY <1>3 DEF Queue
  <2>3. Len(Tail(ahTodo[p])) <= Len(ahRequest[p].paths)
    BY <1>1, <2>1, <2>2, SMT
  <2>4. ASSUME NEW i \in DOMAIN Tail(ahTodo[p])
        PROVE  Tail(ahTodo[p])[i] =
                 FileTarget(ahRequest[p].paths[Len(ahRequest[p].paths) - Len(Tail(ahTodo[p])) + i].file)
    <3>1. i \in Nat
      BY <1>1, LenProperties, SMT
    <3>2. Len(ahRequest[p].paths) - Len(ahTodo[p]) + (i + 1) = Len(ahRequest[p].paths) - Len(Tail(ahTodo[p])) + i
      <4>1. \A n, a, k \in Int : n - a + (k + 1) = n - (a - 1) + k
        OBVIOUS
      <4>2. Len(ahRequest[p].paths) \in Int /\ Len(ahTodo[p]) \in Int /\ i \in Int
        BY <1>1, <2>1, <3>1, SMT
      <4>3. Len(ahRequest[p].paths) - Len(ahTodo[p]) + (i + 1) = Len(ahRequest[p].paths) - (Len(ahTodo[p]) - 1) + i
        BY <4>1, <4>2, Zenon
      <4> QED
        BY <1>1, <4>3
    <3> QED
      BY <1>1, <2>2, <3>2, Zenon
  <2> QED
    BY <1>2, <1>3, <2>3, <2>4 DEF Queue
<1>4. CASE ahRequest[p].kind # "files"
  <2>1. \A i \in DOMAIN ahTodo[p] : ahTodo[p][i].kind = "dir"
    BY <1>4 DEF Queue
  <2> QED
    BY <1>1, <1>2, <1>4, <2>1 DEF Queue
<1> QED
  BY <1>3, <1>4

------------------------------------------------------------------------------
(* One process acts; the others are as they were.                             *)

\* A process that does not act keeps what is said of it, as assets grow and more is cut.
LEMMA OthersKeep ==
  ASSUME NEW p \in AhProc, Queue(p), Kept(p), BotHeld(p), EndpointHeld(p),
         ahAt'[p] = ahAt[p], ahRequest'[p] = ahRequest[p], ahTodo'[p] = ahTodo[p],
         endpoint'[p] = endpoint[p], promised'[p] = promised[p], beside'[p] = beside[p],
         assets \subseteq assets', cut \subseteq cut', UNCHANGED ahenv
  PROVE  Queue(p)' /\ Kept(p)' /\ BotHeld(p)' /\ EndpointHeld(p)'
<1>1. here' = here /\ checkout' = checkout /\ mirror' = mirror
  BY DEF ahenv
<1>2. Queue(p)'
  BY DEF Queue
<1>3. Kept(p)'
  BY <1>1 DEF Kept, OnDisk
<1>4. BotHeld(p)'
  BY <1>1 DEF BotHeld
<1>5. EndpointHeld(p)'
  BY <1>1 DEF EndpointHeld
<1> QED
  BY <1>2, <1>3, <1>4, <1>5

\* A directory stays whole, cut or on its way while no process leaves its download.
LEMMA MarkedKeeps ==
  ASSUME MarkedIsWhole, assets' = assets, cut \subseteq cut',
         \A q \in AhProc : ahAt[q] \in Fetching =>
            \/ ahAt'[q] \in Fetching /\ Head(ahTodo'[q]) = Head(ahTodo[q])
            \/ Head(ahTodo[q]) \in cut'
            \/ FilesOfTarget(Head(ahTodo[q])) \subseteq assets
  PROVE  MarkedIsWhole'
<1> SUFFICES ASSUME NEW d \in AhDirs, MarkerOf[d] \in assets
             PROVE  FilesOf[d] \subseteq assets \/ DirTarget(d) \in cut' \/ Underway(d)'
  BY DEF MarkedIsWhole
<1>1. FilesOf[d] \subseteq assets \/ DirTarget(d) \in cut \/ Underway(d)
  BY DEF MarkedIsWhole
<1>2. ASSUME NEW q \in AhProc, ahAt[q] \in Fetching, Head(ahTodo[q]) = DirTarget(d)
      PROVE  FilesOf[d] \subseteq assets \/ DirTarget(d) \in cut' \/ Underway(d)'
  <2>1. FilesOfTarget(DirTarget(d)) = FilesOf[d]
    BY DEF FilesOfTarget, DirTarget
  <2> QED
    BY <1>2, <2>1 DEF Underway
<1> QED
  BY <1>1, <1>2 DEF Underway

LEMMA Ask_Holds ==
  ASSUME AhInv, NEW p \in AhProc, NEW request \in AhRequests, Ask(p, request)
  PROVE  AhInv'
<1> DEFINE skips == request.kind = "bot" /\ ConfiguredRoot(request)
           at == IF RefusedAtOnce(request) THEN "raised" ELSE "resolve"
           todo == IF skips THEN <<>> ELSE TargetsOf(request)
<1>1. /\ ahAt[p] \in {"idle", "returned", "raised"}
      /\ ahAt' = [ahAt EXCEPT ![p] = at] /\ ahRequest' = [ahRequest EXCEPT ![p] = request]
      /\ ahTodo' = [ahTodo EXCEPT ![p] = todo] /\ promised' = [promised EXCEPT ![p] = {}]
      /\ beside' = [beside EXCEPT ![p] = {}]
      /\ assets' = assets /\ UNCHANGED ahenv /\ endpoint' = endpoint /\ cut' = cut
  BY Zenon DEF Ask
<1>2. at \in {"raised", "resolve"}
  OBVIOUS
<1>3. todo \in Seq(Targets)
  BY RequestTargets
<1> USE DEF AhInv
<1>4. AhTypes'
  BY <1>1, <1>2, <1>3, SMT DEF AhTypes, ahenv, Working
<1>5. MarkedIsWhole'
  BY <1>1, MarkedKeeps, SMT DEF AhTypes, Fetching
<1>6. ASSUME NEW q \in AhProc PROVE Queue(q)' /\ Kept(q)' /\ BotHeld(q)' /\ EndpointHeld(q)'
  <2>1. CASE q # p
    BY <1>1, <2>1, OthersKeep, SMT DEF AhTypes
  <2>2. CASE q = p
    <3>1. ahAt'[p] = at /\ ahRequest'[p] = request /\ ahTodo'[p] = todo /\ promised'[p] = {}
      BY <1>1 DEF AhTypes
    <3>2. mirror' = mirror /\ checkout' = checkout
      BY <1>1 DEF ahenv
    <3>3. Queue(p)'
      <4>1. CASE skips
        BY <1>2, <3>1, <4>1, SMT DEF Queue, Working, Fetching
      <4>2. CASE ~skips
        <5>1. todo = TargetsOf(request)
          BY <4>2
        <5>2. at \notin Fetching
          BY <1>2 DEF Fetching
        <5> HIDE DEF todo, at
        <5>3. CASE request.kind = "files"
          <6>1. request.paths \in Seq(AhPaths)
            BY <5>3, AhAssumption
          <6>2. Len(todo) = Len(request.paths) /\ Len(request.paths) \in Nat
            BY <5>1, <5>3, <6>1, RequestTargets, LenProperties
          <6>3. ASSUME NEW i \in DOMAIN todo
                PROVE  todo[i] = FileTarget(request.paths[Len(request.paths) - Len(todo) + i].file)
            <7>1. i \in Nat
              BY <1>3, LenProperties, SMT
            <7>2. Len(request.paths) - Len(todo) + i = i
              BY <6>2, <7>1, SMT
            <7> QED
              BY <5>1, <5>3, <7>2, RequestTargets, Zenon
          <6> QED
            BY <3>1, <5>2, <5>3, <6>2, <6>3, SMT DEF Queue
        <5>4. CASE request.kind # "files"
          BY <3>1, <5>1, <5>2, <5>4, RequestTargets, Zenon DEF Queue
        <5> QED
          BY <5>3, <5>4
      <4> QED
        BY <4>1, <4>2
    <3>4. Kept(p)'
      BY <3>1 DEF Kept
    <3>5. BotHeld(p)'
      <4> SUFFICES ASSUME request.kind = "bot"
                   PROVE  /\ at \in Working \cup {"returned"} /\ ConfiguredRoot(request) =>
                                FilesOf[request.bot] \subseteq checkout
                          /\ at # "returned"
        BY <3>1, <3>2, Zenon DEF BotHeld
      <4>1. ConfiguredRoot(request) /\ ~CheckoutAccepts(request) => RefusedAtOnce(request)
        BY Zenon DEF RefusedAtOnce
      <4>2. at \in Working \cup {"returned"} => ~RefusedAtOnce(request)
        BY SMT DEF Working
      <4> QED
        BY <1>2, <4>1, <4>2 DEF CheckoutAccepts
    <3>6. EndpointHeld(p)'
      <4>1. ahAt'[p] # "retry" /\ ahAt[p] # "retry" /\ endpoint'[p] = endpoint[p]
        BY <1>1, <1>2, <3>1
      <4> QED
        BY <3>2, <4>1, Zenon DEF EndpointHeld
    <3> QED
      BY <2>2, <3>3, <3>4, <3>5, <3>6
  <2> QED
    BY <2>1, <2>2
<1> QED
  BY <1>4, <1>5, <1>6

LEMMA FindLocal_Holds ==
  ASSUME AhInv, NEW p \in AhProc, FindLocal(p)
  PROVE  AhInv'
<1> DEFINE t == Head(ahTodo[p])
<1>1. /\ ahAt[p] = "resolve" /\ ahTodo[p] # <<>>
      /\ IF t.kind = "file" THEN FoundFile(PathOf(p)) ELSE Found(t)
      /\ promised' = [promised EXCEPT ![p] = promised[p] \cup {t}]
      /\ beside' = [beside EXCEPT ![p] = beside[p] \cup ({t} \cap UnderWay(p))]
      /\ ahTodo' = [ahTodo EXCEPT ![p] = Tail(ahTodo[p])]
      /\ ahAt' = [ahAt EXCEPT ![p] = "resolve"]
      /\ assets' = assets /\ UNCHANGED ahenv /\ ahRequest' = ahRequest /\ endpoint' = endpoint /\ cut' = cut
  BY Zenon DEF FindLocal, Advance
<1> USE DEF AhInv
<1>2. t \in Targets /\ Tail(ahTodo[p]) \in Seq(Targets)
  BY <1>1, FirstTarget
<1> HIDE DEF t
<1>3. AhTypes'
  <2>1. promised[p] \cup {t} \in SUBSET Targets /\ beside[p] \cup ({t} \cap UnderWay(p)) \in SUBSET Targets
    BY <1>2 DEF AhTypes
  <2> HIDE DEF UnderWay
  <2> QED
    BY <1>1, <1>2, <2>1, SMT DEF AhTypes, ahenv, Working
<1>4. MarkedIsWhole'
  BY <1>1, MarkedKeeps, SMT DEF AhTypes, Fetching
<1>5. t \in cut \/ t \in UnderWay(p) \/ OnDisk(t)
  <2>1. CASE t.kind = "file"
    <3>1. PathOf(p).file = t.name /\ t.name \in here \cup assets
      BY <1>1, <2>1, NextPath, Zenon DEF FoundFile, t
    <3> QED
      BY <2>1, <3>1 DEF OnDisk, FilesOfTarget
  <2>2. CASE t.kind = "dir"
    <3>1. t.name \in AhDirs /\ t = DirTarget(t.name) /\ MarkerOf[t.name] \in assets
      BY <1>1, <1>2, <2>2, TargetKinds DEF Found
    <3>2. FilesOf[t.name] \subseteq assets \/ t \in cut \/ Underway(t.name)
      BY <3>1 DEF MarkedIsWhole
    <3>3. Underway(t.name) => t \in UnderWay(p)
      BY <1>1, <3>1 DEF Underway, UnderWay, Fetching
    <3> QED
      BY <2>2, <3>2, <3>3 DEF OnDisk, FilesOfTarget
  <2> QED
    BY <1>2, <2>1, <2>2, TargetKinds
<1>6. ASSUME NEW q \in AhProc PROVE Queue(q)' /\ Kept(q)' /\ BotHeld(q)' /\ EndpointHeld(q)'
  <2>1. CASE q # p
    BY <1>1, <2>1, OthersKeep, SMT DEF AhTypes
  <2>2. CASE q = p
    <3>1. /\ ahAt'[p] = "resolve" /\ ahTodo'[p] = Tail(ahTodo[p])
          /\ promised'[p] = promised[p] \cup {t} /\ beside'[p] = beside[p] \cup ({t} \cap UnderWay(p))
      BY <1>1 DEF AhTypes
    <3>2. here' = here /\ mirror' = mirror /\ checkout' = checkout
      BY <1>1 DEF ahenv
    <3>3. Queue(p)'
      BY <1>1, <3>1, QueueAdvances DEF Working
    <3>4. Kept(p)'
      BY <1>1, <1>5, <3>1, <3>2 DEF Kept, OnDisk
    <3>5. BotHeld(p)'
      BY <1>1, <3>1, <3>2, SMT DEF BotHeld, Working
    <3>6. EndpointHeld(p)'
      BY <1>1, <3>1, <3>2, SMT DEF EndpointHeld
    <3> QED
      BY <2>2, <3>3, <3>4, <3>5, <3>6
  <2> QED
    BY <2>1, <2>2
<1> QED
  BY <1>3, <1>4, <1>6

\* A process that moves on without a target found or fetched.
LEMMA MovesOn ==
  ASSUME AhInv, NEW p \in AhProc, NEW at, ahAt' = [ahAt EXCEPT ![p] = at],
         \/ ahAt[p] = "resolve" /\ ahTodo[p] # <<>> /\ at \in {"raised", "download"}
         \/ ahAt[p] = "resolve" /\ at = "raised"
         \/ ahAt[p] = "resolve" /\ at = "returned" /\ BotComplete(p),
         UNCHANGED <<assets, ahenv, ahRequest, ahTodo, endpoint, promised, cut, beside>>
  PROVE  AhInv'
<1> USE DEF AhInv
<1>1. /\ at \in {"raised", "download", "returned"} /\ ahAt[p] = "resolve" /\ ahAt'[p] = at
      /\ at = "download" => ahTodo[p] # <<>>
      /\ at = "returned" => BotComplete(p)
  BY DEF AhTypes
<1>2. AhTypes'
  BY <1>1, SMT DEF AhTypes, ahenv, Working
<1>3. MarkedIsWhole'
  BY <1>1, MarkedKeeps, SMT DEF AhTypes, Fetching
<1>4. ASSUME NEW q \in AhProc PROVE Queue(q)' /\ Kept(q)' /\ BotHeld(q)' /\ EndpointHeld(q)'
  <2>1. CASE q # p
    BY <2>1, OthersKeep, SMT DEF AhTypes
  <2>2. CASE q = p
    <3>1. here' = here /\ mirror' = mirror /\ checkout' = checkout
      BY DEF ahenv
    <3>2. Queue(p)'
      BY <1>1, SMT DEF Queue, Working, Fetching
    <3>3. Kept(p)'
      BY <3>1 DEF Kept, OnDisk
    <3>4. BotHeld(p)'
      BY <1>1, <3>1, SMT DEF BotHeld, Working, BotComplete
    <3>5. EndpointHeld(p)'
      BY <1>1, <3>1, SMT DEF EndpointHeld
    <3> QED
      BY <2>2, <3>2, <3>3, <3>4, <3>5
  <2> QED
    BY <2>1, <2>2
<1> QED
  BY <1>2, <1>3, <1>4

\* A file of one directory is the marker of no other.
LEMMA FileArrives_Holds ==
  ASSUME AhInv, NEW p \in AhProc, NEW f, FileArrives(p, f)
  PROVE  AhInv'
<1> USE DEF AhInv
<1>1. /\ ahAt[p] \in Fetching /\ f \in FilesOfTarget(Head(ahTodo[p])) /\ assets' = assets \cup {f}
      /\ UNCHANGED <<ahenv, ahAt, ahRequest, ahTodo, endpoint, promised, cut, beside>>
  BY DEF FileArrives, Fetching
<1>2. AhTypes'
  BY <1>1 DEF AhTypes, ahenv
<1>3. MarkedIsWhole'
  <2> SUFFICES ASSUME NEW d \in AhDirs, MarkerOf[d] \in assets'
               PROVE  FilesOf[d] \subseteq assets' \/ DirTarget(d) \in cut \/ Underway(d)
    BY <1>1 DEF MarkedIsWhole, Underway
  <2>1. CASE MarkerOf[d] \in assets
    BY <1>1, <2>1 DEF MarkedIsWhole
  <2>2. CASE MarkerOf[d] = f
    <3>1. ahTodo[p] # <<>>
      BY <1>1 DEF Queue, Working, Fetching
    <3>2. Head(ahTodo[p]) \in Targets
      BY <3>1, FirstTarget
    <3>3. Head(ahTodo[p]) = DirTarget(d)
      <4>1. CASE Head(ahTodo[p]).kind = "dir"
        <5>1. PICK e \in AhDirs : Head(ahTodo[p]) = DirTarget(e)
          BY <3>2, <4>1, TargetKinds
        <5>2. FilesOfTarget(DirTarget(e)) = FilesOf[e]
          BY DEF FilesOfTarget, DirTarget
        <5>3. MarkerOf[d] \in FilesOf[e]
          BY <1>1, <2>2, <5>1, <5>2
        <5>4. e = d
          BY <5>3, AhAssumption
        <5> QED
          BY <5>1, <5>4
      <4>2. CASE Head(ahTodo[p]).kind = "file"
        BY <1>1, <2>2, <3>2, <4>2, TargetKinds, AhAssumption DEF FilesOfTarget
      <4> QED
        BY <3>2, <4>1, <4>2, TargetKinds
    <3> QED
      BY <1>1, <3>3 DEF Underway
  <2> QED
    BY <1>1, <2>1, <2>2
<1>4. ASSUME NEW q \in AhProc PROVE Queue(q)' /\ Kept(q)' /\ BotHeld(q)' /\ EndpointHeld(q)'
  BY <1>1, OthersKeep
<1> QED
  BY <1>2, <1>3, <1>4

LEMMA DownloadEnds_Holds ==
  ASSUME AhInv, NEW p \in AhProc, DownloadEnds(p)
  PROVE  AhInv'
<1> DEFINE t == Head(ahTodo[p])
<1>1. /\ ahAt[p] \in Fetching /\ FilesOfTarget(t) \subseteq assets
      /\ promised' = [promised EXCEPT ![p] = promised[p] \cup {t}]
      /\ endpoint' = [endpoint EXCEPT ![p] = EndpointAfter(p)]
      /\ ahTodo' = [ahTodo EXCEPT ![p] = Tail(ahTodo[p])]
      /\ ahAt' = [ahAt EXCEPT ![p] = "resolve"]
      /\ assets' = assets /\ UNCHANGED ahenv /\ ahRequest' = ahRequest /\ cut' = cut /\ beside' = beside
  BY Zenon DEF DownloadEnds, Advance, Fetching
<1> USE DEF AhInv
<1>2. ahAt[p] \in Working /\ ahTodo[p] # <<>>
  BY <1>1 DEF Queue, Working, Fetching
<1>3. t \in Targets /\ Tail(ahTodo[p]) \in Seq(Targets)
  BY <1>2, FirstTarget
<1> HIDE DEF t
<1>4. EndpointAfter(p) = IF mirror THEN "mirror" ELSE "unset"
  BY SMT DEF EndpointAfter, EndpointHeld
<1>5. AhTypes'
  <2>1. promised[p] \cup {t} \in SUBSET Targets /\ EndpointAfter(p) \in {"mirror", "unset", "official"}
    BY <1>3, <1>4 DEF AhTypes
  <2> QED
    BY <1>1, <1>3, <2>1, SMT DEF AhTypes, ahenv, Working
<1>6. MarkedIsWhole'
  BY <1>1, MarkedKeeps, SMT DEF AhTypes, t
<1>7. ASSUME NEW q \in AhProc PROVE Queue(q)' /\ Kept(q)' /\ BotHeld(q)' /\ EndpointHeld(q)'
  <2>1. CASE q # p
    BY <1>1, <2>1, OthersKeep, SMT DEF AhTypes
  <2>2. CASE q = p
    <3>1. /\ ahAt'[p] = "resolve" /\ ahTodo'[p] = Tail(ahTodo[p]) /\ promised'[p] = promised[p] \cup {t}
          /\ endpoint'[p] = EndpointAfter(p)
      BY <1>1 DEF AhTypes
    <3>2. here' = here /\ mirror' = mirror /\ checkout' = checkout
      BY <1>1 DEF ahenv
    <3>3. Queue(p)'
      BY <1>1, <1>2, <3>1, QueueAdvances
    <3>4. Kept(p)'
      BY <1>1, <3>1, <3>2 DEF Kept, OnDisk
    <3>5. BotHeld(p)'
      BY <1>1, <1>2, <3>1, <3>2, SMT DEF BotHeld, Working
    <3>6. EndpointHeld(p)'
      BY <1>4, <3>1, <3>2, SMT DEF EndpointHeld
    <3> QED
      BY <2>2, <3>3, <3>4, <3>5, <3>6
  <2> QED
    BY <2>1, <2>2
<1> QED
  BY <1>5, <1>6, <1>7

LEMMA DownloadFails_Holds ==
  ASSUME AhInv, NEW p \in AhProc, DownloadFails(p)
  PROVE  AhInv'
<1> DEFINE again == ahAt[p] = "download" /\ endpoint[p] = "mirror"
           at == IF again THEN "retry" ELSE "raised"
           after == IF again THEN "official" ELSE EndpointAfter(p)
           t == Head(ahTodo[p])
<1>1. /\ ahAt[p] \in Fetching /\ ahAt' = [ahAt EXCEPT ![p] = at] /\ endpoint' = [endpoint EXCEPT ![p] = after]
      /\ cut' = cut \cup {t}
      /\ UNCHANGED <<assets, ahenv, ahRequest, ahTodo, promised, beside>>
  BY Zenon DEF DownloadFails, Fetching
<1> USE DEF AhInv
<1>2. ahAt[p] \in Working /\ ahTodo[p] # <<>>
  BY <1>1 DEF Queue, Working, Fetching
<1>3. t \in Targets
  BY <1>2, FirstTarget
<1>4. /\ at \in {"retry", "raised"}
      /\ IF at = "retry" THEN mirror /\ after = "official" ELSE after = IF mirror THEN "mirror" ELSE "unset"
  BY SMT DEF EndpointAfter, EndpointHeld
<1> HIDE DEF t, at, after
<1>5. AhTypes'
  BY <1>1, <1>3, <1>4, SMT DEF AhTypes, ahenv, Working
<1>6. MarkedIsWhole'
  <2>1. t \in cut' /\ assets' = assets /\ cut \subseteq cut'
    BY <1>1
  <2> QED
    BY <1>1, <2>1, MarkedKeeps, SMT DEF AhTypes, t
<1>7. ASSUME NEW q \in AhProc PROVE Queue(q)' /\ Kept(q)' /\ BotHeld(q)' /\ EndpointHeld(q)'
  <2>1. CASE q # p
    BY <1>1, <2>1, OthersKeep, SMT DEF AhTypes
  <2>2. CASE q = p
    <3>1. ahAt'[p] = at /\ endpoint'[p] = after
      BY <1>1 DEF AhTypes
    <3>2. here' = here /\ mirror' = mirror /\ checkout' = checkout
      BY <1>1 DEF ahenv
    <3>3. Queue(p)'
      BY <1>1, <1>2, <1>4, <3>1, SMT DEF Queue, Working, Fetching
    <3>4. Kept(p)'
      BY <1>1, <3>2 DEF Kept, OnDisk
    <3>5. BotHeld(p)'
      BY <1>1, <1>2, <1>4, <3>1, <3>2, SMT DEF BotHeld, Working
    <3>6. EndpointHeld(p)'
      BY <1>4, <3>1, <3>2, SMT DEF EndpointHeld
    <3> QED
      BY <2>2, <3>3, <3>4, <3>5, <3>6
  <2> QED
    BY <2>1, <2>2
<1> QED
  BY <1>5, <1>6, <1>7

LEMMA Killed_Holds ==
  ASSUME AhInv, NEW p \in AhProc, KilledResolving(p)
  PROVE  AhInv'
<1> DEFINE t == Head(ahTodo[p])
           fresh == IF mirror THEN "mirror" ELSE "unset"
<1>1. /\ ahAt[p] \in Working
      /\ ahAt' = [ahAt EXCEPT ![p] = "idle"] /\ ahTodo' = [ahTodo EXCEPT ![p] = <<>>]
      /\ endpoint' = [endpoint EXCEPT ![p] = fresh]
      /\ promised' = [promised EXCEPT ![p] = {}] /\ beside' = [beside EXCEPT ![p] = {}]
      /\ UNCHANGED <<assets, ahenv, ahRequest>>
  BY Zenon DEF KilledResolving, Working
<1>2. cut' = IF ahAt[p] = "resolve" THEN cut ELSE cut \cup {t}
  BY Zenon DEF KilledResolving
<1> USE DEF AhInv
<1>3. ahAt[p] \in Fetching => ahTodo[p] # <<>> /\ t \in Targets /\ t \in cut'
  BY <1>1, <1>2, FirstTarget DEF Queue, Fetching
<1>4. cut \subseteq cut' /\ cut' \subseteq Targets
  BY <1>1, <1>2, <1>3, SMT DEF AhTypes, Working, Fetching
<1> HIDE DEF t
<1>5. AhTypes'
  <2>1. <<>> \in Seq(Targets) /\ fresh \in {"mirror", "unset", "official"}
    OBVIOUS
  <2> QED
    BY <1>1, <1>4, <2>1, SMT DEF AhTypes, ahenv, Working
<1>6. MarkedIsWhole'
  BY <1>1, <1>3, <1>4, MarkedKeeps, SMT DEF AhTypes, Fetching, t
<1>7. ASSUME NEW q \in AhProc PROVE Queue(q)' /\ Kept(q)' /\ BotHeld(q)' /\ EndpointHeld(q)'
  <2>1. CASE q # p
    BY <1>1, <1>4, <2>1, OthersKeep, SMT DEF AhTypes
  <2>2. CASE q = p
    <3>1. ahAt'[p] = "idle" /\ endpoint'[p] = fresh /\ promised'[p] = {}
      BY <1>1 DEF AhTypes
    <3>2. mirror' = mirror
      BY <1>1 DEF ahenv
    <3> QED
      BY <2>2, <3>1, <3>2, SMT DEF Queue, Kept, BotHeld, EndpointHeld, Working
  <2> QED
    BY <2>1, <2>2
<1> QED
  BY <1>5, <1>6, <1>7

LEMMA AhInit_Holds == AhInit => AhInv
<1> SUFFICES ASSUME AhInit PROVE AhInv
  OBVIOUS
<1> USE DEF AhInit
<1>1. <<>> \in Seq(Targets) /\ NoRequest.kind = "none"
  BY DEF NoRequest
<1>2. AhTypes
  <2>1. mirror \in BOOLEAN /\ cut = {}
    OBVIOUS
  <2>2. endpoint \in [AhProc -> {"mirror", "unset", "official"}]
    BY SMT
  <2>3. /\ ahAt \in [AhProc -> Working \cup {"idle", "returned", "raised"}]
        /\ ahRequest \in [AhProc -> AhRequests \cup {NoRequest}]
        /\ ahTodo \in [AhProc -> Seq(Targets)]
        /\ promised \in [AhProc -> SUBSET Targets] /\ beside \in [AhProc -> SUBSET Targets]
    BY <1>1
  <2> QED
    BY <2>1, <2>2, <2>3 DEF AhTypes
<1>3. MarkedIsWhole
  BY AhAssumption DEF MarkedIsWhole
<1>4. ASSUME NEW p \in AhProc PROVE Queue(p) /\ Kept(p) /\ BotHeld(p) /\ EndpointHeld(p)
  <2>1. ahAt[p] = "idle" /\ promised[p] = {} /\ endpoint[p] = IF mirror THEN "mirror" ELSE "unset"
    OBVIOUS
  <2> QED
    BY <2>1, SMT DEF Queue, Kept, BotHeld, EndpointHeld, Working
<1> QED
  BY <1>2, <1>3, <1>4 DEF AhInv

LEMMA AhInvariant == AhSpec => []AhInv
<1>1. AhInv /\ [AhNext]_ahvars => AhInv'
  <2> SUFFICES ASSUME AhInv, [AhNext]_ahvars PROVE AhInv'
    OBVIOUS
  <2>1. CASE UNCHANGED ahvars
    BY <2>1, Zenon DEF ahvars, AhInv, AhTypes, MarkedIsWhole, Underway, Queue, Kept, OnDisk, BotHeld, EndpointHeld
  <2>2. ASSUME NEW p \in AhProc, BeginDownload(p) \/ ReturnAssets(p) PROVE AhInv'
    <3>1. CASE BeginDownload(p)
      BY <3>1, MovesOn, Zenon DEF BeginDownload
    <3>2. CASE ReturnAssets(p)
      BY <3>2, MovesOn, Zenon DEF ReturnAssets
    <3> QED
      BY <2>2, <3>1, <3>2
  <2> QED
    BY <2>1, <2>2, Ask_Holds, FindLocal_Holds, FileArrives_Holds, DownloadEnds_Holds, DownloadFails_Holds,
       Killed_Holds DEF AhNext
<1> QED
  BY <1>1, AhInit_Holds, PTL DEF AhSpec

\* However many processes of a training resolve assets at once through hub.py, and
\* wherever they are killed: what a call returns is whole, unless it was cut short or on
\* its way, a bot always is, and HF_ENDPOINT is put back.
THEOREM AssetsStaySound == AhSpec => []AssetsSound
<1>1. AhInv => AssetsSound
  <2> SUFFICES ASSUME AhInv PROVE AssetsSound
    OBVIOUS
  <2>1. WholeUnlessCut
    BY DEF AhInv, Kept, WholeUnlessCut
  <2>2. BotsWhole
    BY Zenon DEF AhInv, BotHeld, BotsWhole
  <2>3. EndpointPutBack
    BY SMT DEF AhInv, EndpointHeld, EndpointPutBack
  <2> QED
    BY <2>1, <2>2, <2>3 DEF AssetsSound
<1> QED
  BY <1>1, AhInvariant, PTL

------------------------------------------------------------------------------
(* Placement                                                               *)

\* The place of process p in the list of launch l, what it sees before it is pinned, and
\* which GPU of that is its own.
Worker(l, p) == p # 0 /\ l.script = "ppo"
RankOf(l, p) == IF p = 0 THEN 0 ELSE IF l.script = "ppo" THEN p - 1 ELSE p
RemappedBy(l, visible) == [i \in DOMAIN l.devices |-> visible[l.devices[i] + 1]]
BaseOf(l, p) == IF Worker(l, p) THEN RemappedBy(l, l.mask) ELSE l.mask
IndexOf(l, p) ==
    IF Worker(l, p) THEN p - 1
    ELSE IF l.devices # <<>> THEN l.devices[RankOf(l, p) + 1] ELSE CudaIndex(l.device)
GpuOf(l, p) ==
    IF l.devices # <<>> THEN l.mask[l.devices[RankOf(l, p) + 1] + 1]
    ELSE IF l.device.type = "cuda" THEN Physical(l.mask, l.device) ELSE l.mask[1]

Listed(l) == IsSet(l.devices) /\ \A i \in DOMAIN l.devices : l.devices[i] < Len(l.mask)

\* Only ranks of a list of GPUs that exist are started.
Belongs(l, p) ==
    p # 0 => /\ l.script \in {"ppo", "offpolicy"} /\ Listed(l) /\ Len(l.devices) > 1
             /\ RankOf(l, p) < Len(l.devices)

\* The device a process computes on, once it has chosen it.
ChosenBy(l, p) ==
    IF Worker(l, p) THEN Cuda(p - 1)
    ELSE IF l.devices # <<>> THEN Cuda(l.devices[RankOf(l, p) + 1])
    ELSE IF l.device # NoDevice THEN l.device
    ELSE DefaultDevice(l.mask)
Genesis(l) == l.backend = "genesis"
BoundBy(l, p, s) ==
    IF s.pinned \/ (Genesis(l) /\ ChosenBy(l, p).type = "cuda") THEN Cuda(0) ELSE ChosenBy(l, p)

Early == {"topology", "pin", "launch", "waiting"}
Unbuilt == Early \cup {"device", "supervise", "build"}
DpPlaces == Unbuilt \cup {"absent", "training", "unwinding"} \cup Over

Sees(l, p, s) ==
    IF s.pinned
    THEN /\ Genesis(l) /\ IndexOf(l, p) > 0 /\ IndexOf(l, p) < Len(BaseOf(l, p))
         /\ s.visible = <<BaseOf(l, p)[IndexOf(l, p) + 1]>>
    ELSE s.visible = BaseOf(l, p)

Collects(l, s) == l.script = "appo" /\ s.collector.type = "cuda"
Simulated(l, s) == IF Collects(l, s) THEN Physical(s.visible, s.collector) ELSE s.learnerGpu

\* Which process this is, and what it sees.
Known(l, p, s) ==
    /\ Belongs(l, p) /\ s.rank = RankOf(l, p)
    /\ s.world = IF Worker(l, p) THEN Len(l.devices) ELSE 1
    /\ s.local = IF Worker(l, p) /\ ~s.pinned THEN p - 1 ELSE 0
    /\ Sees(l, p, s)

\* What a process has learned by the place it has reached.
Reached(l, p, s) ==
    /\ s.at \in Early => ~s.pinned
    /\ s.at \notin {"topology", "raised"} => IsSet(l.devices)
    /\ s.at \in {"launch", "waiting"} => l.script = "ppo" /\ Listed(l) /\ Len(l.devices) > 1
    /\ s.at = "supervise" => l.script = "offpolicy" /\ Len(l.devices) > 1
    /\ s.at \in {"device", "supervise", "build"} /\ Genesis(l) /\ ~s.pinned => IndexOf(l, p) <= 0

\* The device of a process that has chosen it, and of the collector that came along.
Bound(l, p, s) ==
    /\ s.device = BoundBy(l, p, s)
    /\ Genesis(l) /\ s.device.type = "cuda" /\ Collects(l, s) => s.collector = Cuda(0)

\* Where the learner and the simulator of a process that built them are.
Well(l, p, s) ==
    s.learnerGpu # NoIndex =>
        /\ s.learnerGpu = GpuOf(l, p)
        /\ s.simGpu # NoIndex => s.simGpu = Simulated(l, s)

Placed(l, p, s) ==
    s.at # "absent" =>
        /\ Known(l, p, s) /\ Reached(l, p, s)
        /\ s.at \in {"supervise", "build"} => Bound(l, p, s)
        /\ s.at \in Unbuilt => s.learnerGpu = NoIndex
        /\ Well(l, p, s)

\* Process 0 has the ranks it started, or has ended them.
NoOthers == \A p \in Procs \ {0} : dpProc[p].at = "absent"
Supervised ==
    /\ dpSupervised.ranks \subseteq Procs \ {0}
    /\ dpSupervised.ranks # {} =>
          /\ \A p \in Procs \ {0} : dpProc[p].at # "absent" => p \in dpSupervised.ranks
          /\ dpProc[0].at \notin {"topology", "pin", "launch", "device", "supervise"}
    /\ dpSupervised.ranks = {} =>
          \/ NoOthers
          \/ /\ dpProc[0].at \in Over
             /\ dpProc[0].at = "completed" => \A p \in Procs \ {0} : dpProc[p].at \in {"absent", "completed"}
    /\ dpLaunch.script = "ppo" /\ ~NoOthers => dpProc[0].at \in {"waiting"} \cup Over /\ dpProc[0].learnerGpu = NoIndex

Indices == Nat \cup {NoIndex}
DpDevs == [type : {"cuda", "cpu", "none"}, index : Indices]
DpRecs == [at : DpPlaces, rank : Nat, local : Nat, world : Nat, visible : Seq(Nat), pinned : BOOLEAN,
           context : BOOLEAN, device : DpDevs, collector : DpDevs, warned : BOOLEAN,
           learnerGpu : Indices, simGpu : Indices]
DpTypes ==
    /\ dpLaunch \in DpLaunches /\ dpProc \in [Procs -> DpRecs]
    /\ dpSupervised \in [ranks : SUBSET Nat, watched : BOOLEAN]

DpInv == DpTypes /\ Supervised /\ \A p \in Procs : Placed(dpLaunch, p, dpProc[p])

------------------------------------------------------------------------------
(* Launches, devices and lists.                                               *)

LEMMA LaunchParts ==
  ASSUME NEW l \in DpLaunches
  PROVE  /\ l.script \in {"ppo", "offpolicy", "appo"} /\ l.devices \in Seq(Nat)
         /\ l.device \in DpDevs /\ l.collector \in DpDevs
         /\ l.mask \in Seq(0 .. DpGpus - 1) /\ l.mask \in Seq(Nat) /\ IsSet(l.mask)
         /\ (l.script = "appo" => l.devices = <<>>) /\ DpGpus \in Nat
         /\ l.playOnly \in BOOLEAN
<1>1. l \in DpStarts /\ (l.script = "appo" => l.devices = <<>>) /\ DpGpus \in Nat
  BY DpAssumption
<1>2. DpDevices \subseteq DpDevs
  BY DEF DpDevices, DpDevs, Indices, NoDevice, Cpu, NoIndex
<1>3. /\ l.script \in {"ppo", "offpolicy", "appo"} /\ l.devices \in Seq(Nat)
      /\ l.device \in DpDevices /\ l.collector \in DpDevices
      /\ l.mask \in {m \in Seq(0 .. DpGpus - 1) : IsSet(m)} /\ l.playOnly \in BOOLEAN
  BY <1>1, Zenon DEF DpStarts
<1>4. l.mask \in Seq(0 .. DpGpus - 1) /\ IsSet(l.mask)
  BY <1>3
<1>6. l.mask \in Seq(Nat)
  <2> DEFINE G == 0 .. DpGpus - 1
  <2>0. G \subseteq Nat /\ l.mask \in Seq(G)
    BY <1>1, <1>4
  <2> HIDE DEF G
  <2>1. Len(l.mask) \in Nat /\ l.mask \in [1 .. Len(l.mask) -> G]
    BY <2>0
  <2>2. l.mask \in [1 .. Len(l.mask) -> Nat]
    BY <2>0, <2>1
  <2> QED
    BY <2>1, <2>2, SeqDef
<1> QED
  BY <1>1, <1>2, <1>3, <1>4, <1>6

LEMMA ElementOf ==
  ASSUME NEW v \in Seq(Nat), NEW k \in 1 .. Len(v)
  PROVE  v[k] \in Nat
  OBVIOUS

\* A list that names nothing twice is no longer than the set it is drawn from.
LEMMA SetFits ==
  ASSUME NEW n \in Nat, NEW s \in Seq(Nat), IsSet(s), \A i \in 1 .. Len(s) : s[i] < n
  PROVE  Len(s) <= n
<1> DEFINE R == {s[i] : i \in DOMAIN s}
           G == 0 .. n - 1
<1>1. DOMAIN s = 1 .. Len(s)
  OBVIOUS
<1>2. R \subseteq G
  <2>1. ASSUME NEW i \in 1 .. Len(s) PROVE s[i] \in G
    <3>1. s[i] \in Nat /\ s[i] < n
      BY ElementOf
    <3> QED BY <3>1
  <2> QED BY <1>1, <2>1
<1>3. IsFiniteSet(G) /\ Cardinality(G) = n
  BY FS_Interval
<1>4. Cardinality(R) = Len(s)
  BY DEF IsSet
<1> HIDE DEF R, G
<1>5. Cardinality(R) <= Cardinality(G)
  BY <1>2, <1>3, FS_Subset
<1> QED
  BY <1>3, <1>4, <1>5

\* Neither is a list that fits the mask longer than the host has GPUs.
LEMMA ListFits ==
  ASSUME NEW l \in DpLaunches, Listed(l)
  PROVE  Len(l.devices) <= DpGpus
<1>1. /\ l.devices \in Seq(Nat) /\ IsSet(l.devices) /\ l.mask \in Seq(Nat) /\ IsSet(l.mask)
      /\ l.mask \in Seq(0 .. DpGpus - 1) /\ DpGpus \in Nat
  BY LaunchParts DEF Listed
<1>2. \A i \in 1 .. Len(l.mask) : l.mask[i] < DpGpus
  BY <1>1
<1>3. Len(l.mask) <= DpGpus
  BY <1>1, <1>2, SetFits
<1>4. Len(l.mask) \in Nat /\ \A i \in 1 .. Len(l.devices) : l.devices[i] < Len(l.mask)
  BY <1>1 DEF Listed
<1>5. Len(l.devices) <= Len(l.mask)
  BY <1>1, <1>4, SetFits
<1>6. Len(l.devices) \in Nat
  BY <1>1
<1> QED
  BY <1>1, <1>3, <1>4, <1>5, <1>6

\* A list as long as its set names nothing twice.
LEMMA Distinct ==
  ASSUME NEW S, NEW s \in Seq(S), IsSet(s), NEW i \in 1 .. Len(s), NEW j \in 1 .. Len(s), s[i] = s[j]
  PROVE  i = j
<1> DEFINE D == 1 .. Len(s)
           R == {s[k] : k \in D}
<1>1. DOMAIN s = D /\ Len(s) \in Nat
  OBVIOUS
<1>2. IsFiniteSet(D) /\ Cardinality(D) = Len(s)
  <2>1. 1 \in Int /\ Len(s) \in Int
    BY <1>1
  <2>2. IsFiniteSet(1 .. Len(s)) /\ Cardinality(1 .. Len(s)) = IF 1 > Len(s) THEN 0 ELSE Len(s) - 1 + 1
    BY <2>1, FS_Interval, Zenon
  <2>3. Len(s) = IF 1 > Len(s) THEN 0 ELSE Len(s) - 1 + 1
    BY <1>1
  <2>4. Cardinality(1 .. Len(s)) = Len(s)
    BY <2>2, <2>3
  <2> QED
    BY <2>2, <2>4, Zenon
<1>3. Cardinality(R) = Len(s)
  BY <1>1, Zenon DEF IsSet
<1>4. s \in Surjection(D, R)
  BY <1>1 DEF Surjection
<1> HIDE DEF R, D
<1>5. s \in Injection(D, R)
  BY <1>2, <1>3, <1>4, FS_Surjection
<1>6. i \in D /\ j \in D
  BY DEF D
<1> QED
  BY <1>5, <1>6 DEF Injection, IsInjective

LEMMA CudaIs ==
  ASSUME NEW n \in Indices
  PROVE  /\ Cuda(n) \in DpDevs /\ Cuda(n).type = "cuda" /\ CudaIndex(Cuda(n)) = (IF n = NoIndex THEN 0 ELSE n)
<1>1. Cuda(n) \in DpDevs /\ Cuda(n).type = "cuda" /\ Cuda(n).index = n
  BY DEF Cuda, DpDevs
<1>2. CASE n = NoIndex
  BY <1>1, <1>2 DEF CudaIndex, AnyCuda
<1>3. CASE n # NoIndex
  <2>1. AnyCuda.index = NoIndex
    BY DEF AnyCuda, Cuda
  <2>2. Cuda(n) # AnyCuda
    BY <1>1, <1>3, <2>1
  <2> QED
    BY <1>1, <1>3, <2>2 DEF CudaIndex
<1> QED
  BY <1>2, <1>3

LEMMA OtherDevices ==
  /\ NoDevice \in DpDevs /\ Cpu \in DpDevs /\ AnyCuda \in DpDevs
  /\ NoDevice.type = "none" /\ Cpu.type = "cpu" /\ AnyCuda.type = "cuda"
  /\ CudaIndex(NoDevice) = NoIndex /\ CudaIndex(Cpu) = NoIndex /\ CudaIndex(AnyCuda) = 0
<1>1. /\ NoDevice \in DpDevs /\ Cpu \in DpDevs /\ AnyCuda \in DpDevs
      /\ NoDevice.type = "none" /\ Cpu.type = "cpu" /\ AnyCuda.type = "cuda"
  BY DEF NoDevice, Cpu, AnyCuda, Cuda, DpDevs, Indices, NoIndex
<1> QED
  BY <1>1 DEF CudaIndex

LEMMA IndexIs ==
  ASSUME NEW d \in DpDevs
  PROVE  /\ CudaIndex(d) \in Indices /\ d.type \in {"cuda", "cpu", "none"}
         /\ d.type = "cuda" <=> CudaIndex(d) # NoIndex
<1>1. d.type \in {"cuda", "cpu", "none"} /\ d.index \in Indices /\ d = [type |-> d.type, index |-> d.index]
  BY DEF DpDevs
<1>2. CASE d.type # "cuda"
  BY <1>1, <1>2 DEF CudaIndex, Indices
<1>3. CASE d = AnyCuda
  BY <1>3, OtherDevices DEF Indices, NoIndex
<1>4. CASE d.type = "cuda" /\ d # AnyCuda
  <2>1. d.index # NoIndex
    BY <1>1, <1>4 DEF AnyCuda, Cuda
  <2> QED
    BY <1>1, <1>4, <2>1 DEF CudaIndex
<1> QED
  BY <1>2, <1>3, <1>4, OtherDevices

LEMMA PhysicalIs ==
  ASSUME NEW v \in Seq(Nat), NEW d \in DpDevs
  PROVE  /\ Physical(v, d) \in Indices
         /\ CudaIndex(d) \in 0 .. Len(v) - 1 => Physical(v, d) = v[CudaIndex(d) + 1] /\ Physical(v, d) # NoIndex
         /\ CudaIndex(d) \notin 0 .. Len(v) - 1 => Physical(v, d) = NoIndex
<1>1. CudaIndex(d) \in Indices /\ Len(v) \in Nat
  BY IndexIs
<1>2. CASE CudaIndex(d) \in 0 .. Len(v) - 1
  <2>1. CudaIndex(d) + 1 \in 1 .. Len(v)
    BY <1>1, <1>2
  <2>2. v[CudaIndex(d) + 1] \in Nat
    BY <2>1
  <2>3. Physical(v, d) = v[CudaIndex(d) + 1]
    BY <1>2 DEF Physical
  <2> QED
    BY <1>2, <2>2, <2>3 DEF Indices, NoIndex
<1>3. CASE CudaIndex(d) \notin 0 .. Len(v) - 1
  BY <1>3 DEF Physical, Indices
<1> QED
  BY <1>2, <1>3

------------------------------------------------------------------------------
(* The wishes of a launch.                                                    *)

LEMMA WishParts ==
  ASSUME NEW l \in DpLaunches, NEW p \in Procs, Belongs(l, p)
  PROVE  /\ RankOf(l, p) \in Nat
         /\ l.devices # <<>> => RankOf(l, p) + 1 \in 1 .. Len(l.devices) /\ l.devices[RankOf(l, p) + 1] \in Nat
         /\ l.devices = <<>> => p = 0
         /\ Worker(l, p) => RankOf(l, p) = p - 1 /\ l.devices # <<>> /\ Len(l.devices) > 1 /\ p \in 1 .. Len(l.devices)
         /\ IndexOf(l, p) \in Indices /\ BaseOf(l, p) \in Seq(Nat)
         /\ ~Worker(l, p) => BaseOf(l, p) = l.mask
         /\ Worker(l, p) => /\ Len(BaseOf(l, p)) = Len(l.devices)
                            /\ BaseOf(l, p)[p] = l.mask[l.devices[p] + 1]
<1>1. p \in Int /\ p >= 0 /\ (p # 0 => p >= 1)
  BY LaunchParts DEF Procs
<1>2. l.devices \in Seq(Nat) /\ Len(l.devices) \in Nat /\ l.mask \in Seq(Nat) /\ l.device \in DpDevs
  BY LaunchParts
<1>3. RankOf(l, p) \in Nat /\ (p # 0 => RankOf(l, p) < Len(l.devices)) /\ (p = 0 => RankOf(l, p) = 0)
  BY <1>1 DEF RankOf, Belongs
<1>4. l.devices # <<>> => Len(l.devices) > 0
  BY <1>2
<1>5. l.devices # <<>> => RankOf(l, p) + 1 \in 1 .. Len(l.devices)
  BY <1>2, <1>3, <1>4
<1>6. l.devices # <<>> => l.devices[RankOf(l, p) + 1] \in Nat
  BY <1>2, <1>5
<1>7. l.devices = <<>> => p = 0
  BY <1>2, <1>3
<1>8. Worker(l, p) => RankOf(l, p) = p - 1 /\ l.devices # <<>> /\ Len(l.devices) > 1 /\ p \in 1 .. Len(l.devices)
  BY <1>1, <1>2, <1>3, <1>5, <1>7 DEF Worker, RankOf, Belongs
<1>9. IndexOf(l, p) \in Indices
  <2>1. CASE Worker(l, p)
    BY <1>1, <2>1 DEF IndexOf, Indices, Worker
  <2>2. CASE ~Worker(l, p) /\ l.devices # <<>>
    BY <1>6, <2>2 DEF IndexOf, Indices
  <2>3. CASE ~Worker(l, p) /\ l.devices = <<>>
    BY <1>2, <2>3, IndexIs DEF IndexOf
  <2> QED
    BY <2>1, <2>2, <2>3
<1>10. ~Worker(l, p) => BaseOf(l, p) = l.mask
  BY DEF BaseOf
<1>11. ASSUME Worker(l, p)
       PROVE  /\ BaseOf(l, p) \in Seq(Nat) /\ Len(BaseOf(l, p)) = Len(l.devices)
              /\ BaseOf(l, p)[p] = l.mask[l.devices[p] + 1]
  <2>1. BaseOf(l, p) = [i \in 1 .. Len(l.devices) |-> l.mask[l.devices[i] + 1]]
    BY <1>2, <1>11 DEF BaseOf, RemappedBy
  <2>2. \A i \in 1 .. Len(l.devices) : l.mask[l.devices[i] + 1] \in Nat
    <3>1. Listed(l)
      BY <1>11 DEF Belongs, Worker
    <3> SUFFICES ASSUME NEW i \in 1 .. Len(l.devices) PROVE l.mask[l.devices[i] + 1] \in Nat
      OBVIOUS
    <3>2. l.devices[i] \in Nat /\ l.devices[i] < Len(l.mask) /\ Len(l.mask) \in Nat
      BY <1>2, <3>1 DEF Listed
    <3> DEFINE k == l.devices[i] + 1
    <3>3. k \in 1 .. Len(l.mask)
      BY <3>2
    <3> HIDE DEF k
    <3>4. l.mask[k] \in Nat
      BY <1>2, <3>3, ElementOf
    <3> QED
      BY <3>4 DEF k
  <2>3. BaseOf(l, p) \in [1 .. Len(l.devices) -> Nat]
    BY <2>1, <2>2
  <2>4. BaseOf(l, p) \in Seq(Nat)
    BY <1>2, <2>3, SeqDef
  <2>5. Len(BaseOf(l, p)) = Len(l.devices)
    BY <1>2, <2>3, <2>4
  <2>6. p \in 1 .. Len(l.devices)
    BY <1>8, <1>11
  <2> QED
    BY <2>1, <2>4, <2>5, <2>6
<1> QED
  BY <1>2, <1>3, <1>5, <1>6, <1>7, <1>8, <1>9, <1>10, <1>11

\* The device a process chooses has the index of its wish; without a wish, the first GPU.
LEMMA ChosenIs ==
  ASSUME NEW l \in DpLaunches, NEW p \in Procs, Belongs(l, p)
  PROVE  /\ ChosenBy(l, p) \in DpDevs
         /\ l.devices # <<>> \/ l.device # NoDevice => CudaIndex(ChosenBy(l, p)) = IndexOf(l, p)
         /\ l.devices = <<>> /\ l.device = NoDevice =>
               /\ IndexOf(l, p) = NoIndex /\ CudaIndex(ChosenBy(l, p)) \in {0, NoIndex} /\ p = 0
<1>1. l.device \in DpDevs /\ l.devices \in Seq(Nat)
  BY LaunchParts
<1>2. CASE Worker(l, p)
  <2>1. p - 1 \in Nat /\ l.devices # <<>>
    BY <1>2, WishParts
  <2>2. ChosenBy(l, p) = Cuda(p - 1) /\ IndexOf(l, p) = p - 1
    BY <1>2 DEF ChosenBy, IndexOf
  <2>3. Cuda(p - 1) \in DpDevs /\ CudaIndex(Cuda(p - 1)) = p - 1
    BY <2>1, CudaIs DEF Indices, NoIndex
  <2> QED
    BY <2>1, <2>2, <2>3
<1>3. CASE ~Worker(l, p) /\ l.devices # <<>>
  <2> DEFINE n == l.devices[RankOf(l, p) + 1]
  <2>1. n \in Nat
    BY <1>3, WishParts
  <2>2. ChosenBy(l, p) = Cuda(n) /\ IndexOf(l, p) = n
    BY <1>3 DEF ChosenBy, IndexOf
  <2> HIDE DEF n
  <2>3. Cuda(n) \in DpDevs /\ CudaIndex(Cuda(n)) = n
    BY <2>1, CudaIs DEF Indices, NoIndex
  <2> QED
    BY <1>3, <2>2, <2>3
<1>4. CASE ~Worker(l, p) /\ l.devices = <<>> /\ l.device # NoDevice
  BY <1>1, <1>4 DEF ChosenBy, IndexOf
<1>5. CASE ~Worker(l, p) /\ l.devices = <<>> /\ l.device = NoDevice
  <2>1. ChosenBy(l, p) \in {Cpu, AnyCuda} /\ IndexOf(l, p) = CudaIndex(NoDevice)
    BY <1>5 DEF ChosenBy, IndexOf, DefaultDevice
  <2>2. p = 0
    BY <1>5, WishParts
  <2> QED
    BY <1>5, <2>1, <2>2, OtherDevices
<1> QED
  BY <1>2, <1>3, <1>4, <1>5

\* The GPU at that index, among those the process sees before it is pinned, is its own.
LEMMA GpuIs ==
  ASSUME NEW l \in DpLaunches, NEW p \in Procs, Belongs(l, p),
         CudaIndex(ChosenBy(l, p)) \in 0 .. Len(BaseOf(l, p)) - 1
  PROVE  BaseOf(l, p)[CudaIndex(ChosenBy(l, p)) + 1] = GpuOf(l, p)
<1>1. CASE Worker(l, p)
  <2>1. CudaIndex(ChosenBy(l, p)) = p - 1 /\ l.devices # <<>> /\ RankOf(l, p) = p - 1
    BY <1>1, WishParts, ChosenIs DEF IndexOf
  <2>2. BaseOf(l, p)[p] = l.mask[l.devices[p] + 1] /\ p \in Int
    BY <1>1, WishParts
  <2>3. (p - 1) + 1 = p
    BY <2>2
  <2>4. GpuOf(l, p) = l.mask[l.devices[p] + 1]
    BY <2>1, <2>3 DEF GpuOf
  <2> QED
    BY <2>1, <2>2, <2>3, <2>4
<1>2. CASE ~Worker(l, p) /\ l.devices # <<>>
  <2>1. CudaIndex(ChosenBy(l, p)) = l.devices[RankOf(l, p) + 1] /\ BaseOf(l, p) = l.mask
    BY <1>2, WishParts, ChosenIs DEF IndexOf
  <2> QED
    BY <1>2, <2>1 DEF GpuOf
<1>3. CASE ~Worker(l, p) /\ l.devices = <<>> /\ l.device # NoDevice
  <2>1. CudaIndex(ChosenBy(l, p)) = CudaIndex(l.device) /\ BaseOf(l, p) = l.mask
    BY <1>3, WishParts, ChosenIs DEF IndexOf
  <2>2. l.device \in DpDevs /\ l.mask \in Seq(Nat)
    BY LaunchParts
  <2>3. l.device.type = "cuda"
    <3>1. CudaIndex(l.device) # NoIndex
      BY <2>1 DEF NoIndex
    <3> QED
      BY <2>2, <3>1, IndexIs
  <2>4. GpuOf(l, p) = Physical(l.mask, l.device)
    BY <1>3, <2>3 DEF GpuOf
  <2> QED
    BY <2>1, <2>2, <2>4, PhysicalIs
<1>4. CASE ~Worker(l, p) /\ l.devices = <<>> /\ l.device = NoDevice
  <2>1. CudaIndex(ChosenBy(l, p)) = 0 /\ BaseOf(l, p) = l.mask
    BY <1>4, WishParts, ChosenIs DEF NoIndex
  <2>2. GpuOf(l, p) = l.mask[1]
    BY <1>4, OtherDevices DEF GpuOf
  <2> QED
    BY <2>1, <2>2
<1> QED
  BY <1>1, <1>2, <1>3, <1>4

------------------------------------------------------------------------------
(* Records of processes.                                                      *)

LEMMA RecParts ==
  ASSUME NEW s \in DpRecs
  PROVE  /\ s.at \in DpPlaces /\ s.rank \in Nat /\ s.local \in Nat /\ s.world \in Nat /\ s.visible \in Seq(Nat)
         /\ s.pinned \in BOOLEAN /\ s.context \in BOOLEAN /\ s.warned \in BOOLEAN
         /\ s.device \in DpDevs /\ s.collector \in DpDevs /\ s.learnerGpu \in Indices /\ s.simGpu \in Indices
<1>1. s.pinned \in BOOLEAN /\ s.context \in BOOLEAN /\ s.warned \in BOOLEAN
  BY Zenon DEF DpRecs
<1>2. /\ s.at \in DpPlaces /\ s.rank \in Nat /\ s.local \in Nat /\ s.world \in Nat /\ s.visible \in Seq(Nat)
      /\ s.device \in DpDevs /\ s.collector \in DpDevs /\ s.learnerGpu \in Indices /\ s.simGpu \in Indices
  BY Zenon DEF DpRecs
<1> QED
  BY <1>1, <1>2

\* Two records of what a process sees and has built.
Alike(s, t) ==
  /\ t.rank = s.rank /\ t.local = s.local /\ t.world = s.world /\ t.visible = s.visible
  /\ t.pinned = s.pinned
Built(s, t) == t.collector = s.collector /\ t.learnerGpu = s.learnerGpu /\ t.simGpu = s.simGpu

LEMMA AtIs ==
  ASSUME NEW s \in DpRecs, NEW x \in DpPlaces
  PROVE  /\ [s EXCEPT !.at = x] \in DpRecs /\ [s EXCEPT !.at = x].at = x
         /\ Alike(s, [s EXCEPT !.at = x]) /\ Built(s, [s EXCEPT !.at = x])
         /\ [s EXCEPT !.at = x].device = s.device
<1>1. [s EXCEPT !.at = x] \in DpRecs
  BY Zenon DEF DpRecs
<1>2. [s EXCEPT !.at = x].at = x
  BY Zenon DEF DpRecs
<1>3. Alike(s, [s EXCEPT !.at = x])
  BY Zenon DEF DpRecs, Alike
<1>4. Built(s, [s EXCEPT !.at = x]) /\ [s EXCEPT !.at = x].device = s.device
  BY Zenon DEF DpRecs, Built
<1> QED
  BY <1>1, <1>2, <1>3, <1>4

LEMMA AlikeKnown ==
  ASSUME NEW l, NEW p, NEW s, NEW t, Alike(s, t), Known(l, p, s)
  PROVE  Known(l, p, t)
  BY Zenon DEF Alike, Known, Sees

LEMMA AlikeWell ==
  ASSUME NEW l, NEW p, NEW s, NEW t, Alike(s, t), Built(s, t), Well(l, p, s)
  PROVE  Well(l, p, t)
<1>1. Simulated(l, t) = Simulated(l, s)
  BY Zenon DEF Alike, Built, Simulated, Collects
<1> QED
  BY <1>1, Zenon DEF Built, Well

LEMMA AlikeBound ==
  ASSUME NEW l, NEW p, NEW s, NEW t, Alike(s, t), Built(s, t), t.device = s.device, Bound(l, p, s)
  PROVE  Bound(l, p, t)
<1>1. BoundBy(l, p, t) = BoundBy(l, p, s)
  BY Zenon DEF Alike, BoundBy
<1> QED
  BY <1>1, Zenon DEF Built, Bound, Collects

------------------------------------------------------------------------------
(* One process moves.                                                         *)

Before == {"topology", "pin", "launch", "device", "supervise"}

LEMMA ProcParts ==
  ASSUME DpInv, NEW p \in Procs
  PROVE  /\ dpProc[p] \in DpRecs /\ dpLaunch \in DpLaunches /\ 0 \in Procs /\ Procs \subseteq Nat
         /\ Placed(dpLaunch, p, dpProc[p])
         /\ dpSupervised.ranks \subseteq Nat /\ dpSupervised.watched \in BOOLEAN
<1>1. dpLaunch \in DpLaunches /\ dpProc \in [Procs -> DpRecs]
  BY DEF DpInv, DpTypes
<1>2. DpGpus \in Nat
  BY <1>1, LaunchParts
<1>3. dpSupervised.watched \in BOOLEAN
  BY Zenon DEF DpInv, DpTypes
<1>4. dpSupervised.ranks \subseteq Nat
  BY SMT DEF DpInv, DpTypes
<1>5. Placed(dpLaunch, p, dpProc[p])
  BY DEF DpInv
<1> QED
  BY <1>1, <1>2, <1>3, <1>4, <1>5 DEF Procs

LEMMA Stepped ==
  ASSUME DpInv, NEW p \in Procs, NEW t \in DpRecs, dpProc' = [dpProc EXCEPT ![p] = t],
         UNCHANGED <<dpLaunch, dpSupervised>>,
         dpProc[p].at \notin Over \cup {"absent", "waiting"}, t.at # "absent",
         t.at \in Before => dpProc[p].at \in Before,
         Placed(dpLaunch, p, t)
  PROVE  DpInv'
<1>1. dpProc \in [Procs -> DpRecs] /\ 0 \in Procs /\ Supervised
  BY ProcParts DEF DpInv, DpTypes
<1>2. dpProc'[p] = t /\ \A q \in Procs : q # p => dpProc'[q] = dpProc[q]
  BY <1>1
<1>3. DpTypes'
  BY <1>1 DEF DpInv, DpTypes
<1>4. (\A q \in Procs : Placed(dpLaunch, q, dpProc[q]))'
  <2> SUFFICES ASSUME NEW q \in Procs PROVE Placed(dpLaunch', q, dpProc'[q])
    OBVIOUS
  <2>1. CASE q = p
    BY <1>2, <2>1
  <2>2. CASE q # p
    BY <1>2, <2>2, ProcParts
  <2> QED
    BY <2>1, <2>2
<1>5. Supervised'
  <2>1. CASE p = 0
    <3>1. NoOthers' <=> NoOthers
      BY <1>2, <2>1 DEF NoOthers
    <3>2. dpSupervised.ranks = {} => NoOthers
      BY <1>1, <2>1 DEF Supervised
    <3>3. dpLaunch.script = "ppo" => NoOthers
      BY <1>1, <2>1 DEF Supervised
    <3>4. dpSupervised.ranks # {} =>
             /\ \A q \in Procs \ {0} : dpProc'[q].at # "absent" => q \in dpSupervised.ranks
             /\ dpProc'[0].at \notin Before
      BY <1>1, <1>2, <2>1 DEF Supervised, Before
    <3> QED
      BY <1>1, <3>1, <3>2, <3>3, <3>4 DEF Supervised, Before
  <2>2. CASE p # 0
    <3>1. dpProc'[0] = dpProc[0] /\ p \in Procs \ {0}
      BY <1>1, <1>2, <2>2
    <3>2. ~NoOthers /\ ~NoOthers'
      <4>1. dpProc[p].at # "absent" /\ dpProc'[p].at # "absent"
        BY <1>2
      <4> QED
        BY <3>1, <4>1 DEF NoOthers
    <3>3. dpSupervised.ranks # {} =>
             /\ \A q \in Procs \ {0} : dpProc'[q].at # "absent" => q \in dpSupervised.ranks
             /\ dpProc'[0].at \notin Before
      BY <1>1, <1>2, <3>1 DEF Supervised, Before
    <3>4. dpSupervised.ranks = {} => dpProc[0].at \in Over /\ dpProc[0].at # "completed"
      <4>1. dpSupervised.ranks = {} =>
                /\ dpProc[0].at \in Over
                /\ dpProc[0].at = "completed" => \A q \in Procs \ {0} : dpProc[q].at \in {"absent", "completed"}
        BY <1>1, <3>2 DEF Supervised
      <4>2. dpProc[p].at \notin {"absent", "completed"}
        BY DEF Over
      <4> QED
        BY <3>1, <4>1, <4>2
    <3> QED
      BY <1>1, <3>1, <3>2, <3>3, <3>4 DEF Supervised, Before
  <2> QED
    BY <2>1, <2>2
<1> QED
  BY <1>3, <1>4, <1>5 DEF DpInv

LEMMA RefusedPlaced ==
  ASSUME DpInv, NEW p \in Procs, Refuse(p), dpProc[p].at \notin Over \cup {"absent", "waiting"}
  PROVE  DpInv'
<1> DEFINE s == dpProc[p]
           t == [s EXCEPT !.at = "raised"]
<1>1. s \in DpRecs /\ Placed(dpLaunch, p, s) /\ s.at # "absent"
  BY ProcParts
<1>2. "raised" \in DpPlaces /\ "raised" \notin Before /\ "raised" \notin Unbuilt
  BY DEF DpPlaces, Over, Before, Unbuilt, Early
<1>3. dpProc' = [dpProc EXCEPT ![p] = t] /\ UNCHANGED <<dpLaunch, dpSupervised>>
  BY DEF Refuse, Move, Becomes
<1> HIDE DEF s
<1>4. t \in DpRecs /\ t.at = "raised" /\ Alike(s, t) /\ Built(s, t)
  BY <1>1, <1>2, AtIs
<1> HIDE DEF t
<1>5. Known(dpLaunch, p, t) /\ Well(dpLaunch, p, t)
  BY <1>1, <1>4, AlikeKnown, AlikeWell DEF Placed
<1>6. Placed(dpLaunch, p, t)
  BY <1>2, <1>4, <1>5 DEF Placed, Reached, Early
<1> QED
  BY <1>2, <1>3, <1>4, <1>6, Stepped DEF s

\* A process that moves on as another record it may be.
LEMMA Proceeded ==
  ASSUME DpInv, NEW p \in Procs, NEW accepted \in BOOLEAN, NEW s \in DpRecs, NEW x \in DpPlaces \ {"absent"},
         Proceed(p, accepted, s, x), dpProc[p].at \notin Over \cup {"absent", "waiting"},
         x \in Before => dpProc[p].at \in Before,
         accepted => Placed(dpLaunch, p, [s EXCEPT !.at = x])
  PROVE  DpInv'
<1>1. CASE accepted
  <2>1. dpProc' = [dpProc EXCEPT ![p] = [s EXCEPT !.at = x]] /\ UNCHANGED <<dpLaunch, dpSupervised>>
    BY <1>1 DEF Proceed, Move, Becomes
  <2>2. [s EXCEPT !.at = x] \in DpRecs /\ [s EXCEPT !.at = x].at = x
    BY AtIs
  <2> DEFINE t == [s EXCEPT !.at = x]
  <2> HIDE DEF t
  <2>3. t \in DpRecs /\ t.at = x /\ Placed(dpLaunch, p, t) /\ dpProc' = [dpProc EXCEPT ![p] = t]
    BY <1>1, <2>1, <2>2 DEF t
  <2> QED
    BY <2>1, <2>3, Stepped
<1>2. CASE ~accepted
  BY <1>2, RefusedPlaced DEF Proceed
<1> QED
  BY <1>1, <1>2

\* A record that is placed where it is reached, when only its place changes.
LEMMA Advanced ==
  ASSUME NEW l, NEW p, NEW s \in DpRecs, s.at # "absent", Placed(l, p, s), NEW x \in DpPlaces,
         Reached(l, p, [s EXCEPT !.at = x]),
         x \in {"supervise", "build"} => Bound(l, p, s),
         x \in Unbuilt => s.learnerGpu = NoIndex
  PROVE  Placed(l, p, [s EXCEPT !.at = x])
<1> DEFINE t == [s EXCEPT !.at = x]
<1>1. t.at = x /\ Alike(s, t) /\ Built(s, t) /\ t.device = s.device
  BY AtIs
<1> HIDE DEF t
<1>2. Known(l, p, t) /\ Well(l, p, t)
  BY <1>1, AlikeKnown, AlikeWell DEF Placed
<1>3. x \in {"supervise", "build"} => Bound(l, p, t)
  BY <1>1, AlikeBound
<1>4. x \in Unbuilt => t.learnerGpu = NoIndex
  BY <1>1 DEF Built
<1>5. Reached(l, p, t)
  BY DEF t
<1> QED
  BY <1>1, <1>2, <1>3, <1>4, <1>5 DEF Placed, t

------------------------------------------------------------------------------
(* The start, and the lists.                                                  *)

LEMMA AbsentParts ==
  /\ Absent \in DpRecs /\ Absent.at = "absent" /\ Absent.learnerGpu = NoIndex
<1>1. "absent" \in DpPlaces /\ <<>> \in Seq(Nat) /\ NoDevice \in DpDevs /\ NoIndex \in Indices
  BY OtherDevices DEF DpPlaces, Indices
<1>2. Absent \in DpRecs
  BY <1>1, Zenon DEF Absent, DpRecs
<1>3. Absent.at = "absent" /\ Absent.learnerGpu = NoIndex
  BY Zenon DEF Absent
<1> QED
  BY <1>2, <1>3

Fresh(t, v, r, lo, w) ==
  /\ t \in DpRecs /\ t.at = "topology" /\ t.visible = v /\ t.rank = r /\ t.local = lo /\ t.world = w
  /\ t.pinned = FALSE /\ t.learnerGpu = NoIndex

LEMMA StartedIs ==
  ASSUME NEW v \in Seq(Nat), NEW r \in Nat, NEW lo \in Nat, NEW w \in Nat
  PROVE  Fresh(Started(v, r, lo, w), v, r, lo, w)
<1> DEFINE t == Started(v, r, lo, w)
<1>1. "topology" \in DpPlaces
  BY DEF DpPlaces, Unbuilt, Early
<1>2. t = [Absent EXCEPT !.at = "topology", !.visible = v, !.rank = r, !.local = lo, !.world = w]
  BY DEF Started
<1> HIDE DEF t
<1>3. t \in DpRecs
  BY <1>1, <1>2, AbsentParts, Zenon DEF DpRecs
<1>4. t.at = "topology" /\ t.visible = v /\ t.rank = r /\ t.local = lo /\ t.world = w
  BY <1>2, AbsentParts, SMT DEF DpRecs
<1>5. t.learnerGpu = Absent.learnerGpu
  BY <1>2, AbsentParts, SMT DEF DpRecs
<1>6. t.pinned = Absent.pinned
  BY <1>2, AbsentParts, Zenon DEF DpRecs
<1>7. Absent.pinned = FALSE
  BY Zenon DEF Absent
<1> QED
  BY <1>3, <1>4, <1>5, <1>6, <1>7, AbsentParts DEF t, Fresh

\* A process that is started as its rank is where it belongs.
LEMMA StartedPlaced ==
  ASSUME NEW l, NEW p, NEW t, t.at = "topology", Belongs(l, p), t.rank = RankOf(l, p),
         t.world = IF Worker(l, p) THEN Len(l.devices) ELSE 1,
         t.local = IF Worker(l, p) THEN p - 1 ELSE 0,
         t.pinned = FALSE, t.visible = BaseOf(l, p), t.learnerGpu = NoIndex
  PROVE  Placed(l, p, t)
<1>1. Known(l, p, t)
  BY Zenon DEF Known, Sees
<1>2. Reached(l, p, t)
  BY DEF Reached
<1>3. Well(l, p, t)
  BY DEF Well
<1> QED
  BY <1>1, <1>2, <1>3 DEF Placed

LEMMA DpInit_Holds == DpInit => DpInv
<1> SUFFICES ASSUME DpInit PROVE DpInv
  OBVIOUS
<1> DEFINE t == Started(dpLaunch.mask, 0, 0, 1)
<1>1. dpLaunch \in DpLaunches /\ dpProc = [p \in Procs |-> IF p = 0 THEN t ELSE Absent]
  BY DEF DpInit
<1>2. dpSupervised.ranks = {} /\ dpSupervised \in [ranks : SUBSET Nat, watched : BOOLEAN]
  BY Zenon DEF DpInit
<1>3. Fresh(t, dpLaunch.mask, 0, 0, 1)
  <2>1. dpLaunch.mask \in Seq(Nat) /\ 0 \in Nat /\ 1 \in Nat
    BY <1>1, LaunchParts
  <2> QED
    BY <2>1, StartedIs
<1> HIDE DEF t
<1> USE <1>3 DEF Fresh
<1>4. 0 \in Procs
  BY <1>1, LaunchParts DEF Procs
<1>5. DpTypes
  <2>1. dpProc \in [Procs -> DpRecs]
    BY <1>1, <1>3, AbsentParts
  <2> QED
    BY <1>1, <1>2, <2>1 DEF DpTypes
<1>6. NoOthers
  BY <1>1, AbsentParts DEF NoOthers
<1>7. Supervised
  BY <1>2, <1>6 DEF Supervised
<1>8. Placed(dpLaunch, 0, t)
  <2>1. Belongs(dpLaunch, 0) /\ ~Worker(dpLaunch, 0) /\ RankOf(dpLaunch, 0) = 0 /\ BaseOf(dpLaunch, 0) = dpLaunch.mask
    BY DEF Belongs, Worker, RankOf, BaseOf
  <2> QED
    BY <1>3, <2>1, StartedPlaced
<1>9. \A p \in Procs : Placed(dpLaunch, p, dpProc[p])
  <2>1. \A p \in Procs : Placed(dpLaunch, p, Absent)
    BY AbsentParts DEF Placed
  <2> QED
    BY <1>1, <1>8, <2>1
<1> QED
  BY <1>5, <1>7, <1>9 DEF DpInv

\* The user's process is the only one while it has not chosen its ranks.
LEMMA OnlyOne ==
  ASSUME DpInv, NEW p \in Procs, dpProc[p].at \in Before \cup {"build", "training"}, dpLaunch.script = "ppo", dpProc[p].world = 1
  PROVE  p = 0
<1>1. Known(dpLaunch, p, dpProc[p]) /\ p \in Procs
  BY ProcParts DEF Placed, Before
<1>2. SUFFICES ASSUME p # 0 PROVE FALSE
  OBVIOUS
<1>3. Worker(dpLaunch, p) /\ Len(dpLaunch.devices) > 1
  BY <1>1, <1>2 DEF Known, Belongs, Worker
<1>4. dpProc[p].world = Len(dpLaunch.devices)
  BY <1>1, <1>3 DEF Known
<1> QED
  BY <1>3, <1>4

LEMMA Topology_Holds == \A p \in Procs : DpInv /\ Topology(p) => DpInv'
<1> SUFFICES ASSUME NEW p \in Procs, DpInv, Topology(p) PROVE DpInv'
  OBVIOUS
<1> DEFINE s == dpProc[p]
           ppo == dpLaunch.script = "ppo"
           several == Len(dpLaunch.devices) > 1 /\ s.world = 1
           accepted ==
               /\ IsSet(dpLaunch.devices)
               /\ ppo => /\ dpLaunch.device = NoDevice \/ dpLaunch.devices = <<>>
                         /\ s.world = 1 => Launchable(p)
           x == IF ppo /\ several /\ ~dpLaunch.playOnly THEN "launch" ELSE "pin"
<1>1. s.at = "topology" /\ Proceed(p, accepted, s, x)
  BY Zenon DEF Topology
<1>2. s \in DpRecs /\ Placed(dpLaunch, p, s) /\ dpLaunch \in DpLaunches
  BY ProcParts
<1>3. Known(dpLaunch, p, s) /\ s.pinned = FALSE /\ s.learnerGpu = NoIndex
  <2>1. Known(dpLaunch, p, s) /\ ~s.pinned /\ s.learnerGpu = NoIndex
    BY <1>1, <1>2 DEF Placed, Reached, Early, Unbuilt
  <2> QED
    BY <1>2, <2>1, RecParts
<1>4. accepted \in BOOLEAN
  OBVIOUS
<1>5. x \in DpPlaces \ {"absent"} /\ x \in Before /\ x \in Unbuilt /\ x \notin {"supervise", "build"}
  BY DEF DpPlaces, Before, Unbuilt, Early
<1>6. ASSUME accepted PROVE Reached(dpLaunch, p, [s EXCEPT !.at = x])
  <2>1. [s EXCEPT !.at = x].at = x /\ [s EXCEPT !.at = x].pinned = s.pinned
    BY <1>2, <1>5, AtIs DEF Alike
  <2>2. x \in {"launch", "pin"} /\ (x = "launch" => ppo /\ several)
    BY Zenon
  <2>3. x = "launch" => Listed(dpLaunch)
    <3> SUFFICES ASSUME x = "launch" PROVE Listed(dpLaunch)
      OBVIOUS
    <3>1. ppo /\ s.world = 1
      BY <2>2
    <3>2. p = 0
      BY <1>1, <3>1, OnlyOne DEF Before
    <3>3. s.visible = dpLaunch.mask
      BY <1>3, <3>2 DEF Known, Sees, BaseOf, Worker
    <3>4. Launchable(p)
      BY <1>6, <3>1
    <3> QED
      BY <1>6, <3>3, <3>4 DEF Listed, Launchable
  <2> HIDE DEF x, s
  <2> QED
    BY <1>3, <1>6, <2>1, <2>2, <2>3 DEF Reached
<1>7. accepted => Placed(dpLaunch, p, [s EXCEPT !.at = x])
  <2> HIDE DEF x, s, accepted
  <2> SUFFICES ASSUME accepted PROVE Placed(dpLaunch, p, [s EXCEPT !.at = x])
    OBVIOUS
  <2>1. s.at # "absent" /\ x \in DpPlaces
    BY <1>1, <1>5
  <2> QED
    BY <1>2, <1>3, <1>5, <1>6, <2>1, Advanced
<1>8. s.at \notin Over \cup {"absent", "waiting"} /\ s.at \in Before
  BY <1>1 DEF Over, Before
<1> HIDE DEF x, accepted
<1> QED
  BY <1>1, <1>2, <1>4, <1>5, <1>7, <1>8, Proceeded

------------------------------------------------------------------------------
(* The other ranks.                                                           *)

LEMMA Spawned ==
  ASSUME DpInv, NEW R, R \subseteq Procs \ {0}, R # {}, NEW t \in DpRecs, Placed(dpLaunch, 0, t),
         t.at \notin Before \cup {"absent"},
         dpLaunch.script = "ppo" => t.at = "waiting" /\ t.learnerGpu = NoIndex,
         NEW f, \A p \in R : f[p] \in DpRecs /\ Placed(dpLaunch, p, f[p]),
         dpProc' = [p \in Procs |-> IF p = 0 THEN t ELSE IF p \in R THEN f[p] ELSE Absent],
         dpSupervised' \in [ranks : SUBSET Nat, watched : BOOLEAN], dpSupervised'.ranks = R,
         UNCHANGED dpLaunch
  PROVE  DpInv'
<1>1. 0 \in Procs
  BY LaunchParts DEF Procs, DpInv, DpTypes
<1>2. DpTypes'
  <2>1. dpProc' \in [Procs -> DpRecs]
    BY AbsentParts
  <2> QED
    BY <2>1 DEF DpInv, DpTypes
<1>3. /\ dpProc'[0] = t
      /\ \A p \in Procs \ {0} : dpProc'[p] = IF p \in R THEN f[p] ELSE Absent
  BY <1>1
<1>4. Supervised'
  <2>1. \A p \in Procs \ {0} : dpProc'[p].at # "absent" => p \in R
    BY <1>3, AbsentParts
  <2> QED
    BY <1>3, <2>1 DEF Supervised, Before
<1>5. (\A p \in Procs : Placed(dpLaunch, p, dpProc[p]))'
  <2> SUFFICES ASSUME NEW p \in Procs PROVE Placed(dpLaunch, p, dpProc'[p])
    OBVIOUS
  <2>1. Placed(dpLaunch, p, Absent)
    BY AbsentParts DEF Placed
  <2> QED
    BY <1>3, <2>1
<1> QED
  BY <1>2, <1>4, <1>5 DEF DpInv

LEMMA LaunchWorkers_Holds == DpInv /\ LaunchWorkers => DpInv'
<1> SUFFICES ASSUME DpInv, LaunchWorkers PROVE DpInv'
  OBVIOUS
<1> DEFINE n == Len(dpLaunch.devices)
           s == dpProc[0]
           t == [s EXCEPT !.at = "waiting"]
           v == Remapped(s.visible)
           f == [p \in 1 .. n |-> Started(v, p - 1, p - 1, n)]
<1>1. /\ s.at = "launch" /\ dpLaunch' = dpLaunch /\ dpSupervised' = [ranks |-> 1 .. n, watched |-> FALSE]
      /\ dpProc' = [p \in Procs |-> IF p = 0 THEN t ELSE IF p <= n THEN Started(v, p - 1, p - 1, n) ELSE Absent]
  BY DEF LaunchWorkers
<1>2. 0 \in Procs /\ dpLaunch \in DpLaunches
  BY LaunchParts DEF Procs, DpInv, DpTypes
<1>3. s \in DpRecs /\ Placed(dpLaunch, 0, s)
  BY <1>2, ProcParts
<1>4. /\ Known(dpLaunch, 0, s) /\ ~s.pinned /\ dpLaunch.script = "ppo" /\ Listed(dpLaunch) /\ n > 1
      /\ s.learnerGpu = NoIndex /\ IsSet(dpLaunch.devices)
  BY <1>1, <1>3 DEF Placed, Reached, Early, Unbuilt
<1>5. n \in Nat /\ n <= DpGpus /\ DpGpus \in Nat
  BY <1>2, <1>4, LaunchParts, ListFits
<1>6. s.visible = dpLaunch.mask
  BY <1>4 DEF Known, Sees, BaseOf, Worker
<1>7. t \in DpRecs /\ t.at = "waiting" /\ t.learnerGpu = NoIndex /\ Placed(dpLaunch, 0, t)
  <2>1. "waiting" \in DpPlaces /\ "waiting" \notin {"supervise", "build"}
    BY DEF DpPlaces, Unbuilt, Early
  <2>2. t \in DpRecs /\ t.at = "waiting" /\ t.pinned = s.pinned /\ t.learnerGpu = s.learnerGpu
    BY <1>3, <2>1, AtIs DEF Alike, Built
  <2> HIDE DEF s, t, n
  <2>3. Reached(dpLaunch, 0, t)
    BY <1>4, <2>2 DEF Reached, n
  <2>4. s.at # "absent"
    BY <1>1
  <2>5. Placed(dpLaunch, 0, t)
    BY <1>3, <1>4, <2>1, <2>3, <2>4, Advanced DEF t
  <2> QED
    BY <1>4, <2>2, <2>5
<1> HIDE DEF t
<1>8. ASSUME NEW p \in 1 .. n
      PROVE  f[p] \in DpRecs /\ Placed(dpLaunch, p, f[p])
  <2>1. p \in Procs /\ p # 0 /\ p - 1 \in Nat /\ p - 1 < n
    BY <1>5 DEF Procs
  <2>2. Worker(dpLaunch, p) /\ RankOf(dpLaunch, p) = p - 1
    BY <1>4, <2>1 DEF Worker, RankOf
  <2>3. Belongs(dpLaunch, p)
    BY <1>4, <2>1, <2>2 DEF Belongs
  <2>4. v = BaseOf(dpLaunch, p)
    BY <1>6, <2>2 DEF BaseOf, Remapped, RemappedBy
  <2>5. v \in Seq(Nat)
    BY <1>2, <2>1, <2>3, <2>4, WishParts
  <2> DEFINE w == Started(v, p - 1, p - 1, n)
  <2> HIDE DEF v
  <2>6. f[p] = w
    OBVIOUS
  <2>7. Fresh(w, v, p - 1, p - 1, n)
    BY <1>5, <2>1, <2>5, StartedIs
  <2> HIDE DEF w
  <2>8. Placed(dpLaunch, p, w)
    BY <2>2, <2>3, <2>4, <2>7, StartedPlaced DEF Fresh
  <2> QED
    BY <2>6, <2>7, <2>8 DEF Fresh
<1>9. dpProc' = [p \in Procs |-> IF p = 0 THEN t ELSE IF p \in 1 .. n THEN f[p] ELSE Absent]
  <2> HIDE DEF v, n
  <2>1. ASSUME NEW p \in Procs, p # 0
        PROVE  p <= n <=> p \in 1 .. n
    BY <1>5, <2>1 DEF Procs, n
  <2> QED
    BY <1>1, <2>1
<1> HIDE DEF f, v
<1>10. 1 .. n \subseteq Procs \ {0} /\ 1 .. n # {}
  BY <1>4, <1>5 DEF Procs
<1>11. dpSupervised' \in [ranks : SUBSET Nat, watched : BOOLEAN] /\ dpSupervised'.ranks = 1 .. n
  <2> DEFINE R == 1 .. n
  <2>1. R \in SUBSET Nat
    OBVIOUS
  <2> HIDE DEF R
  <2>2. dpSupervised' = [ranks |-> R, watched |-> FALSE]
    BY <1>1 DEF R
  <2>3. dpSupervised' \in [ranks : SUBSET Nat, watched : BOOLEAN]
    BY <2>1, <2>2, Zenon
  <2>4. dpSupervised'.ranks = R
    BY <2>2, Zenon
  <2> QED
    BY <2>3, <2>4 DEF R
<1>12. t.at \notin Before \cup {"absent"}
  BY <1>7 DEF Before
<1> DEFINE R == 1 .. n
<1> HIDE DEF R
<1>13. /\ R \subseteq Procs \ {0} /\ R # {} /\ dpSupervised'.ranks = R
       /\ \A p \in R : f[p] \in DpRecs /\ Placed(dpLaunch, p, f[p])
       /\ dpProc' = [p \in Procs |-> IF p = 0 THEN t ELSE IF p \in R THEN f[p] ELSE Absent]
  BY <1>8, <1>9, <1>10, <1>11 DEF R
<1> QED
  BY <1>1, <1>7, <1>11, <1>12, <1>13, Spawned

LEMMA Supervise_Holds == DpInv /\ Supervise => DpInv'
<1> SUFFICES ASSUME DpInv, Supervise PROVE DpInv'
  OBVIOUS
<1> DEFINE n == Len(dpLaunch.devices)
           s == dpProc[0]
           t == [s EXCEPT !.at = "build"]
           f == [p \in 1 .. n - 1 |-> Started(s.visible, p, 0, 1)]
<1>1. 0 \in Procs /\ dpLaunch \in DpLaunches
  BY LaunchParts DEF Procs, DpInv, DpTypes
<1>2. s \in DpRecs /\ Placed(dpLaunch, 0, s) /\ s.at = "supervise"
  BY <1>1, ProcParts DEF Supervise
<1>3. CASE ~Launchable(0)
  <2>1. Refuse(0)
    BY <1>3 DEF Supervise
  <2>2. s.at \notin Over \cup {"absent", "waiting"}
    BY <1>2 DEF Over
  <2> QED
    BY <1>1, <2>1, <2>2, RefusedPlaced
<1>4. CASE Launchable(0)
  <2>1. /\ dpLaunch' = dpLaunch /\ dpSupervised' = [ranks |-> 1 .. n - 1, watched |-> TRUE]
        /\ dpProc' = [p \in Procs |-> IF p = 0 THEN t ELSE IF p < n THEN Started(s.visible, p, 0, 1) ELSE Absent]
    BY <1>4 DEF Supervise
  <2>2. /\ Known(dpLaunch, 0, s) /\ dpLaunch.script = "offpolicy" /\ n > 1 /\ Bound(dpLaunch, 0, s)
        /\ s.learnerGpu = NoIndex /\ IsSet(dpLaunch.devices)
        /\ Genesis(dpLaunch) /\ ~s.pinned => IndexOf(dpLaunch, 0) <= 0
    BY <1>2 DEF Placed, Reached, Unbuilt
  <2>3. n \in Nat /\ DpGpus \in Nat /\ dpLaunch.devices \in Seq(Nat) /\ dpLaunch.mask \in Seq(Nat)
    BY <1>1, LaunchParts
  \* One visible GPU holds no two of a list: a process that is pinned is refused.
  <2>4. ~s.pinned
    <3>1. SUFFICES ASSUME s.pinned PROVE FALSE
      OBVIOUS
    <3>2. Len(s.visible) = 1
      <4>1. \E x : s.visible = <<x>>
        BY <2>2, <3>1 DEF Known, Sees
      <4>2. \A x : Len(<<x>>) = 1
        OBVIOUS
      <4> QED
        BY <4>1, <4>2
    <3>3. 1 \in 1 .. n /\ 2 \in 1 .. n
      BY <2>2, <2>3
    <3>4. dpLaunch.devices[1] \in Nat /\ dpLaunch.devices[2] \in Nat
      BY <2>3, <3>3, ElementOf
    <3>5. dpLaunch.devices[1] < 1 /\ dpLaunch.devices[2] < 1
      BY <1>4, <2>3, <3>2, <3>3 DEF Launchable
    <3>6. dpLaunch.devices[1] = dpLaunch.devices[2]
      BY <3>4, <3>5
    <3> QED
      BY <2>2, <2>3, <3>3, <3>6, Distinct
  <2>5. s.visible = dpLaunch.mask
    BY <2>2, <2>4 DEF Known, Sees, BaseOf, Worker
  <2>6. Listed(dpLaunch)
    BY <1>4, <2>2, <2>5 DEF Listed, Launchable
  <2>6a. n <= DpGpus
    BY <1>1, <2>6, ListFits
  <2>7. t \in DpRecs /\ t.at = "build" /\ Placed(dpLaunch, 0, t)
    <3>1. "build" \in DpPlaces
      BY DEF DpPlaces, Unbuilt
    <3>2. t \in DpRecs /\ t.at = "build" /\ t.pinned = s.pinned
      BY <1>2, <3>1, AtIs DEF Alike
    <3> HIDE DEF s, t
    <3>3. Reached(dpLaunch, 0, t)
      BY <2>2, <2>4, <3>2 DEF Reached, Early
    <3>4. s.at # "absent"
      BY <1>2
    <3>5. Placed(dpLaunch, 0, t)
      BY <1>2, <2>2, <3>1, <3>3, <3>4, Advanced DEF t
    <3> QED
      BY <3>2, <3>5
  <2> HIDE DEF t
  <2>8. ASSUME NEW p \in 1 .. n - 1
        PROVE  f[p] \in DpRecs /\ Placed(dpLaunch, p, f[p])
    <3>1. p \in Procs /\ p # 0 /\ p \in Nat /\ p < n
      BY <2>3, <2>6a DEF Procs
    <3>2. ~Worker(dpLaunch, p) /\ RankOf(dpLaunch, p) = p
      BY <2>2, <3>1 DEF Worker, RankOf
    <3>3. Belongs(dpLaunch, p)
      BY <2>2, <2>6, <3>1, <3>2 DEF Belongs
    <3>4. BaseOf(dpLaunch, p) = s.visible
      BY <2>5, <3>2 DEF BaseOf
    <3> DEFINE w == Started(s.visible, p, 0, 1)
    <3>5. f[p] = w
      OBVIOUS
    <3>6. s.visible \in Seq(Nat) /\ 0 \in Nat /\ 1 \in Nat
      BY <2>3, <2>5
    <3>7. Fresh(w, s.visible, p, 0, 1)
      BY <3>1, <3>6, StartedIs
    <3> HIDE DEF w
    <3>8. Placed(dpLaunch, p, w)
      BY <3>2, <3>3, <3>4, <3>7, StartedPlaced DEF Fresh
    <3> QED
      BY <3>5, <3>7, <3>8 DEF Fresh
  <2>9. dpProc' = [p \in Procs |-> IF p = 0 THEN t ELSE IF p \in 1 .. n - 1 THEN f[p] ELSE Absent]
    <3> HIDE DEF n
    <3>1. ASSUME NEW p \in Procs, p # 0
          PROVE  p < n <=> p \in 1 .. n - 1
      BY <2>3, <2>6a, <3>1 DEF Procs, n
    <3> QED
      BY <2>1, <3>1
  <2>10. 1 .. n - 1 \subseteq Procs \ {0} /\ 1 .. n - 1 # {}
    <3> HIDE DEF n
    <3>1. 1 \in 1 .. n - 1
      BY <2>2, <2>3 DEF n
    <3>2. \A p \in 1 .. n - 1 : p \in 0 .. DpGpus /\ p # 0
      BY <2>3, <2>6a DEF n
    <3> QED
      BY <3>1, <3>2 DEF Procs
  <2> HIDE DEF f
  <2> DEFINE R == 1 .. n - 1
  <2>11. dpSupervised' \in [ranks : SUBSET Nat, watched : BOOLEAN] /\ dpSupervised'.ranks = R
    <3>1. R \in SUBSET Nat
      OBVIOUS
    <3> HIDE DEF R
    <3>2. dpSupervised' = [ranks |-> R, watched |-> TRUE]
      BY <2>1 DEF R
    <3>3. dpSupervised' \in [ranks : SUBSET Nat, watched : BOOLEAN]
      BY <3>1, <3>2, Zenon
    <3>4. dpSupervised'.ranks = R
      BY <3>2, Zenon
    <3> QED
      BY <3>3, <3>4
  <2>12. t.at \notin Before \cup {"absent"} /\ dpLaunch.script # "ppo"
    BY <2>2, <2>7 DEF Before
  <2> HIDE DEF R, n, s
  <2>13. /\ R \subseteq Procs \ {0} /\ R # {}
         /\ \A p \in R : f[p] \in DpRecs /\ Placed(dpLaunch, p, f[p])
         /\ dpProc' = [p \in Procs |-> IF p = 0 THEN t ELSE IF p \in R THEN f[p] ELSE Absent]
    BY <2>8, <2>9, <2>10 DEF R, n
  <2> QED
    BY <2>1, <2>7, <2>11, <2>12, <2>13, Spawned
<1> QED
  BY <1>3, <1>4

------------------------------------------------------------------------------
(* Pinning.                                                                   *)

LEMMA WorldIs ==
  ASSUME NEW l \in DpLaunches, NEW p \in Procs, NEW s \in DpRecs, Known(l, p, s)
  PROVE  /\ s.world > 1 <=> Worker(l, p)
         /\ Belongs(l, p) /\ s.rank = RankOf(l, p)
         /\ s.local = IF Worker(l, p) /\ ~s.pinned THEN p - 1 ELSE 0
         /\ s.pinned => Genesis(l) /\ IndexOf(l, p) > 0 /\ IndexOf(l, p) < Len(BaseOf(l, p))
                        /\ s.visible = <<BaseOf(l, p)[IndexOf(l, p) + 1]>>
         /\ ~s.pinned => s.visible = BaseOf(l, p)
<1>1. Belongs(l, p) /\ s.rank = RankOf(l, p)
  BY DEF Known
<1>2. s.world = IF Worker(l, p) THEN Len(l.devices) ELSE 1
  BY DEF Known
<1>3. Worker(l, p) => Len(l.devices) > 1
  BY <1>1, WishParts
<1>4. s.world > 1 <=> Worker(l, p)
  BY <1>2, <1>3
<1>5. s.pinned => Genesis(l) /\ IndexOf(l, p) > 0 /\ IndexOf(l, p) < Len(BaseOf(l, p))
                  /\ s.visible = <<BaseOf(l, p)[IndexOf(l, p) + 1]>>
  BY Zenon DEF Known, Sees
<1>6. ~s.pinned => s.visible = BaseOf(l, p)
  BY Zenon DEF Known, Sees
<1>7. s.local = IF Worker(l, p) /\ ~s.pinned THEN p - 1 ELSE 0
  BY Zenon DEF Known
<1> QED
  BY <1>1, <1>4, <1>5, <1>6, <1>7

\* The index a simulator is routed to.
LEMMA RouteIs ==
  ASSUME DpInv, NEW p \in Procs, Known(dpLaunch, p, dpProc[p]), NEW d \in DpDevs
  PROVE  /\ dpLaunch.backend \notin RoutedBackends => Route(p, d) = NoIndex
         /\ dpProc[p].pinned => Route(p, d) = 0
         /\ dpLaunch.backend \in RoutedBackends /\ ~dpProc[p].pinned =>
               Route(p, d) = IF Worker(dpLaunch, p) \/ dpLaunch.devices # <<>> THEN IndexOf(dpLaunch, p) ELSE CudaIndex(d)
<1> DEFINE s == dpProc[p]
           l == dpLaunch
<1>1. s \in DpRecs /\ l \in DpLaunches
  BY ProcParts
<1>2. /\ s.world > 1 <=> Worker(l, p)
      /\ Belongs(l, p) /\ s.rank = RankOf(l, p)
      /\ s.local = IF Worker(l, p) /\ ~s.pinned THEN p - 1 ELSE 0
      /\ s.pinned => Genesis(l)
  BY <1>1, WorldIs
<1>3. Route(p, d) =
        IF l.backend \notin RoutedBackends THEN NoIndex
        ELSE IF l.backend = "genesis" /\ s.pinned THEN 0
        ELSE IF s.world > 1 THEN s.local
        ELSE IF l.devices # <<>> THEN l.devices[s.rank + 1]
        ELSE CudaIndex(d)
  BY Zenon DEF Route, RoutedIndex
<1>4. "genesis" \in RoutedBackends
  BY DEF RoutedBackends
<1>5. l.backend \notin RoutedBackends => Route(p, d) = NoIndex
  BY <1>3, Zenon
<1>6. s.pinned => Route(p, d) = 0
  BY <1>2, <1>3, <1>4, Zenon DEF Genesis
<1>7. ASSUME l.backend \in RoutedBackends, ~s.pinned
      PROVE  Route(p, d) = IF Worker(l, p) \/ l.devices # <<>> THEN IndexOf(l, p) ELSE CudaIndex(d)
  <2>1. CASE Worker(l, p)
    BY <1>2, <1>3, <1>7, <2>1, Zenon DEF IndexOf
  <2>2. CASE ~Worker(l, p) /\ l.devices # <<>>
    BY <1>2, <1>3, <1>7, <2>2, Zenon DEF IndexOf
  <2>3. CASE ~Worker(l, p) /\ l.devices = <<>>
    BY <1>2, <1>3, <1>7, <2>3, Zenon
  <2> QED
    BY <2>1, <2>2, <2>3
<1> QED
  BY <1>5, <1>6, <1>7

LEMMA PinnedIs ==
  ASSUME NEW s \in DpRecs, ~s.pinned, NEW n \in Nat, n > 0, n < Len(s.visible)
  PROVE  LET t == [Pinned(s, n) EXCEPT !.context = TRUE] IN
         /\ t \in DpRecs /\ t.pinned = TRUE /\ t.visible = <<s.visible[n + 1]>>
         /\ t.rank = s.rank /\ t.local = s.local /\ t.world = s.world /\ t.learnerGpu = s.learnerGpu
<1> DEFINE g == s.visible[n + 1]
           v == <<g>>
           u == [s EXCEPT !.pinned = TRUE, !.visible = v, !.device = Cuda(0)]
           t == [u EXCEPT !.context = TRUE]
<1>1. g \in Nat
  <2> DEFINE k == n + 1
  <2>1. s.visible \in Seq(Nat) /\ k \in 1 .. Len(s.visible)
    BY RecParts
  <2> HIDE DEF k
  <2>2. s.visible[k] \in Nat
    BY <2>1, ElementOf
  <2> QED
    BY <2>2 DEF k
<1>2. v \in Seq(Nat) /\ Cuda(0) \in DpDevs
  <2> HIDE DEF g
  <2> QED
    BY <1>1, CudaIs DEF Indices
<1>3. Pinned(s, n) = u
  BY Zenon DEF Pinned
<1> HIDE DEF v
<1>4. u \in DpRecs
  BY <1>2, Zenon DEF DpRecs
<1>5. /\ u.pinned = TRUE /\ u.visible = v
      /\ u.rank = s.rank /\ u.local = s.local /\ u.world = s.world /\ u.learnerGpu = s.learnerGpu
  BY Zenon DEF DpRecs
<1> HIDE DEF u
<1>6. t \in DpRecs
  BY <1>4, Zenon DEF DpRecs
<1>7. /\ t.pinned = u.pinned /\ t.visible = u.visible
      /\ t.rank = u.rank /\ t.local = u.local /\ t.world = u.world /\ t.learnerGpu = u.learnerGpu
  BY <1>4, Zenon DEF DpRecs
<1> HIDE DEF t
<1>8. /\ t \in DpRecs /\ t.pinned = TRUE /\ t.visible = <<s.visible[n + 1]>>
      /\ t.rank = s.rank /\ t.local = s.local /\ t.world = s.world /\ t.learnerGpu = s.learnerGpu
  BY <1>5, <1>6, <1>7, Zenon DEF v
<1> QED
  BY <1>3, <1>8, Zenon DEF t

LEMMA Pin_Holds == \A p \in Procs : DpInv /\ Pin(p) => DpInv'
<1> SUFFICES ASSUME NEW p \in Procs, DpInv, Pin(p) PROVE DpInv'
  OBVIOUS
<1> DEFINE l == dpLaunch
           s == dpProc[p]
           index == Route(p, l.device)
           pins == l.backend = "genesis" /\ index > 0
           bound == [Pinned(s, index) EXCEPT !.context = TRUE]
           u == IF s.world > 1 THEN [bound EXCEPT !.local = 0] ELSE bound
           x == "device"
<1>1. s \in DpRecs /\ Placed(l, p, s) /\ l \in DpLaunches /\ s.at = "pin"
  BY ProcParts DEF Pin
<1>2. Known(l, p, s) /\ ~s.pinned /\ s.learnerGpu = NoIndex /\ IsSet(l.devices)
  BY <1>1 DEF Placed, Reached, Early, Unbuilt
<1>3. /\ s.world > 1 <=> Worker(l, p)
      /\ Belongs(l, p) /\ s.rank = RankOf(l, p)
      /\ s.local = IF Worker(l, p) THEN p - 1 ELSE 0
      /\ s.visible = BaseOf(l, p)
  BY <1>1, <1>2, WorldIs
<1>4. l.device \in DpDevs /\ IndexOf(l, p) \in Indices
  BY <1>1, <1>3, LaunchParts, WishParts
<1>5. Genesis(l) => index = IndexOf(l, p)
  <2>1. ~ (Worker(l, p) \/ l.devices # <<>>) => IndexOf(l, p) = CudaIndex(l.device)
    BY DEF IndexOf
  <2> QED
    BY <1>2, <1>4, <2>1, RouteIs DEF Genesis, RoutedBackends
<1>6. x \in DpPlaces \ {"absent"} /\ x \in Before /\ x \in Unbuilt /\ x \notin {"supervise", "build"}
  BY DEF DpPlaces, Before, Unbuilt, Early
<1>7. s.at \notin Over \cup {"absent", "waiting"} /\ s.at \in Before
  BY <1>1 DEF Over, Before
<1>8. CASE ~pins
  <2> DEFINE accepted == l.backend = "genesis" => Routable(p)
  <2>1. Proceed(p, accepted, s, x)
    BY <1>8, Zenon DEF Pin
  <2>2. accepted \in BOOLEAN
    OBVIOUS
  <2>3. Genesis(l) => IndexOf(l, p) <= 0
    <3>1. \A k \in Indices : ~ (k > 0) => k <= 0
      BY DEF Indices, NoIndex
    <3>2. Genesis(l) => ~ (IndexOf(l, p) > 0)
      BY <1>5, <1>8 DEF Genesis
    <3> QED
      BY <1>4, <3>1, <3>2
  <2>4. Placed(l, p, [s EXCEPT !.at = x])
    <3>1. [s EXCEPT !.at = x].at = x /\ [s EXCEPT !.at = x].pinned = s.pinned
      BY <1>1, <1>6, AtIs DEF Alike
    <3>2. Reached(l, p, [s EXCEPT !.at = x])
      BY <1>2, <2>3, <3>1 DEF Reached, Early
    <3> HIDE DEF x, s
    <3>3. s.at # "absent" /\ x \in DpPlaces
      BY <1>1, <1>6
    <3> QED
      BY <1>1, <1>2, <1>6, <3>2, <3>3, Advanced
  <2> HIDE DEF accepted, x
  <2> QED
    BY <1>1, <1>6, <1>7, <2>1, <2>2, <2>4, Proceeded
<1>9. CASE pins
  <2> DEFINE accepted == Routable(p) /\ Pinnable(s, index)
             t == [u EXCEPT !.at = x]
  <2>1. Proceed(p, accepted, u, x)
    BY <1>9, Zenon DEF Pin
  <2>2. accepted \in BOOLEAN
    OBVIOUS
  <2>3. CASE ~accepted
    BY <1>7, <2>1, <2>3, RefusedPlaced DEF Proceed
  <2>4. CASE accepted
    <3>1. index = IndexOf(l, p) /\ index \in Nat /\ index > 0 /\ Genesis(l)
      BY <1>4, <1>5, <1>9 DEF Genesis, Indices, NoIndex
    <3>2. index < Len(s.visible)
      BY <1>2, <2>4, <3>1 DEF Pinnable
    <3> HIDE DEF s, index
    <3>3. /\ bound \in DpRecs /\ bound.pinned = TRUE /\ bound.visible = <<s.visible[index + 1]>>
          /\ bound.rank = s.rank /\ bound.local = s.local /\ bound.world = s.world
          /\ bound.learnerGpu = s.learnerGpu
      BY <1>1, <1>2, <3>1, <3>2, PinnedIs, Zenon
    <3> HIDE DEF bound
    <3>4. /\ u \in DpRecs /\ u.pinned = TRUE /\ u.visible = <<s.visible[index + 1]>>
          /\ u.rank = s.rank /\ u.local = 0 /\ u.world = s.world /\ u.learnerGpu = s.learnerGpu
      <4>1. CASE s.world > 1
        <5> DEFINE w == [bound EXCEPT !.local = 0]
        <5>1. u = w
          BY <4>1
        <5>2. w \in DpRecs
          BY <3>3, Zenon DEF DpRecs
        <5>3. /\ w.pinned = bound.pinned /\ w.visible = bound.visible
              /\ w.rank = bound.rank /\ w.local = 0 /\ w.world = bound.world /\ w.learnerGpu = bound.learnerGpu
          BY <3>3, Zenon DEF DpRecs
        <5> HIDE DEF w, u
        <5> QED
          BY <3>3, <5>1, <5>2, <5>3, Zenon
      <4>2. CASE ~ (s.world > 1)
        <5>1. u = bound
          BY <4>2
        <5>2. s.local = 0
          BY <1>3, <4>2
        <5> HIDE DEF u
        <5> QED
          BY <3>3, <5>1, <5>2, Zenon
      <4> QED
        BY <4>1, <4>2
    <3> HIDE DEF u
    <3>5. x \in DpPlaces
      BY <1>6
    <3>6. /\ t.at = x /\ t.pinned = TRUE /\ t.visible = <<s.visible[index + 1]>>
          /\ t.rank = s.rank /\ t.local = 0 /\ t.world = s.world /\ t.learnerGpu = s.learnerGpu
      <4>1. t.at = x /\ Alike(u, t) /\ Built(u, t)
        BY <3>4, <3>5, AtIs
      <4> HIDE DEF t
      <4> QED
        BY <3>4, <4>1, Zenon DEF Alike, Built
    <3> HIDE DEF t
    <3>7. Known(l, p, t)
      <4>1. t.world = IF Worker(l, p) THEN Len(l.devices) ELSE 1
        BY <1>2, <3>6 DEF Known
      <4>2. Sees(l, p, t)
        BY <1>3, <3>1, <3>2, <3>6 DEF Sees
      <4>3. t.local = IF Worker(l, p) /\ ~t.pinned THEN p - 1 ELSE 0
        BY <3>6, Zenon
      <4> QED
        BY <1>3, <3>6, <4>1, <4>2, <4>3, Zenon DEF Known
    <3>8. Reached(l, p, t) /\ Well(l, p, t)
      BY <1>2, <3>6 DEF Reached, Well, Early
    <3>9. Placed(l, p, t)
      BY <1>2, <3>6, <3>7, <3>8 DEF Placed
    <3> HIDE DEF accepted, x
    <3> QED
      BY <1>6, <1>7, <2>1, <2>2, <3>4, <3>9, Proceeded DEF t, s
  <2> QED
    BY <2>3, <2>4
<1> QED
  BY <1>8, <1>9

------------------------------------------------------------------------------
(* The device.                                                                *)

LEMMA DeviceIs ==
  ASSUME NEW s \in DpRecs, NEW d \in DpDevs
  PROVE  /\ [s EXCEPT !.device = d] \in DpRecs /\ [s EXCEPT !.device = d].device = d
         /\ Alike(s, [s EXCEPT !.device = d]) /\ [s EXCEPT !.device = d].learnerGpu = s.learnerGpu
<1>1. [s EXCEPT !.device = d] \in DpRecs
  BY Zenon DEF DpRecs
<1>2. [s EXCEPT !.device = d].device = d /\ [s EXCEPT !.device = d].learnerGpu = s.learnerGpu
  BY Zenon DEF DpRecs
<1>3. Alike(s, [s EXCEPT !.device = d])
  BY Zenon DEF DpRecs, Alike
<1> QED
  BY <1>1, <1>2, <1>3

LEMMA ContextIs ==
  ASSUME NEW s \in DpRecs
  PROVE  /\ [s EXCEPT !.context = TRUE] \in DpRecs /\ [s EXCEPT !.context = TRUE].device = s.device
         /\ Alike(s, [s EXCEPT !.context = TRUE]) /\ [s EXCEPT !.context = TRUE].learnerGpu = s.learnerGpu
<1>1. [s EXCEPT !.context = TRUE] \in DpRecs
  BY Zenon DEF DpRecs
<1>2. [s EXCEPT !.context = TRUE].device = s.device /\ [s EXCEPT !.context = TRUE].learnerGpu = s.learnerGpu
  BY Zenon DEF DpRecs
<1>3. Alike(s, [s EXCEPT !.context = TRUE])
  BY Zenon DEF DpRecs, Alike
<1> QED
  BY <1>1, <1>2, <1>3

LEMMA CollectorIs ==
  ASSUME NEW s \in DpRecs, NEW d \in DpDevs
  PROVE  /\ [s EXCEPT !.collector = d] \in DpRecs /\ [s EXCEPT !.collector = d].device = s.device
         /\ [s EXCEPT !.collector = d].collector = d
         /\ Alike(s, [s EXCEPT !.collector = d]) /\ [s EXCEPT !.collector = d].learnerGpu = s.learnerGpu
<1>1. [s EXCEPT !.collector = d] \in DpRecs
  BY Zenon DEF DpRecs
<1>2. /\ [s EXCEPT !.collector = d].device = s.device /\ [s EXCEPT !.collector = d].collector = d
      /\ [s EXCEPT !.collector = d].learnerGpu = s.learnerGpu
  BY Zenon DEF DpRecs
<1>3. Alike(s, [s EXCEPT !.collector = d])
  BY Zenon DEF DpRecs, Alike
<1> QED
  BY <1>1, <1>2, <1>3

LEMMA AlikeTwice ==
  ASSUME NEW a, NEW b, NEW c, Alike(a, b), Alike(b, c)
  PROVE  Alike(a, c)
  BY Zenon DEF Alike

\* A Genesis process that was not pinned by now has the first GPU for its own.
LEMMA FirstOfGenesis ==
  ASSUME NEW l \in DpLaunches, NEW p \in Procs, Belongs(l, p), IndexOf(l, p) <= 0
  PROVE  /\ ~ (CudaIndex(ChosenBy(l, p)) > 0)
         /\ ChosenBy(l, p).type = "cuda" => CudaIndex(ChosenBy(l, p)) = 0
<1>1. ChosenBy(l, p) \in DpDevs /\ IndexOf(l, p) \in Indices
  BY ChosenIs, WishParts
<1>2. CudaIndex(ChosenBy(l, p)) \in {0, NoIndex}
  <2>1. CASE l.devices # <<>> \/ l.device # NoDevice
    <3>1. CudaIndex(ChosenBy(l, p)) = IndexOf(l, p)
      BY <2>1, ChosenIs
    <3> QED
      BY <1>1, <3>1 DEF Indices
  <2>2. CASE l.devices = <<>> /\ l.device = NoDevice
    BY <2>2, ChosenIs
  <2> QED
    BY <2>1, <2>2
<1>3. ChosenBy(l, p).type = "cuda" => CudaIndex(ChosenBy(l, p)) # NoIndex
  BY <1>1, IndexIs
<1> QED
  BY <1>2, <1>3 DEF NoIndex

LEMMA ConfiguredIs ==
  ASSUME DpInv, NEW p \in Procs, Known(dpLaunch, p, dpProc[p])
  PROVE  ConfiguredDevice(p) = IF dpProc[p].pinned THEN Cuda(0) ELSE ChosenBy(dpLaunch, p)
<1> DEFINE s == dpProc[p]
           l == dpLaunch
<1>1. s \in DpRecs /\ l \in DpLaunches
  BY ProcParts
<1>2. /\ s.world > 1 <=> Worker(l, p)
      /\ s.rank = RankOf(l, p) /\ Belongs(l, p)
      /\ s.local = IF Worker(l, p) /\ ~s.pinned THEN p - 1 ELSE 0
      /\ ~s.pinned => s.visible = BaseOf(l, p)
  BY <1>1, WorldIs
<1>3. ConfiguredDevice(p) =
        IF s.pinned THEN Cuda(0)
        ELSE IF l.script = "ppo" /\ s.world > 1 THEN Cuda(s.local)
        ELSE IF l.devices # <<>> /\ l.script # "appo" THEN Cuda(l.devices[s.rank + 1])
        ELSE IF l.device # NoDevice THEN l.device
        ELSE DefaultDevice(s.visible)
  BY Zenon DEF ConfiguredDevice
<1>4. l.script = "appo" => l.devices = <<>>
  BY <1>1, LaunchParts
<1>5. Worker(l, p) => l.script = "ppo"
  BY DEF Worker
<1>6. CASE s.pinned
  BY <1>3, <1>6, Zenon
<1>7. CASE ~s.pinned /\ Worker(l, p)
  BY <1>2, <1>3, <1>5, <1>7, Zenon DEF ChosenBy
<1>8. CASE ~s.pinned /\ ~Worker(l, p) /\ l.devices # <<>>
  BY <1>2, <1>3, <1>4, <1>8, Zenon DEF ChosenBy
<1>9. CASE ~s.pinned /\ ~Worker(l, p) /\ l.devices = <<>> /\ l.device # NoDevice
  BY <1>2, <1>3, <1>9, Zenon DEF ChosenBy
<1>10. CASE ~s.pinned /\ ~Worker(l, p) /\ l.devices = <<>> /\ l.device = NoDevice
  BY <1>2, <1>3, <1>10, Zenon DEF ChosenBy, BaseOf
<1> QED
  BY <1>6, <1>7, <1>8, <1>9, <1>10

LEMMA ChooseDevice_Holds == \A p \in Procs : DpInv /\ ChooseDevice(p) => DpInv'
<1> SUFFICES ASSUME NEW p \in Procs, DpInv, ChooseDevice(p) PROVE DpInv'
  OBVIOUS
<1> DEFINE l == dpLaunch
           s == dpProc[p]
           device == ConfiguredDevice(p)
           binds == device.type = "cuda"
           bound == IF binds THEN BoundTo(s, device) ELSE [s EXCEPT !.device = device]
           follows == l.collector.type = "cuda" /\ (s.pinned \/ (binds /\ l.backend \in BoundBackends))
           collector == IF follows THEN bound.device ELSE l.collector
           u == [bound EXCEPT !.collector = collector]
           x == IF l.script = "offpolicy" /\ s.rank = 0 /\ Len(l.devices) > 1 THEN "supervise" ELSE "build"
           accepted == binds => Bindable(s, device)
           t == [u EXCEPT !.at = x]
<1>1. s.at = "device" /\ Proceed(p, accepted, u, x)
  BY Zenon DEF ChooseDevice
<1>2. s \in DpRecs /\ Placed(l, p, s) /\ l \in DpLaunches
  BY ProcParts
<1>3. /\ Known(l, p, s) /\ s.learnerGpu = NoIndex /\ IsSet(l.devices)
      /\ Genesis(l) /\ ~s.pinned => IndexOf(l, p) <= 0
  BY <1>1, <1>2 DEF Placed, Reached, Unbuilt
<1>4. Belongs(l, p) /\ (s.pinned => Genesis(l))
  BY <1>2, <1>3, WorldIs
<1>5. device = IF s.pinned THEN Cuda(0) ELSE ChosenBy(l, p)
  BY <1>3, ConfiguredIs
<1>6. Cuda(0) \in DpDevs /\ Cuda(0).type = "cuda" /\ CudaIndex(Cuda(0)) = 0 /\ ChosenBy(l, p) \in DpDevs
  BY <1>2, <1>4, CudaIs, ChosenIs DEF Indices, NoIndex
<1>7. device \in DpDevs
  BY <1>5, <1>6
<1> HIDE DEF device, s
<1>8. bound \in DpRecs /\ Alike(s, bound) /\ bound.learnerGpu = NoIndex /\ bound.device = BoundBy(l, p, s)
  <2>1. CASE Genesis(l) /\ binds
    <3>1. ~ (CudaIndex(device) > 0)
      <4>1. CASE s.pinned
        BY <1>5, <1>6, <4>1
      <4>2. CASE ~s.pinned
        BY <1>2, <1>3, <1>4, <1>5, <2>1, <4>2, FirstOfGenesis
      <4> QED
        BY <4>1, <4>2
    <3> DEFINE w == [s EXCEPT !.device = Cuda(0)]
    <3>2. bound = [w EXCEPT !.context = TRUE]
      BY <2>1, <3>1, Zenon DEF Genesis, BoundTo, Pinned
    <3>3. w \in DpRecs /\ w.device = Cuda(0) /\ Alike(s, w) /\ w.learnerGpu = s.learnerGpu
      BY <1>2, <1>6, DeviceIs
    <3> HIDE DEF w, bound
    <3>4. bound \in DpRecs /\ bound.device = w.device /\ Alike(w, bound) /\ bound.learnerGpu = w.learnerGpu
      BY <3>2, <3>3, ContextIs
    <3>5. Alike(s, bound)
      BY <3>3, <3>4, AlikeTwice
    <3>6. BoundBy(l, p, s) = Cuda(0)
      BY <1>5, <2>1, Zenon DEF BoundBy
    <3> QED
      BY <1>3, <3>3, <3>4, <3>5, <3>6
  <2>2. CASE ~ (Genesis(l) /\ binds)
    <3>1. bound = [s EXCEPT !.device = device]
      BY <2>2, Zenon DEF Genesis, BoundTo
    <3>2. ~s.pinned
      BY <1>4, <1>5, <1>6, <2>2
    <3>3. BoundBy(l, p, s) = device
      BY <1>5, <2>2, <3>2, Zenon DEF BoundBy
    <3> HIDE DEF bound
    <3> QED
      BY <1>2, <1>3, <1>7, <3>1, <3>3, DeviceIs
  <2> QED
    BY <2>1, <2>2
<1>9. collector \in DpDevs
  BY <1>2, <1>8, LaunchParts, RecParts
<1>10. Genesis(l) /\ bound.device.type = "cuda" /\ collector.type = "cuda" => collector = Cuda(0)
  <2> SUFFICES ASSUME Genesis(l), bound.device.type = "cuda", collector.type = "cuda" PROVE collector = Cuda(0)
    OBVIOUS
  <2>1. bound.device = Cuda(0)
    BY <1>8, Zenon DEF BoundBy
  <2>2. follows
    <3>1. SUFFICES ASSUME ~follows PROVE FALSE
      OBVIOUS
    <3>2. collector = l.collector
      BY <3>1
    <3>3. ~s.pinned /\ ~binds
      BY <3>1, <3>2 DEF Genesis, BoundBackends
    <3>4. bound.device = device
      BY <1>5, <1>8, <3>3, Zenon DEF BoundBy
    <3> QED
      BY <3>3, <3>4
  <2> QED
    BY <2>1, <2>2
<1> HIDE DEF bound, collector
<1>11. u \in DpRecs /\ u.device = bound.device /\ u.collector = collector /\ Alike(bound, u) /\ u.learnerGpu = bound.learnerGpu
  BY <1>8, <1>9, CollectorIs
<1> HIDE DEF u
<1>12. x \in {"supervise", "build"} /\ x \in DpPlaces \ {"absent"} /\ (x = "supervise" => l.script = "offpolicy" /\ Len(l.devices) > 1)
  BY DEF DpPlaces, Unbuilt
<1> HIDE DEF x
<1>13. t.at = x /\ Alike(u, t) /\ Built(u, t) /\ t.device = u.device
  BY <1>11, <1>12, AtIs
<1> HIDE DEF t
<1>14. Alike(s, t)
  BY <1>8, <1>11, <1>13, AlikeTwice
<1>15. Known(l, p, t) /\ t.learnerGpu = NoIndex /\ t.pinned = s.pinned
  BY <1>3, <1>8, <1>11, <1>13, <1>14, AlikeKnown DEF Built, Alike
<1>16. Reached(l, p, t)
  BY <1>3, <1>12, <1>13, <1>15 DEF Reached, Early
<1>17. Bound(l, p, t)
  <2>1. BoundBy(l, p, t) = BoundBy(l, p, s)
    BY <1>15, Zenon DEF BoundBy
  <2>2. t.collector = collector /\ t.device = bound.device
    BY <1>11, <1>13 DEF Built
  <2> QED
    BY <1>8, <1>10, <2>1, <2>2 DEF Bound, Collects
<1>18. Placed(l, p, t)
  BY <1>13, <1>15, <1>16, <1>17 DEF Placed, Well
<1>19. s.at \notin Over \cup {"absent", "waiting"} /\ s.at \in Before
  BY <1>1 DEF Over, Before
<1>20. accepted \in BOOLEAN
  OBVIOUS
<1> HIDE DEF accepted
<1> QED
  BY <1>1, <1>11, <1>12, <1>18, <1>19, <1>20, Proceeded DEF t, s

------------------------------------------------------------------------------
(* Building.                                                                  *)

Ready(l, p, s) ==
  /\ Known(l, p, s) /\ Bound(l, p, s)
  /\ Genesis(l) /\ ~s.pinned => IndexOf(l, p) <= 0

\* The device a process is bound to has the index of the one it chose; a pinned process
\* has its own GPU for the only one.
LEMMA BoundIndex ==
  ASSUME NEW l \in DpLaunches, NEW p \in Procs, NEW s \in DpRecs, Ready(l, p, s)
  PROVE  /\ s.pinned => /\ Genesis(l) /\ s.device = Cuda(0) /\ IndexOf(l, p) > 0
                        /\ \E g \in Nat : g = GpuOf(l, p) /\ s.visible = <<g>>
         /\ ~s.pinned => CudaIndex(s.device) = CudaIndex(ChosenBy(l, p)) /\ s.visible = BaseOf(l, p)
         /\ ~s.pinned /\ s.device.type = "cuda" => ChosenBy(l, p).type = "cuda"
<1>1. Known(l, p, s) /\ Belongs(l, p) /\ s.device = BoundBy(l, p, s)
  BY WorldIs DEF Ready, Bound
<1>2. /\ IndexOf(l, p) \in Indices /\ BaseOf(l, p) \in Seq(Nat) /\ ChosenBy(l, p) \in DpDevs
      /\ Cuda(0) \in DpDevs /\ CudaIndex(Cuda(0)) = 0 /\ Cuda(0).type = "cuda"
  BY <1>1, WishParts, ChosenIs, CudaIs DEF Indices, NoIndex
<1>3. ASSUME s.pinned
      PROVE  /\ Genesis(l) /\ s.device = Cuda(0) /\ IndexOf(l, p) > 0
             /\ \E g \in Nat : g = GpuOf(l, p) /\ s.visible = <<g>>
  <2>1. /\ Genesis(l) /\ IndexOf(l, p) > 0 /\ IndexOf(l, p) < Len(BaseOf(l, p))
        /\ s.visible = <<BaseOf(l, p)[IndexOf(l, p) + 1]>>
    BY <1>1, <1>3, WorldIs
  <2>2. CudaIndex(ChosenBy(l, p)) = IndexOf(l, p)
    <3>1. ~ (l.devices = <<>> /\ l.device = NoDevice)
      <4> SUFFICES ASSUME l.devices = <<>>, l.device = NoDevice PROVE FALSE
        OBVIOUS
      <4>1. IndexOf(l, p) = NoIndex
        BY <1>1, ChosenIs
      <4> QED
        BY <2>1, <4>1 DEF NoIndex
    <3> QED
      BY <1>1, <3>1, ChosenIs
  <2>3. IndexOf(l, p) \in 0 .. Len(BaseOf(l, p)) - 1 /\ IndexOf(l, p) + 1 \in 1 .. Len(BaseOf(l, p))
    BY <1>2, <2>1 DEF Indices, NoIndex
  <2>4. BaseOf(l, p)[IndexOf(l, p) + 1] = GpuOf(l, p)
    BY <1>1, <2>2, <2>3, GpuIs
  <2>5. BaseOf(l, p)[IndexOf(l, p) + 1] \in Nat
    BY <1>2, <2>3, ElementOf
  <2>6. s.device = Cuda(0)
    BY <1>1, <1>3, Zenon DEF BoundBy
  <2> QED
    BY <2>1, <2>4, <2>5, <2>6
<1>4. ASSUME ~s.pinned
      PROVE  /\ CudaIndex(s.device) = CudaIndex(ChosenBy(l, p)) /\ s.visible = BaseOf(l, p)
             /\ s.device.type = "cuda" => ChosenBy(l, p).type = "cuda"
  <2>1. s.visible = BaseOf(l, p)
    BY <1>1, <1>4, WorldIs
  <2>2. CASE Genesis(l) /\ ChosenBy(l, p).type = "cuda"
    <3>1. s.device = Cuda(0)
      BY <1>1, <2>2, Zenon DEF BoundBy
    <3>2. IndexOf(l, p) <= 0
      BY <1>4, <2>2 DEF Ready
    <3>3. CudaIndex(ChosenBy(l, p)) = 0
      BY <1>1, <2>2, <3>2, FirstOfGenesis
    <3> QED
      BY <1>2, <2>1, <2>2, <3>1, <3>3
  <2>3. CASE ~ (Genesis(l) /\ ChosenBy(l, p).type = "cuda")
    <3>1. s.device = ChosenBy(l, p)
      BY <1>1, <1>4, <2>3, Zenon DEF BoundBy
    <3> QED
      BY <2>1, <3>1
  <2> QED
    BY <2>2, <2>3
<1> QED
  BY <1>3, <1>4

LEMMA OnlyGpu ==
  ASSUME NEW g \in Nat, NEW d \in DpDevs
  PROVE  /\ CudaIndex(d) = 0 => Physical(<<g>>, d) = g
         /\ CudaIndex(d) > 0 => Physical(<<g>>, d) = NoIndex
<1> DEFINE v == <<g>>
<1>1. v \in Seq(Nat) /\ Len(v) = 1 /\ v[1] = g /\ CudaIndex(d) \in Indices
  BY IndexIs
<1> HIDE DEF v
<1>2. CudaIndex(d) = 0 => Physical(v, d) = g
  <2> SUFFICES ASSUME CudaIndex(d) = 0 PROVE Physical(v, d) = g
    OBVIOUS
  <2>1. CudaIndex(d) \in 0 .. Len(v) - 1 /\ CudaIndex(d) + 1 = 1
    BY <1>1
  <2>2. Physical(v, d) = v[CudaIndex(d) + 1]
    BY <1>1, <2>1, PhysicalIs
  <2> QED
    BY <1>1, <2>1, <2>2
<1>3. CudaIndex(d) > 0 => Physical(v, d) = NoIndex
  <2> SUFFICES ASSUME CudaIndex(d) > 0 PROVE Physical(v, d) = NoIndex
    OBVIOUS
  <2>1. CudaIndex(d) \notin 0 .. Len(v) - 1
    BY <1>1
  <2> QED
    BY <1>1, <2>1, PhysicalIs
<1> QED
  BY <1>2, <1>3 DEF v

LEMMA DeviceGpu ==
  ASSUME NEW l \in DpLaunches, NEW p \in Procs, NEW s \in DpRecs, Ready(l, p, s),
         Physical(s.visible, s.device) # NoIndex
  PROVE  Physical(s.visible, s.device) = GpuOf(l, p) /\ s.device.type = "cuda"
<1>1. s.visible \in Seq(Nat) /\ s.device \in DpDevs
  BY RecParts
<1>2. CudaIndex(s.device) \in 0 .. Len(s.visible) - 1 /\ Physical(s.visible, s.device) = s.visible[CudaIndex(s.device) + 1]
  BY <1>1, PhysicalIs
<1>3. s.device.type = "cuda"
  <2>1. CudaIndex(s.device) # NoIndex
    BY <1>2 DEF NoIndex
  <2> QED
    BY <1>1, <2>1, IndexIs
<1>4. CASE s.pinned
  <2>1. s.device = Cuda(0) /\ CudaIndex(Cuda(0)) = 0 /\ Cuda(0) \in DpDevs
    BY <1>4, BoundIndex, CudaIs DEF Indices, NoIndex
  <2>2. PICK g \in Nat : g = GpuOf(l, p) /\ s.visible = <<g>>
    BY <1>4, BoundIndex
  <2>3. Physical(<<g>>, s.device) = g
    BY <1>1, <2>1, OnlyGpu
  <2> QED
    BY <1>3, <2>2, <2>3
<1>5. CASE ~s.pinned
  <2>1. CudaIndex(s.device) = CudaIndex(ChosenBy(l, p)) /\ s.visible = BaseOf(l, p)
    BY <1>5, BoundIndex
  <2>2. Belongs(l, p)
    BY DEF Ready, Known
  <2>3. BaseOf(l, p)[CudaIndex(ChosenBy(l, p)) + 1] = GpuOf(l, p)
    BY <1>2, <2>1, <2>2, GpuIs
  <2> QED
    BY <1>2, <1>3, <2>1, <2>3
<1> QED
  BY <1>4, <1>5

\* The GPU of an index is the same through every device of that index.
LEMMA SameGpu ==
  ASSUME NEW v, NEW d, NEW e, CudaIndex(d) = CudaIndex(e)
  PROVE  Physical(v, d) = Physical(v, e)
  BY DEF Physical

\* What the learner finds is the GPU its process is bound to: an APPO learner of a pinned
\* process finds none.
LEMMA LearnerIs ==
  ASSUME DpInv, NEW p \in Procs, Ready(dpLaunch, p, dpProc[p])
  PROVE  /\ LearnerDevice(p) \in DpDevs
         /\ Physical(dpProc[p].visible, LearnerDevice(p)) # NoIndex =>
               Physical(dpProc[p].visible, LearnerDevice(p)) = Physical(dpProc[p].visible, dpProc[p].device)
<1> DEFINE s == dpProc[p]
           l == dpLaunch
           d == LearnerDevice(p)
<1>1. s \in DpRecs /\ l \in DpLaunches
  BY ProcParts
<1>2. s.device \in DpDevs /\ l.device \in DpDevs /\ s.visible \in Seq(Nat)
  BY <1>1, RecParts, LaunchParts
<1>3. d = IF l.script # "appo" THEN s.device
          ELSE IF l.device # NoDevice THEN l.device ELSE DefaultDevice(s.visible)
  BY Zenon DEF LearnerDevice
<1>4. DefaultDevice(s.visible) \in DpDevs
  BY OtherDevices DEF DefaultDevice
<1>5. d \in DpDevs
  BY <1>2, <1>3, <1>4
<1> HIDE DEF d, s
<1>6. ASSUME l.script = "appo", Physical(s.visible, d) # NoIndex
      PROVE  Physical(s.visible, d) = Physical(s.visible, s.device)
  <2>1. l.devices = <<>> /\ ~Worker(l, p)
    BY <1>1, <1>6, LaunchParts DEF Worker
  <2>2. Ready(l, p, s) /\ Belongs(l, p)
    BY DEF s, Ready, Known
  <2>3. IndexOf(l, p) = CudaIndex(l.device)
    BY <2>1 DEF IndexOf
  <2>4. CASE s.pinned
    <3>1. IndexOf(l, p) > 0
      BY <1>1, <2>2, <2>4, BoundIndex
    <3>2. PICK g \in Nat : s.visible = <<g>>
      BY <1>1, <2>2, <2>4, BoundIndex
    <3>3. l.device # NoDevice
      BY <2>3, <3>1, OtherDevices DEF NoIndex
    <3>4. d = l.device
      BY <1>3, <1>6, <3>3
    <3>5. Physical(<<g>>, d) = NoIndex
      BY <1>5, <2>3, <3>1, <3>4, OnlyGpu
    <3> QED
      BY <1>6, <3>2, <3>5
  <2>5. CASE ~s.pinned
    <3>1. CudaIndex(s.device) = CudaIndex(ChosenBy(l, p)) /\ s.visible = BaseOf(l, p)
      BY <1>1, <2>2, <2>5, BoundIndex
    <3>2. s.visible = l.mask
      BY <2>1, <3>1 DEF BaseOf
    <3>3. d = ChosenBy(l, p)
      BY <1>3, <1>6, <2>1, <3>2, Zenon DEF ChosenBy
    <3>4. CudaIndex(d) = CudaIndex(s.device)
      BY <3>1, <3>3
    <3> QED
      BY <3>4, SameGpu
  <2> QED
    BY <2>4, <2>5
<1>7. l.script # "appo" => d = s.device
  BY <1>3
<1> QED
  BY <1>5, <1>6, <1>7 DEF d, s

LEMMA SimulatorTypes ==
  ASSUME NEW v \in Seq(Nat), NEW d \in DpDevs, NEW n \in Indices
  PROVE  SimulatorGpu(v, d, n) \in Indices
<1>1. (IF n > 0 THEN n ELSE 0) \in Indices
  BY DEF Indices, NoIndex
<1>2. NoIndex \in Indices
  BY DEF Indices
<1>3. Physical(v, d) \in Indices /\ Physical(v, Cuda(n)) \in Indices
  BY CudaIs, PhysicalIs
<1>4. Physical(v, Cuda(IF n > 0 THEN n ELSE 0)) \in Indices
  <2> DEFINE m == IF n > 0 THEN n ELSE 0
  <2> HIDE DEF m
  <2>1. m \in Indices => Physical(v, Cuda(m)) \in Indices
    BY CudaIs, PhysicalIs
  <2> QED
    BY <1>1, <2>1 DEF m
<1> QED
  BY <1>2, <1>3, <1>4 DEF SimulatorGpu

\* A simulator that has a GPU has the one of the device its process is given for it.
LEMMA SimulatorIs ==
  ASSUME DpInv, NEW p \in Procs, Ready(dpLaunch, p, dpProc[p]), dpProc[p].device.type = "cuda",
         NEW e \in DpDevs, e = IF Collects(dpLaunch, dpProc[p]) THEN dpProc[p].collector ELSE dpProc[p].device,
         SimulatorGpu(dpProc[p].visible, e, Route(p, e)) # NoIndex
  PROVE  SimulatorGpu(dpProc[p].visible, e, Route(p, e)) = Physical(dpProc[p].visible, e)
<1> DEFINE s == dpProc[p]
           l == dpLaunch
           index == Route(p, e)
<1>1. s \in DpRecs /\ l \in DpLaunches
  BY ProcParts
<1>2. Known(l, p, s) /\ Bound(l, p, s) /\ Belongs(l, p)
  BY DEF Ready, Known
<1>3. /\ s.pinned => index = 0
      /\ l.backend \in RoutedBackends /\ ~s.pinned =>
            index = IF Worker(l, p) \/ l.devices # <<>> THEN IndexOf(l, p) ELSE CudaIndex(e)
  BY <1>2, RouteIs
<1>4. s.device \in DpDevs /\ s.device.type = "cuda" /\ e.type = "cuda"
  BY <1>1, RecParts, Zenon DEF Collects
<1>5. s.pinned => Genesis(l)
  BY <1>1, BoundIndex
<1>6. IndexOf(l, p) \in Indices
  BY <1>1, <1>2, WishParts
<1> HIDE DEF index, s
<1>7. CASE l.backend \in IsolatedBackends \cup {"newton"}
  <2>1. ~Genesis(l) /\ l.backend \in RoutedBackends
    BY <1>7 DEF Genesis, IsolatedBackends, RoutedBackends
  <2>2. SimulatorGpu(s.visible, e, index) = Physical(s.visible, Cuda(index))
    <3>1. \A x, y, z : (CASE l.backend \in IsolatedBackends \cup {"newton"} -> x
                                        [] l.backend = "mjwarp" -> y [] l.backend = "genesis" -> z [] OTHER -> NoIndex) = x
      BY <1>7 DEF IsolatedBackends
    <3> QED
      BY <3>1, Zenon DEF SimulatorGpu
  <2>3. index \in Indices /\ index = CudaIndex(e) /\ index # NoIndex
    <3>1. CASE Worker(l, p) \/ l.devices # <<>>
      <4>1. ~Collects(l, s)
        BY <1>1, <3>1, LaunchParts DEF Worker, Collects
      <4>2. e = s.device
        BY <4>1 DEF s
      <4>3. index = IndexOf(l, p)
        BY <1>3, <1>5, <2>1, <3>1
      <4>4. l.devices # <<>>
        BY <1>1, <1>2, <3>1, WishParts
      <4>5. CudaIndex(ChosenBy(l, p)) = IndexOf(l, p)
        BY <1>1, <1>2, <4>4, ChosenIs
      <4>6. CudaIndex(s.device) = CudaIndex(ChosenBy(l, p))
        BY <1>1, <1>5, <2>1, BoundIndex DEF s
      <4>7. CudaIndex(s.device) # NoIndex
        BY <1>4, IndexIs
      <4> QED
        BY <1>6, <4>2, <4>3, <4>5, <4>6, <4>7
    <3>2. CASE ~ (Worker(l, p) \/ l.devices # <<>>)
      <4>1. index = CudaIndex(e)
        BY <1>3, <1>5, <2>1, <3>2
      <4> QED
        BY <1>4, <4>1, IndexIs
    <3> QED
      BY <3>1, <3>2
  <2>4. CudaIndex(Cuda(index)) = CudaIndex(e)
    BY <2>3, CudaIs
  <2>5. Physical(s.visible, Cuda(index)) = Physical(s.visible, e)
    BY <2>4, SameGpu
  <2> QED
    BY <2>2, <2>5 DEF index, s
<1>8. CASE l.backend = "mjwarp"
  <2>1. l.backend \notin IsolatedBackends \cup {"newton"}
    BY <1>8 DEF IsolatedBackends
  <2> QED
    BY <1>8, <2>1, Zenon DEF SimulatorGpu
<1>9. CASE Genesis(l)
  <2>1. s.device = Cuda(0)
    BY <1>2, <1>4, <1>9, Zenon DEF Bound, BoundBy
  <2>2. e = Cuda(0)
    BY <1>2, <1>4, <1>9, <2>1, Zenon DEF Bound, s
  <2>3. CudaIndex(Cuda(0)) = 0
    BY CudaIs DEF Indices, NoIndex
  <2>4. ~ (index > 0)
    <3>1. CASE s.pinned
      BY <1>3, <3>1 DEF s
    <3>2. CASE ~s.pinned
      <4>1. l.backend \in RoutedBackends
        BY <1>9 DEF Genesis, RoutedBackends
      <4>2. IndexOf(l, p) <= 0
        BY <1>9, <3>2 DEF Ready, s
      <4>3. index = IndexOf(l, p) \/ index = CudaIndex(e)
        BY <1>3, <3>2, <4>1, Zenon DEF s
      <4>4. \A k \in Indices : k <= 0 => ~ (k > 0)
        BY DEF Indices, NoIndex
      <4> QED
        BY <1>6, <2>2, <2>3, <4>2, <4>3, <4>4
    <3> QED
      BY <3>1, <3>2
  <2>5. l.backend = "genesis" /\ l.backend \notin IsolatedBackends \cup {"newton"}
    BY <1>9 DEF Genesis, IsolatedBackends
  <2>6. SimulatorGpu(s.visible, e, index) = Physical(s.visible, Cuda(IF index > 0 THEN index ELSE 0))
    BY <2>5 DEF SimulatorGpu
  <2>7. SimulatorGpu(s.visible, e, index) = Physical(s.visible, Cuda(0))
    BY <2>4, <2>6
  <2> QED
    BY <2>2, <2>7 DEF index, s
<1>10. CASE l.backend \notin IsolatedBackends \cup {"newton", "mjwarp", "genesis"}
  <2>1. SimulatorGpu(s.visible, e, index) = NoIndex
    BY <1>10 DEF SimulatorGpu
  <2> QED
    BY <2>1 DEF index, s
<1> QED
  BY <1>7, <1>8, <1>9, <1>10 DEF Genesis

Equipped(s, u, g, k) ==
  u \in DpRecs /\ Alike(s, u) /\ u.collector = s.collector /\ u.learnerGpu = g /\ u.simGpu = k

LEMMA PlacesIs ==
  ASSUME NEW s \in DpRecs, NEW w \in BOOLEAN, NEW g \in Indices, NEW k \in Indices
  PROVE  Equipped(s, [s EXCEPT !.warned = w, !.learnerGpu = g, !.simGpu = k], g, k)
<1> DEFINE u == [s EXCEPT !.warned = w, !.learnerGpu = g, !.simGpu = k]
<1>1. u \in DpRecs
  BY Zenon DEF DpRecs
<1>2. Alike(s, u)
  BY Zenon DEF DpRecs, Alike
<1>3. u.collector = s.collector /\ u.learnerGpu = g /\ u.simGpu = k
  BY SMT DEF DpRecs
<1> QED
  BY <1>1, <1>2, <1>3, Zenon DEF Equipped

LEMMA Build_Holds == \A p \in Procs : DpInv /\ Build(p) => DpInv'
<1> SUFFICES ASSUME NEW p \in Procs, DpInv, Build(p) PROVE DpInv'
  OBVIOUS
<1> DEFINE l == dpLaunch
           s == dpProc[p]
           learner == LearnerDevice(p)
           simDevice == IF l.script = "appo" /\ s.collector.type = "cuda" THEN s.collector ELSE s.device
           index == Route(p, simDevice)
           warned == Warns(p, index)
           gpu == Physical(s.visible, learner)
           sim == SimulatorGpu(s.visible, simDevice, index)
           accepted == /\ Routable(p)
                       /\ learner.type = "cuda" => Physical(s.visible, learner) # NoIndex
                       /\ l.script = "offpolicy" => learner.type = "cuda"
           u == [s EXCEPT !.warned = warned, !.learnerGpu = gpu, !.simGpu = sim]
           t == [u EXCEPT !.at = "training"]
<1>1. s.at = "build" /\ Proceed(p, accepted, u, "training")
  BY Zenon DEF Build
<1>2. s \in DpRecs /\ Placed(l, p, s) /\ l \in DpLaunches
  BY ProcParts
<1>3. Ready(l, p, s) /\ IsSet(l.devices)
  BY <1>1, <1>2 DEF Placed, Reached, Ready
<1>4. learner \in DpDevs /\ (gpu # NoIndex => gpu = Physical(s.visible, s.device))
  BY <1>3, LearnerIs
<1>5. gpu # NoIndex => gpu = GpuOf(l, p) /\ s.device.type = "cuda"
  BY <1>2, <1>3, <1>4, DeviceGpu
<1>6. simDevice \in DpDevs /\ s.visible \in Seq(Nat)
  BY <1>2, RecParts
<1>7. simDevice = IF Collects(l, s) THEN s.collector ELSE s.device
  BY Zenon DEF Collects
<1>8. index \in Indices
  <2>1. CudaIndex(simDevice) \in Indices
    BY <1>6, IndexIs
  <2>2. IndexOf(l, p) \in Indices
    BY <1>2, <1>3, WishParts DEF Ready, Known
  <2>3. NoIndex \in Indices /\ 0 \in Indices
    BY DEF Indices
  <2>4. index \in {NoIndex, 0, IndexOf(l, p), CudaIndex(simDevice)}
    <3> HIDE DEF simDevice
    <3>1. Known(l, p, s)
      BY <1>3 DEF Ready
    <3> QED
      BY <1>6, <3>1, RouteIs
  <2> QED
    BY <2>1, <2>2, <2>3, <2>4
<1> HIDE DEF simDevice, learner
<1>9. gpu # NoIndex /\ sim # NoIndex => sim = Physical(s.visible, simDevice)
  BY <1>3, <1>5, <1>6, <1>7, SimulatorIs
<1>10. warned \in BOOLEAN /\ gpu \in Indices /\ sim \in Indices
  <2>1. warned \in BOOLEAN
    BY DEF Warns
  <2>2. gpu \in Indices
    BY <1>4, <1>6, PhysicalIs
  <2>3. sim \in Indices
    BY <1>6, <1>8, SimulatorTypes
  <2> QED
    BY <2>1, <2>2, <2>3
<1>11. accepted \in BOOLEAN
  <2>1. Routable(p) \in BOOLEAN
    BY DEF Routable, RouteAccepted
  <2> QED
    OBVIOUS
<1> HIDE DEF warned, gpu, sim, index, s, accepted
<1>12. u \in DpRecs /\ Alike(s, u) /\ u.collector = s.collector /\ u.learnerGpu = gpu /\ u.simGpu = sim
  <2> DEFINE E(a, w, g, k) == Equipped(a, [a EXCEPT !.warned = w, !.learnerGpu = g, !.simGpu = k], g, k)
  <2>2. \A a \in DpRecs, w \in BOOLEAN, g \in Indices, k \in Indices : E(a, w, g, k)
    BY PlacesIs, Zenon
  <2> HIDE DEF E
  <2>3. E(s, warned, gpu, sim)
    BY <1>2, <1>10, <2>2
  <2>1. Equipped(s, u, gpu, sim)
    BY <2>3, Zenon DEF E
  <2> QED
    BY <2>1, Zenon DEF Equipped
<1> HIDE DEF u
<1>13. "training" \in DpPlaces \ {"absent"} /\ "training" \notin Before \cup Unbuilt \cup {"supervise", "build"}
  BY DEF DpPlaces, Before, Unbuilt, Early
<1>14. t.at = "training" /\ Alike(u, t) /\ Built(u, t)
  BY <1>12, <1>13, AtIs
<1> HIDE DEF t
<1>15. Alike(s, t) /\ t.collector = s.collector /\ t.learnerGpu = gpu /\ t.simGpu = sim
  BY <1>12, <1>14, AlikeTwice DEF Built
<1>16. Known(l, p, t)
  BY <1>3, <1>15, AlikeKnown DEF Ready
<1>17. Simulated(l, t) = IF Collects(l, s) THEN Physical(s.visible, s.collector) ELSE gpu
  BY <1>15, Zenon DEF Simulated, Collects, Alike
<1>18. Well(l, p, t)
  <2> SUFFICES ASSUME t.learnerGpu # NoIndex
               PROVE  t.learnerGpu = GpuOf(l, p) /\ (t.simGpu # NoIndex => t.simGpu = Simulated(l, t))
    BY DEF Well
  <2>1. gpu = GpuOf(l, p) /\ gpu = Physical(s.visible, s.device)
    BY <1>4, <1>5, <1>15 DEF gpu, s, learner
  <2>2. sim # NoIndex => sim = Physical(s.visible, simDevice)
    BY <1>9, <1>15
  <2>3. sim # NoIndex => sim = Simulated(l, t)
    BY <1>7, <1>17, <2>1, <2>2, Zenon
  <2> QED
    BY <1>15, <2>1, <2>3
<1>19. Placed(l, p, t)
  <2>1. Reached(l, p, t)
    BY <1>3, <1>14 DEF Reached, Early
  <2> QED
    BY <1>13, <1>14, <1>16, <1>18, <2>1 DEF Placed
<1>20. s.at \notin Over \cup {"absent", "waiting"}
  BY <1>1 DEF Over
<1> QED
  BY <1>1, <1>11, <1>12, <1>13, <1>19, <1>20, Proceeded DEF t, s

------------------------------------------------------------------------------
(* The end of a run.                                                          *)

LEMMA TrainEnds_Holds == \A p \in Procs : DpInv /\ TrainEnds(p) => DpInv'
<1> SUFFICES ASSUME NEW p \in Procs, DpInv, TrainEnds(p) PROVE DpInv'
  OBVIOUS
<1> DEFINE s == dpProc[p]
<1>1. s.at = "training" /\ (Move(p, s, "completed") \/ Refuse(p))
  BY DEF TrainEnds
<1>2. s \in DpRecs /\ Placed(dpLaunch, p, s)
  BY ProcParts
<1>3. s.at \notin Over \cup {"absent", "waiting"}
  BY <1>1 DEF Over
<1>4. CASE Move(p, s, "completed")
  <2> DEFINE t == [s EXCEPT !.at = "completed"]
  <2>1. dpProc' = [dpProc EXCEPT ![p] = t] /\ UNCHANGED <<dpLaunch, dpSupervised>>
    BY <1>4 DEF Move, Becomes
  <2>2. "completed" \in DpPlaces /\ "completed" \notin Unbuilt \cup Before \cup {"supervise", "build"}
    BY DEF DpPlaces, Over, Unbuilt, Early, Before
  <2> HIDE DEF s
  <2>3. t \in DpRecs /\ t.at = "completed"
    BY <1>2, <2>2, AtIs
  <2>4. IsSet(dpLaunch.devices)
    BY <1>1, <1>2 DEF Placed, Reached
  <2>5. Reached(dpLaunch, p, t)
    <3> HIDE DEF t
    <3> QED
      BY <2>3, <2>4 DEF Reached, Early
  <2>6. s.at # "absent"
    BY <1>1
  <2>7. Placed(dpLaunch, p, t)
    BY <1>2, <2>2, <2>5, <2>6, Advanced
  <2> HIDE DEF t
  <2>8. t.at # "absent" /\ t.at \notin Before
    BY <2>2, <2>3
  <2> QED
    BY <1>3, <2>1, <2>3, <2>7, <2>8, Stepped DEF s
<1>5. CASE Refuse(p)
  BY <1>3, <1>5, RefusedPlaced DEF s
<1> QED
  BY <1>1, <1>4, <1>5

LEMMA Watchdog_Holds == DpInv /\ Watchdog => DpInv'
<1> SUFFICES ASSUME DpInv, Watchdog PROVE DpInv'
  OBVIOUS
<1>0. 0 \in Procs
  <2>1. dpLaunch \in DpLaunches
    BY DEF DpInv, DpTypes
  <2> QED
    BY <2>1, LaunchParts DEF Procs
<1> DEFINE s == dpProc[0]
           t == [s EXCEPT !.at = "unwinding"]
<1>1. s.at \in {"build", "training"} /\ Move(0, s, "unwinding")
  BY Zenon DEF Watchdog
<1>2. s \in DpRecs /\ Placed(dpLaunch, 0, s)
  BY <1>0, ProcParts
<1>3. s.at \notin Over \cup {"absent", "waiting"}
  BY <1>1 DEF Over
<1>4. dpProc' = [dpProc EXCEPT ![0] = t] /\ UNCHANGED <<dpLaunch, dpSupervised>>
  BY <1>1 DEF Move, Becomes
<1>5. "unwinding" \in DpPlaces /\ "unwinding" \notin Unbuilt \cup Before \cup {"supervise", "build"}
  BY DEF DpPlaces, Over, Unbuilt, Early, Before
<1> HIDE DEF s
<1>6. t \in DpRecs /\ t.at = "unwinding"
  BY <1>2, <1>5, AtIs
<1>7. IsSet(dpLaunch.devices) /\ s.at # "absent"
  BY <1>1, <1>2 DEF Placed, Reached
<1>8. Reached(dpLaunch, 0, t)
  <2> HIDE DEF t
  <2> QED
    BY <1>6, <1>7 DEF Reached, Early
<1>9. Placed(dpLaunch, 0, t)
  BY <1>2, <1>5, <1>7, <1>8, Advanced
<1> HIDE DEF t
<1>10. t.at # "absent" /\ t.at \notin Before
  BY <1>5, <1>6
<1> QED
  BY <1>0, <1>3, <1>4, <1>6, <1>9, <1>10, Stepped DEF s

\* A process that is over was placed, and named each GPU once if it completed.
LEMMA Concluded ==
  ASSUME NEW l, NEW p, NEW s, NEW t, Placed(l, p, s), s.at # "absent", Alike(s, t), Built(s, t),
         t.at \in Over, t.at = "completed" => s.at \notin {"topology", "raised"}
  PROVE  Placed(l, p, t)
<1>1. Known(l, p, t) /\ Well(l, p, t)
  BY AlikeKnown, AlikeWell DEF Placed
<1>2. t.at = "completed" => IsSet(l.devices)
  BY DEF Placed, Reached
<1>3. Reached(l, p, t)
  BY <1>2 DEF Reached, Over, Early
<1> QED
  BY <1>1, <1>3 DEF Placed, Unbuilt, Early, Over

LEMMA BuiltTwice ==
  ASSUME NEW a, NEW b, NEW c, Built(a, b), Built(b, c)
  PROVE  Built(a, c)
  BY Zenon DEF Built

\* How ExitSupervisor leaves a process.
Ends(s, t, at) == t \in DpRecs /\ Alike(s, t) /\ Built(s, t) /\ t.at = at

LEMMA ExitSupervisor_Holds == DpInv /\ ExitSupervisor => DpInv'
<1> SUFFICES ASSUME DpInv, ExitSupervisor PROVE DpInv'
  OBVIOUS
<1> DEFINE s == dpProc[0]
           Ended(p) == IF dpProc[p].at \in Over \cup {"absent"} THEN dpProc[p] ELSE [dpProc[p] EXCEPT !.at = "raised"]
           ended == [p \in Procs |-> Ended(p)]
           well == s.at \in {"completed", "waiting"}
           y == IF well THEN Outcome ELSE "raised"
<1>1. /\ dpSupervised.ranks # {}
      /\ s.at \in {"completed", "raised", "unwinding", "waiting"}
      /\ dpProc' = [ended EXCEPT ![0].at = y]
      /\ dpSupervised' = [ranks |-> {}, watched |-> FALSE]
      /\ dpLaunch' = dpLaunch
  BY Zenon DEF ExitSupervisor
<1>2. dpProc \in [Procs -> DpRecs] /\ dpLaunch \in DpLaunches /\ Supervised
  BY DEF DpInv, DpTypes
<1>3. 0 \in Procs
  BY <1>2, LaunchParts DEF Procs
<1>4. y \in Over /\ y \in DpPlaces /\ "raised" \in DpPlaces
  BY DEF Outcome, Over, DpPlaces
<1>5. \A p \in Procs : dpProc[p] \in DpRecs /\ Placed(dpLaunch, p, dpProc[p])
  BY ProcParts
<1>6. \A p \in Procs : /\ Ended(p) \in DpRecs /\ Alike(dpProc[p], Ended(p)) /\ Built(dpProc[p], Ended(p))
                       /\ Ended(p).at = IF dpProc[p].at \in Over \cup {"absent"} THEN dpProc[p].at ELSE "raised"
  <2> SUFFICES ASSUME NEW p \in Procs
               PROVE  /\ Ended(p) \in DpRecs /\ Alike(dpProc[p], Ended(p)) /\ Built(dpProc[p], Ended(p))
                      /\ Ended(p).at = IF dpProc[p].at \in Over \cup {"absent"} THEN dpProc[p].at ELSE "raised"
    OBVIOUS
  <2>1. CASE dpProc[p].at \in Over \cup {"absent"}
    BY <1>5, <2>1, Zenon DEF Alike, Built
  <2>2. CASE dpProc[p].at \notin Over \cup {"absent"}
    <3>1. Ended(p) = [dpProc[p] EXCEPT !.at = "raised"]
      BY <2>2, Zenon
    <3> HIDE DEF Ended
    <3> QED
      BY <1>4, <1>5, <2>2, <3>1, AtIs
  <2> QED
    BY <2>1, <2>2
<1> HIDE DEF Ended, y, s
<1>7. \A p \in Procs : dpProc'[p] = IF p = 0 THEN [Ended(0) EXCEPT !.at = y] ELSE Ended(p)
  BY <1>1, <1>3
<1>8. Ends(dpProc[0], dpProc'[0], y)
  <2> DEFINE e == Ended(0)
             t == [e EXCEPT !.at = y]
  <2>1. e \in DpRecs /\ Alike(dpProc[0], e) /\ Built(dpProc[0], e)
    BY <1>3, <1>6
  <2>2. dpProc'[0] = t
    BY <1>3, <1>7
  <2> HIDE DEF e
  <2>3. t \in DpRecs /\ t.at = y /\ Alike(e, t) /\ Built(e, t)
    BY <1>4, <2>1, AtIs
  <2> HIDE DEF t
  <2>4. Alike(dpProc[0], t) /\ Built(dpProc[0], t)
    BY <2>1, <2>3, AlikeTwice, BuiltTwice
  <2> QED
    BY <2>2, <2>3, <2>4 DEF Ends
<1>9. \A p \in Procs \ {0} :
        Ends(dpProc[p], dpProc'[p], IF dpProc[p].at \in Over \cup {"absent"} THEN dpProc[p].at ELSE "raised")
  BY <1>6, <1>7 DEF Ends
<1>10. \A p \in Procs \ {0} : dpProc'[p].at = "absent" <=> dpProc[p].at = "absent"
  BY <1>9 DEF Ends
<1>11. DpTypes'
  <2>1. dpProc' \in [Procs -> DpRecs]
    <3>1. dpProc' = [p \in Procs |-> dpProc'[p]]
      BY <1>1
    <3>2. \A p \in Procs : dpProc'[p] \in DpRecs
      BY <1>8, <1>9 DEF Ends
    <3> QED
      BY <3>1, <3>2
  <2>2. dpSupervised' \in [ranks : SUBSET Nat, watched : BOOLEAN]
    BY <1>1
  <2> QED
    BY <1>1, <1>2, <2>1, <2>2 DEF DpTypes
<1>12. \A p \in Procs : Placed(dpLaunch', p, dpProc'[p])
  <2> SUFFICES ASSUME NEW p \in Procs PROVE Placed(dpLaunch, p, dpProc'[p])
    BY <1>1
  <2>1. CASE p = 0
    <3>1. dpProc[0].at # "absent" /\ (y = "completed" => dpProc[0].at \notin {"topology", "raised"})
      BY <1>1 DEF y, s
    <3> QED
      BY <1>4, <1>5, <1>8, <2>1, <3>1, Concluded DEF Ends
  <2>2. CASE p # 0 /\ dpProc[p].at = "absent"
    BY <1>10, <2>2 DEF Placed
  <2>3. CASE p # 0 /\ dpProc[p].at # "absent"
    <3>1. Alike(dpProc[p], dpProc'[p]) /\ Built(dpProc[p], dpProc'[p])
      BY <1>9, <2>3 DEF Ends
    <3>2. dpProc'[p].at \in Over /\ (dpProc'[p].at = "completed" => dpProc[p].at = "completed")
      BY <1>9, <2>3 DEF Ends, Over
    <3> QED
      BY <1>5, <2>3, <3>1, <3>2, Concluded
  <2> QED
    BY <2>1, <2>2, <2>3
<1>13. Supervised'
  <2>1. dpSupervised'.ranks = {} /\ dpProc'[0].at = y
    BY <1>1, <1>8 DEF Ends
  <2>2. y = "completed" => \A p \in Procs \ {0} : dpProc'[p].at \in {"absent", "completed"}
    <3> SUFFICES ASSUME y = "completed", NEW p \in Procs \ {0} PROVE dpProc'[p].at \in {"absent", "completed"}
      OBVIOUS
    <3>1. \A r \in dpSupervised.ranks : dpProc[r].at = "completed"
      BY DEF y, Outcome
    <3>2. dpProc[p].at # "absent" => p \in dpSupervised.ranks
      BY <1>1, <1>2 DEF Supervised
    <3>3. dpProc[p].at \in {"absent", "completed"}
      BY <3>1, <3>2
    <3> QED
      BY <1>9, <3>3 DEF Ends, Over
  <2>3. ~NoOthers' => ~NoOthers
    BY <1>10 DEF NoOthers
  <2>4. dpLaunch'.script = "ppo" /\ ~NoOthers' => dpProc'[0].learnerGpu = NoIndex
    BY <1>1, <1>2, <1>8, <2>3 DEF Supervised, Ends, Built
  <2> QED
    BY <1>4, <2>1, <2>2, <2>4 DEF Supervised
<1> QED
  BY <1>11, <1>12, <1>13 DEF DpInv

------------------------------------------------------------------------------
LEMMA DpNext_Holds == DpInv /\ [DpNext]_dpvars => DpInv'
<1> SUFFICES ASSUME DpInv, [DpNext]_dpvars PROVE DpInv'
  OBVIOUS
<1>1. CASE \E p \in Procs : Topology(p) \/ Pin(p) \/ ChooseDevice(p) \/ Build(p) \/ TrainEnds(p)
  <2>1. PICK p \in Procs : Topology(p) \/ Pin(p) \/ ChooseDevice(p) \/ Build(p) \/ TrainEnds(p)
    BY <1>1
  <2> QED
    BY <2>1, Topology_Holds, Pin_Holds, ChooseDevice_Holds, Build_Holds, TrainEnds_Holds
<1>2. CASE LaunchWorkers \/ Supervise \/ Watchdog \/ ExitSupervisor
  BY <1>2, LaunchWorkers_Holds, Supervise_Holds, Watchdog_Holds, ExitSupervisor_Holds
<1>3. CASE UNCHANGED dpvars
  <2>1. dpLaunch' = dpLaunch /\ dpProc' = dpProc /\ dpSupervised' = dpSupervised
    BY <1>3 DEF dpvars
  <2>2. DpTypes'
    BY <2>1 DEF DpInv, DpTypes
  <2>3. Supervised'
    BY <2>1 DEF DpInv, Supervised, NoOthers
  <2>4. (\A p \in Procs : Placed(dpLaunch, p, dpProc[p]))'
    BY <2>1 DEF DpInv
  <2> QED
    BY <2>2, <2>3, <2>4 DEF DpInv
<1> QED
  BY <1>1, <1>2, <1>3 DEF DpNext

LEMMA TrainingParts ==
  ASSUME DpInv, NEW p \in Procs, Training(p)
  PROVE  /\ dpProc[p].learnerGpu = GpuOf(dpLaunch, p) /\ dpProc[p].rank = RankOf(dpLaunch, p)
         /\ dpProc[p].simGpu # NoIndex => dpProc[p].simGpu = Simulated(dpLaunch, dpProc[p])
         /\ Belongs(dpLaunch, p) /\ dpProc[p].at # "absent"
<1>1. Placed(dpLaunch, p, dpProc[p]) /\ dpProc[p].at # "absent" /\ dpProc[p].learnerGpu # NoIndex
  BY ProcParts DEF Training
<1> QED
  BY <1>1 DEF Placed, Well, Known

\* Two ranks of one list have different GPUs.
LEMMA ListApart ==
  ASSUME NEW l \in DpLaunches, Listed(l), NEW i \in 1 .. Len(l.devices), NEW j \in 1 .. Len(l.devices), i # j
  PROVE  l.mask[l.devices[i] + 1] # l.mask[l.devices[j] + 1]
<1>1. l.devices \in Seq(Nat) /\ l.mask \in Seq(Nat) /\ IsSet(l.mask) /\ IsSet(l.devices)
  BY LaunchParts DEF Listed
<1> DEFINE a == l.devices[i]
           b == l.devices[j]
<1>2. a \in Nat /\ b \in Nat /\ a < Len(l.mask) /\ b < Len(l.mask)
  BY <1>1, ElementOf DEF Listed
<1>3. a # b
  BY <1>1, Distinct
<1> HIDE DEF a, b
<1>4. a + 1 \in 1 .. Len(l.mask) /\ b + 1 \in 1 .. Len(l.mask) /\ a + 1 # b + 1
  BY <1>1, <1>2, <1>3
<1>5. l.mask[a + 1] # l.mask[b + 1]
  BY <1>1, <1>4, Distinct
<1> QED
  BY <1>5 DEF a, b

LEMMA ApartFrom ==
  ASSUME DpInv, NEW p \in Procs, NEW q \in Procs, p # 0, p # q, Training(p), Training(q)
  PROVE  dpProc[p].learnerGpu # dpProc[q].learnerGpu
<1> DEFINE l == dpLaunch
           i == RankOf(l, p) + 1
           j == RankOf(l, q) + 1
<1>1. l \in DpLaunches /\ p \in Nat /\ q \in Nat
  BY ProcParts
<1>2. /\ dpProc[p].learnerGpu = GpuOf(l, p) /\ dpProc[q].learnerGpu = GpuOf(l, q)
      /\ Belongs(l, p) /\ Belongs(l, q) /\ dpProc[p].at # "absent"
  BY TrainingParts
<1>3. Listed(l) /\ Len(l.devices) > 1 /\ l.devices # <<>>
  <2>1. Listed(l) /\ Len(l.devices) > 1
    BY <1>2 DEF Belongs
  <2> QED
    BY <2>1
<1>4. i \in 1 .. Len(l.devices) /\ j \in 1 .. Len(l.devices)
  BY <1>1, <1>2, <1>3, WishParts
<1>5. i # j
  <2>1. CASE l.script = "ppo"
    <3>1. q # 0
      <4> SUFFICES ASSUME q = 0 PROVE FALSE
        OBVIOUS
      <4>1. ~NoOthers
        BY <1>2 DEF NoOthers
      <4>2. dpProc[0].learnerGpu = NoIndex
        BY <2>1, <4>1 DEF DpInv, Supervised
      <4> QED
        BY <4>2 DEF Training
    <3> QED
      BY <1>1, <2>1, <3>1 DEF RankOf
  <2>2. CASE l.script # "ppo"
    BY <1>1, <2>2 DEF RankOf
  <2> QED
    BY <2>1, <2>2
<1>6. GpuOf(l, p) = l.mask[l.devices[i] + 1] /\ GpuOf(l, q) = l.mask[l.devices[j] + 1]
  BY <1>3 DEF GpuOf
<1> HIDE DEF i, j
<1> QED
  BY <1>1, <1>2, <1>3, <1>4, <1>5, <1>6, ListApart

\* PlacementSound for every host and every set of launches: every learner is on the GPU the
\* configuration names for its rank, a simulator is with the process that uses it, no two
\* ranks share a GPU, and a run that reports success has left no rank behind.
THEOREM PlacementStaysSound == DpSpec => []PlacementSound
<1>1. DpInit => DpInv
  BY DpInit_Holds
<1>2. DpInv /\ [DpNext]_dpvars => DpInv'
  BY DpNext_Holds
<1>3. DpInv => PlacementSound
  <2> SUFFICES ASSUME DpInv PROVE PlacementSound
    OBVIOUS
  <2>1. LearnerWhereConfigured
    <3> SUFFICES ASSUME NEW p \in Procs, Training(p) PROVE dpProc[p].learnerGpu = WantedGpu(p)
      BY DEF LearnerWhereConfigured
    <3>1. dpProc[p].learnerGpu = GpuOf(dpLaunch, p) /\ dpProc[p].rank = RankOf(dpLaunch, p)
      BY TrainingParts
    <3>2. dpLaunch.script = "appo" => dpLaunch.devices = <<>>
      BY ProcParts, LaunchParts
    <3> QED
      BY <3>1, <3>2, Zenon DEF WantedGpu, GpuOf
  <2>2. SimulatorWithItsUser
    <3> SUFFICES ASSUME NEW p \in Procs, Training(p), dpProc[p].simGpu # NoIndex
                 PROVE  dpProc[p].simGpu = IF dpLaunch.script = "appo" /\ dpProc[p].collector.type = "cuda"
                                           THEN Physical(dpProc[p].visible, dpProc[p].collector)
                                           ELSE dpProc[p].learnerGpu
      BY DEF SimulatorWithItsUser
    <3>1. dpProc[p].simGpu = Simulated(dpLaunch, dpProc[p])
      BY TrainingParts
    <3> QED
      BY <3>1, Zenon DEF Simulated, Collects
  <2>3. RanksApart
    <3> SUFFICES ASSUME NEW p \in Procs, NEW q \in Procs, p # q, Training(p), Training(q)
                 PROVE  dpProc[p].learnerGpu # dpProc[q].learnerGpu
      BY DEF RanksApart
    <3>1. CASE p # 0
      BY <3>1, ApartFrom
    <3>2. CASE q # 0
      BY <3>2, ApartFrom
    <3> QED
      BY <3>1, <3>2
  <2>4. SuccessOfAllRanks
    BY DEF DpInv, Supervised, NoOthers, SuccessOfAllRanks
  <2> QED
    BY <2>1, <2>2, <2>3, <2>4 DEF PlacementSound
<1> QED
  BY <1>1, <1>2, <1>3, PTL DEF DpSpec

------------------------------------------------------------------------------
(* The window                                                              *)

TaskLimit == [a \in Axes |-> LimitOf(a)]
TaskCommands == Commands(TaskLimit)
Stamps == [life : Nat, t : Nat, command : TaskCommands]
EnvsOf(C, L) == [life : Nat, t : Nat, command : C, limit : L, autoreset : BOOLEAN]
IpEnvs == EnvsOf(TaskCommands, {TaskLimit})
Setup == {"build", "reset", "arrows", "keys", "open"}
IpPlaces == Setup \cup {"top", "permit", "act", "step", "observe", "store", "done", "gone", "raised"}
IpSources == {"none", "zero"} \cup {l.mode : l \in IpLaunches}
IpModes == {"none", "auto", "flat", "actor", "other"}
IpMains == [at : IpPlaces, source : IpSources, obsMode : IpModes, from : Stamps, got : Stamps]
IpKeyPlaces == {"absent", "idle", "request", "pause", "observe", "reset", "zero"}
IpKeys == [at : IpKeyPlaces, loaded : Nat, obs : Stamps, left : Int]
IpSessions == [obs : Stamps, count : Nat]
IpSeens == [began : Nat, resets : Nat, missed : Nat, written : TaskCommands, shown : TaskCommands, strayed : Nat]

IpTypes ==
    /\ ipLaunch \in IpLaunches /\ ipMain \in IpMains /\ ipKey \in IpKeys /\ ipEnv \in IpEnvs
    /\ ipSession \in IpSessions
    /\ ipControls \in [paused : BOOLEAN, requests : Nat]
    /\ ipGhost \in [owed : Int, twice : Int]
    /\ ipSeen \in IpSeens

\* A press that has loaded the requests will leave no fewer than are owed.
Pressed == StepsAsPressed /\ (ipKey.at = "request" => ipGhost.owed <= ipKey.loaded)

\* The commander is made last, and commands within the limits a policy that sees them,
\* unless told otherwise.
Commander == /\ ipMain.at \in Setup => ~Commanded
             /\ Commanded => ipCommand \in TaskCommands
Verified == /\ ipMain.at = "open" /\ ipLaunch.keyboard /\ ipLaunch.check => ipLaunch.task.sees
            /\ Commanded => (ipLaunch.check => ipLaunch.task.sees)

\* Under the keyboard the environment begins anew only for Backspace.
Down == Playing /\ Commanded => ipEnv.life = ipSeen.began + ipSeen.resets /\ ipEnv.autoreset = FALSE

\* Without a commander there is no Backspace.
Quiet == /\ ~Commanded => ipSeen.resets = 0 /\ ipKey.at \notin {"observe", "reset", "zero"}
         /\ ipMain.at \in Setup => ipSeen.strayed = 0

\* The observation the next action is, or was, computed from, and whether that action will
\* be counted: the observation is not of the environment's state, or is to come from the
\* key, or shows another command than it should, or the next one will.
Holding == {"arrows", "keys", "open", "top", "permit", "act", "step", "store"}
Held == IF ipMain.at = "step" THEN ipMain.from ELSE IF ipMain.at = "store" THEN ipMain.got ELSE ipSession.obs
Expected == IF ipMain.at = "store" THEN ipSeen.written ELSE ipSeen.shown
Late == One(ipMain.at \in Holding /\ Place(Held) # Place(ipEnv))
Due == One(ipKey.at \in {"observe", "reset"})
Off == One(ipMain.at \in Holding /\ Held.command # Expected)
Redrawn == One(ipMain.at \in {"permit", "act", "step", "observe"} /\ ipEnv.command # ipSeen.written)

\* Each Backspace pays for two actions of either kind.
Missing == ipSeen.missed + Late + Due <= 2 * ipSeen.resets
Straying == Commanded => ipSeen.strayed + Off + Due + Redrawn <= 1 + 2 * ipSeen.resets

IpInv == IpTypes /\ Pressed /\ Commander /\ Verified /\ Down /\ Quiet /\ Missing /\ Straying /\ AutoFits

LEMMA StillWithin == Still \in TaskCommands
<1> DEFINE All == UNION {TaskLimit[a] : a \in Axes}
<1>1. \A a \in Axes : TaskLimit[a] = IpLimit[a] /\ 0 \in TaskLimit[a]
  BY IpAssumption DEF TaskLimit, LimitOf
<1>2. 0 \in All
  BY <1>1 DEF Axes
<1> HIDE DEF All
<1>3. Still \in [Axes -> All] /\ \A a \in Axes : Still[a] \in TaskLimit[a]
  BY <1>1, <1>2 DEF Still
<1> QED
  BY <1>3 DEF TaskCommands, Commands, All

\* The empty dictionary is no command.
LEMMA CommandIs ==
  /\ Still # NoCommander
  /\ \A c \in TaskCommands : c # NoCommander
<1>1. DOMAIN NoCommander = {} /\ Axes # {}
  BY DEF NoCommander, Axes
<1>2. \A c \in TaskCommands : DOMAIN c = Axes
  BY DEF TaskCommands, Commands
<1> QED
  BY <1>1, <1>2, StillWithin

\* The nearest value of a limit to a wish: squares of integers have a least.
LEMMA ClippedWithin ==
  ASSUME NEW a \in Axes, NEW v \in Int
  PROVE  Clipped(a, v) \in LimitOf(a)
<1> DEFINE Q(w) == (v - w) * (v - w)
           T == {Q(w) : w \in LimitOf(a)}
<1>1. LimitOf(a) \subseteq Int /\ 0 \in LimitOf(a)
  BY IpAssumption DEF LimitOf
<1>2. ASSUME NEW w \in LimitOf(a) PROVE Q(w) \in Nat
  <2>1. \A n \in Int : n * n \in Nat
    <3>1. \A n \in Nat : n * n \in Nat
      OBVIOUS
    <3>2. \A n \in Int : -n \in Nat => n * n \in Nat
      OBVIOUS
    <3>3. \A n \in Int : n \in Nat \/ -n \in Nat
      OBVIOUS
    <3> QED
      BY <3>1, <3>2, <3>3
  <2>2. v - w \in Int
    BY <1>1
  <2> QED
    BY <2>1, <2>2, Zenon
<1>3. T \in SUBSET Nat /\ T # {}
  BY <1>1, <1>2
<1>4. PICK x \in T : \A y \in T : x <= y
  <2> HIDE DEF T
  <2> QED
    BY <1>3, SmallestOf
<1>5. PICK w \in LimitOf(a) : x = Q(w)
  BY <1>4
<1>6. \A u \in LimitOf(a) : Q(w) <= Q(u)
  <2> HIDE DEF Q
  <2> QED
    BY <1>4, <1>5
<1> QED
  BY <1>5, <1>6, Zenon DEF Clipped

LEMMA NudgedWithin ==
  ASSUME NEW c \in TaskCommands, NEW a \in Axes, NEW sign \in Int
  PROVE  [c EXCEPT ![a] = Clipped(a, c[a] + sign)] \in TaskCommands
<1> DEFINE All == UNION {TaskLimit[b] : b \in Axes}
           v == Clipped(a, c[a] + sign)
<1>1. c \in [Axes -> All] /\ \A b \in Axes : c[b] \in TaskLimit[b]
  BY DEF TaskCommands, Commands
<1>2. TaskLimit[a] = LimitOf(a) /\ LimitOf(a) \subseteq Int
  BY IpAssumption DEF TaskLimit, LimitOf
<1>3. c[a] + sign \in Int
  BY <1>1, <1>2, SMT
<1>4. v \in TaskLimit[a]
  BY <1>2, <1>3, ClippedWithin
<1>5. v \in All
  BY <1>4
<1> HIDE DEF v, All
<1>6. [c EXCEPT ![a] = v] \in [Axes -> All] /\ \A b \in Axes : [c EXCEPT ![a] = v][b] \in TaskLimit[b]
  BY <1>1, <1>4, <1>5
<1> QED
  BY <1>6 DEF TaskCommands, Commands, All, v

------------------------------------------------------------------------------
(* Environments.                                                              *)

LEMMA EnvParts ==
  ASSUME NEW env \in IpEnvs
  PROVE  /\ env.life \in Nat /\ env.t \in Nat /\ env.command \in TaskCommands /\ env.limit = TaskLimit
         /\ env.autoreset \in BOOLEAN
         /\ StampOf(env) \in Stamps /\ Place(StampOf(env)) = Place(env) /\ StampOf(env).command = env.command
<1>1. env.autoreset \in BOOLEAN
  BY Zenon DEF IpEnvs, EnvsOf
<1>2. env.life \in Nat /\ env.t \in Nat /\ env.command \in TaskCommands /\ env.limit = TaskLimit
  BY SMT DEF IpEnvs, EnvsOf
<1>3. StampOf(env) \in Stamps
  BY <1>2 DEF StampOf, Stamps
<1>4. Place(StampOf(env)) = Place(env) /\ StampOf(env).command = env.command
  BY DEF StampOf, Place
<1> QED
  BY <1>1, <1>2, <1>3, <1>4

\* A reset of an environment with any command and limit.
LEMMA ResetFields ==
  ASSUME NEW C, NEW L, NEW env \in EnvsOf(C, L), NEW c \in C
  PROVE  /\ ResetOf(env, c) \in EnvsOf(C, L)
         /\ ResetOf(env, c).life = env.life + 1 /\ ResetOf(env, c).t = env.t /\ ResetOf(env, c).command = c
         /\ ResetOf(env, c).limit = env.limit /\ ResetOf(env, c).autoreset = env.autoreset
<1>1. env.life \in Nat
  BY SMT DEF EnvsOf
<1>2. env.life + 1 \in Nat
  BY <1>1
<1>3. ResetOf(env, c) = [env EXCEPT !.life = env.life + 1, !.command = c]
  BY DEF ResetOf
<1>4. ResetOf(env, c) \in EnvsOf(C, L)
  BY <1>2, <1>3, Zenon DEF EnvsOf
<1>5. /\ ResetOf(env, c).life = env.life + 1 /\ ResetOf(env, c).t = env.t /\ ResetOf(env, c).command = c
      /\ ResetOf(env, c).limit = env.limit
  BY <1>3, SMT DEF EnvsOf
<1>6. ResetOf(env, c).autoreset = env.autoreset
  BY <1>3, Zenon DEF EnvsOf
<1> QED
  BY <1>4, <1>5, <1>6

LEMMA ResetIs ==
  ASSUME NEW env \in IpEnvs, NEW c \in TaskCommands
  PROVE  /\ ResetOf(env, c) \in IpEnvs
         /\ ResetOf(env, c).life = env.life + 1 /\ ResetOf(env, c).t = env.t
         /\ ResetOf(env, c).command = c /\ ResetOf(env, c).autoreset = env.autoreset
<1>1. env \in EnvsOf(TaskCommands, {TaskLimit})
  BY DEF IpEnvs
<1> QED
  BY <1>1, ResetFields DEF IpEnvs

\* After the probe the environment is again one of the task.
LEMMA ProbeLeavesNoTrace ==
  ASSUME NEW env \in IpEnvs, NEW p \in Commands(Probing), NEW drawn \in TaskCommands
  PROVE  AfterProbe(env, ResetOf([env EXCEPT !.limit = Probing], p), drawn) \in IpEnvs
<1> DEFINE C == TaskCommands \cup Commands(Probing)
           L == {TaskLimit, Probing}
           Wide == EnvsOf(C, L)
           probing == [env EXCEPT !.limit = Probing]
           probed == ResetOf(probing, p)
           back == [probed EXCEPT !.limit = TaskLimit]
           after == ResetOf(back, drawn)
<1>1. env.limit = TaskLimit /\ env \in Wide
  <2>1. env.limit = TaskLimit
    BY EnvParts
  <2>2. env \in Wide
    BY Zenon DEF IpEnvs, EnvsOf
  <2> QED
    BY <2>1, <2>2
<1>2. p \in C /\ drawn \in C /\ Probing \in L /\ TaskLimit \in L
  OBVIOUS
<1> HIDE DEF C, L
<1>3. probing \in Wide
  BY <1>1, <1>2, Zenon DEF EnvsOf
<1> HIDE DEF probing
<1>4. probed \in Wide
  BY <1>2, <1>3, ResetFields
<1> HIDE DEF probed
<1>5. back \in Wide /\ back.limit = TaskLimit
  <2>1. back \in Wide
    BY <1>2, <1>4, Zenon DEF EnvsOf
  <2>2. back.limit = TaskLimit
    BY <1>4, SMT DEF EnvsOf
  <2> QED
    BY <2>1, <2>2
<1> HIDE DEF back
<1>6. after \in Wide /\ after.limit = TaskLimit /\ after.command = drawn
  <2>1. after \in Wide
    BY <1>2, <1>5, ResetFields
  <2>2. after.limit = back.limit
    BY <1>2, <1>5, ResetFields
  <2>3. after.command = drawn
    BY <1>2, <1>5, ResetFields
  <2> QED
    BY <1>5, <2>1, <2>2, <2>3
<1>7. AfterProbe(env, probed, drawn) = after
  BY <1>1 DEF AfterProbe, back
<1> HIDE DEF after
<1>8. after \in IpEnvs
  BY <1>6, Zenon DEF IpEnvs, EnvsOf
<1> QED
  BY <1>7, <1>8 DEF probed, probing

------------------------------------------------------------------------------
(* The parts of a state.                                                      *)

LEMMA MainParts ==
  ASSUME NEW m \in IpMains, NEW x \in IpPlaces
  PROVE  /\ m.at \in IpPlaces /\ m.source \in IpSources /\ m.obsMode \in IpModes /\ m.from \in Stamps /\ m.got \in Stamps
         /\ [m EXCEPT !.at = x] \in IpMains
         /\ [m EXCEPT !.at = x].at = x
         /\ [m EXCEPT !.at = x].from = m.from /\ [m EXCEPT !.at = x].got = m.got
<1>1. [m EXCEPT !.at = x] \in IpMains
  BY Zenon DEF IpMains
<1>2. /\ m.at \in IpPlaces /\ m.source \in IpSources /\ m.obsMode \in IpModes /\ m.from \in Stamps /\ m.got \in Stamps
      /\ [m EXCEPT !.at = x].at = x
      /\ [m EXCEPT !.at = x].from = m.from /\ [m EXCEPT !.at = x].got = m.got
  BY SMT DEF IpMains
<1> QED
  BY <1>1, <1>2

LEMMA CountParts ==
  ASSUME IpTypes
  PROVE  /\ ipControls.requests \in Nat /\ ipControls.paused \in BOOLEAN
         /\ ipGhost.owed \in Int /\ ipGhost.twice \in Int
         /\ ipSeen.began \in Nat /\ ipSeen.resets \in Nat /\ ipSeen.missed \in Nat /\ ipSeen.strayed \in Nat
         /\ ipSeen.written \in TaskCommands /\ ipSeen.shown \in TaskCommands
         /\ ipKey.at \in IpKeyPlaces /\ ipKey.loaded \in Nat /\ ipKey.obs \in Stamps /\ ipKey.left \in Int
         /\ ipSession.obs \in Stamps /\ ipSession.count \in Nat
<1>1. ipControls.paused \in BOOLEAN
  BY Zenon DEF IpTypes
<1>2. /\ ipControls.requests \in Nat
      /\ ipGhost.owed \in Int /\ ipGhost.twice \in Int
      /\ ipSeen.began \in Nat /\ ipSeen.resets \in Nat /\ ipSeen.missed \in Nat /\ ipSeen.strayed \in Nat
      /\ ipSeen.written \in TaskCommands /\ ipSeen.shown \in TaskCommands
  BY SMT DEF IpTypes, IpSeens
<1>3. /\ ipKey.at \in IpKeyPlaces /\ ipKey.loaded \in Nat /\ ipKey.obs \in Stamps /\ ipKey.left \in Int
      /\ ipSession.obs \in Stamps /\ ipSession.count \in Nat
  BY SMT DEF IpTypes, IpKeys, IpSessions
<1> QED
  BY <1>1, <1>2, <1>3

LEMMA ZeroStamp == NoObs \in Stamps
  BY StillWithin DEF NoObs, Stamps

LEMMA Ones ==
  /\ Late \in {0, 1} /\ Due \in {0, 1} /\ Off \in {0, 1} /\ Redrawn \in {0, 1}
  /\ Late' \in {0, 1} /\ Due' \in {0, 1} /\ Off' \in {0, 1} /\ Redrawn' \in {0, 1}
  BY DEF One, Late, Due, Off, Redrawn

\* A step that counts nothing, and makes nothing later, due, off or redrawn.
LEMMA CountsKept ==
  ASSUME IpInv, ipSeen'.missed = ipSeen.missed, ipSeen'.strayed = ipSeen.strayed,
         ipSeen'.resets = ipSeen.resets, Commanded' => Commanded,
         Late' <= Late, Due' <= Due, Commanded => Off' <= Off /\ Redrawn' <= Redrawn
  PROVE  Missing' /\ Straying'
<1>1. /\ ipSeen.missed \in Nat /\ ipSeen.strayed \in Nat /\ ipSeen.resets \in Nat
      /\ ipSeen.missed + Late + Due <= 2 * ipSeen.resets
  BY CountParts DEF IpInv, Missing
<1>2. Missing'
  BY <1>1, Ones DEF Missing
<1>3. Straying'
  <2> SUFFICES ASSUME Commanded' PROVE ipSeen'.strayed + Off' + Due' + Redrawn' <= 1 + 2 * ipSeen'.resets
    BY DEF Straying
  <2>1. ipSeen.strayed + Off + Due + Redrawn <= 1 + 2 * ipSeen.resets
    BY DEF IpInv, Straying
  <2>2. Off' <= Off /\ Redrawn' <= Redrawn
    OBVIOUS
  <2>3. ipSeen.strayed + Off' + Due' + Redrawn' <= 1 + 2 * ipSeen.resets
    BY <1>1, <2>1, <2>2, Ones
  <2> QED
    BY <2>3
<1> QED
  BY <1>2, <1>3

\* Fields of a stored session.
LEMMA SessionIs ==
  ASSUME NEW env \in IpEnvs
  PROVE  SessionOf(env) \in IpSessions /\ SessionOf(env).obs = StampOf(env)
<1>1. StampOf(env) \in Stamps
  BY EnvParts
<1> HIDE DEF StampOf
<1> QED
  BY <1>1, SMT DEF SessionOf, IpSessions

LEMMA LaunchIs ==
  ASSUME IpTypes
  PROVE  /\ ipLaunch.paused \in BOOLEAN /\ ipLaunch.task.oneGroup \in BOOLEAN
         /\ ipLaunch.obsMode \in {"auto", "flat", "actor"} /\ ipLaunch.ckpt.width \in {"actor", "flat", "other"}
         /\ ipLaunch.task.oneGroup => ipLaunch.ckpt.width # "flat"
<1>1. ipLaunch \in IpStarts /\ (ipLaunch.task.oneGroup => ipLaunch.ckpt.width # "flat")
  BY IpAssumption DEF IpTypes
<1>2. ipLaunch.paused \in BOOLEAN /\ ipLaunch.task.oneGroup \in BOOLEAN
  BY <1>1, Zenon DEF IpStarts
<1>3. /\ ipLaunch.obsMode \in {"auto", "flat", "actor"}
      /\ ipLaunch.ckpt.width \in {"actor", "flat", "other"}
  BY <1>1, Zenon DEF IpStarts
<1> QED
  BY <1>1, <1>2, <1>3

LEMMA IpInit_Holds == IpInit => IpInv
<1> SUFFICES ASSUME IpInit PROVE IpInv
  OBVIOUS
<1> USE DEF IpInit
<1>1. ipMain \in IpMains /\ ipMain.at = "build"
  <2>1. ipMain.at = "build"
    BY SMT
  <2>2. "build" \in IpPlaces /\ "none" \in IpSources /\ "none" \in IpModes
    BY DEF IpPlaces, Setup, IpSources, IpModes
  <2>3. ipMain \in IpMains
    BY <2>2, ZeroStamp, Zenon DEF IpMains
  <2> QED
    BY <2>1, <2>3
<1>2. ipKey \in IpKeys /\ ipKey.at = "absent"
  BY ZeroStamp, IpAssumption, SMT DEF IpKeys, IpKeyPlaces
<1>3. ipEnv \in IpEnvs
  BY StillWithin, SMT DEF IpEnvs, EnvsOf, TaskLimit
<1>4. ipSession \in IpSessions
  BY ZeroStamp DEF IpSessions
<1>5. ipControls \in [paused : BOOLEAN, requests : Nat] /\ ipControls.requests = 0
  BY SMT
<1>6. ipGhost \in [owed : Int, twice : Int] /\ ipGhost.owed = 0 /\ ipGhost.twice = 0
  BY SMT
<1>7. ipSeen \in IpSeens /\ ipSeen.resets = 0 /\ ipSeen.missed = 0 /\ ipSeen.strayed = 0
  BY StillWithin, SMT DEF IpSeens
<1>8. IpTypes
  BY <1>1, <1>2, <1>3, <1>4, <1>5, <1>6, <1>7 DEF IpTypes
<1>9. ~Commanded
  BY DEF Commanded
<1>10. Pressed /\ Commander /\ Verified /\ Down /\ Quiet
  BY <1>1, <1>2, <1>5, <1>6, <1>7, <1>9, SMT
     DEF Pressed, StepsAsPressed, Commander, Verified, Down, Playing, Quiet
<1>11. Missing /\ Straying
  BY <1>1, <1>2, <1>7, <1>9 DEF Missing, Straying, Late, Due, One, Holding
<1> QED
  BY <1>1, <1>8, <1>10, <1>11 DEF IpInv, AutoFits

------------------------------------------------------------------------------
(* Building.                                                                  *)

\* A checkpoint of a width the wrapper can feed is refused only for its contract.
LEMMA RefusedForContract ==
  ASSUME IpTypes, SessionRefused(ResolvedMode), ipLaunch.algo = "ppo", ipLaunch.obsMode = "auto",
         ipLaunch.ckpt.legible, ipLaunch.ckpt.width # "other"
  PROVE  ~ipLaunch.ckpt.contract
<1>1. ipLaunch.mode = "policy" /\ ipLaunch.ckpt.there
  BY DEF SessionRefused
<1>2. ResolvedMode = ipLaunch.ckpt.width
  BY <1>1, Zenon DEF ResolvedMode
<1>3. Net(ResolvedMode) = ipLaunch.ckpt.width
  <2>1. CASE ipLaunch.ckpt.width = "actor"
    BY <1>2, <2>1, Zenon DEF Net, Fed
  <2>2. CASE ipLaunch.ckpt.width = "flat"
    <3>1. ~ipLaunch.task.oneGroup /\ ipLaunch.algo # "sac" /\ ResolvedMode # "actor"
      BY <1>2, <2>2, LaunchIs
    <3> QED
      BY <3>1, <2>2, Zenon DEF Net, Fed
  <2> QED
    BY <2>1, <2>2, LaunchIs
<1> QED
  BY <1>2, <1>3, Zenon DEF SessionRefused

LEMMA BuildSession_Holds == IpInv /\ BuildSession => IpInv'
<1> SUFFICES ASSUME IpInv, BuildSession PROVE IpInv'
  OBVIOUS
<1> DEFINE at == IF ~ipLaunch.backend THEN "gone"
                 ELSE IF SessionRefused(ResolvedMode) THEN "raised"
                 ELSE IF ~ipLaunch.display THEN "gone" ELSE "reset"
<1>1. /\ ipMain.at = "build"
      /\ ipMain' = [ipMain EXCEPT !.at = at, !.source = Source, !.obsMode = ResolvedMode]
      /\ UNCHANGED <<ipLaunch, ipKey, ipEnv, ipSession, ipControls, ipCommand, ipGhost, ipSeen>>
  BY DEF BuildSession
<1>2. at \in {"gone", "raised", "reset"} /\ (at = "raised" => SessionRefused(ResolvedMode))
  BY Zenon
<1>3. Source \in IpSources /\ ResolvedMode \in IpModes
  <2>1. ipLaunch.mode \in IpSources /\ "zero" \in IpSources
    BY DEF IpInv, IpTypes, IpSources
  <2>2. Source \in IpSources
    BY <2>1, Zenon DEF Source
  <2>3. ipLaunch.obsMode \in IpModes /\ ipLaunch.ckpt.width \in IpModes /\ "flat" \in IpModes
    BY LaunchIs DEF IpInv, IpModes
  <2>4. ResolvedMode \in IpModes
    BY <2>3, Zenon DEF ResolvedMode
  <2> QED
    BY <2>2, <2>4
<1> HIDE DEF at
<1> USE DEF IpInv
<1>4. ipMain' \in IpMains /\ ipMain'.at = at
  <2>1. at \in IpPlaces
    BY <1>2 DEF IpPlaces, Setup
  <2>2. ipMain' \in IpMains
    BY <1>1, <1>3, <2>1, Zenon DEF IpTypes, IpMains
  <2>3. ipMain'.at = at
    BY <1>1, SMT DEF IpTypes, IpMains
  <2> QED
    BY <2>2, <2>3
<1>5. IpTypes'
  BY <1>1, <1>4 DEF IpTypes
<1>6. ~Commanded /\ ~Commanded'
  BY <1>1 DEF Commander, Setup, Commanded
<1>7. Pressed'
  BY <1>1 DEF Pressed, StepsAsPressed
<1>8. Commander' /\ Verified' /\ Down' /\ Quiet'
  BY <1>1, <1>2, <1>4, <1>6 DEF Commander, Verified, Down, Quiet, Setup
<1>9. Missing' /\ Straying'
  <2>1. Late' = 0 /\ Due' = Due
    BY <1>1, <1>2, <1>4 DEF Late, Due, One, Holding
  <2>2. Late' <= Late /\ Due' <= Due
    BY <2>1, Ones
  <2> QED
    BY <1>1, <1>6, <2>2, CountsKept, Zenon
<1>10. AutoFits'
  BY <1>1, <1>2, <1>4, RefusedForContract, Zenon DEF AutoFits
<1> QED
  BY <1>5, <1>7, <1>8, <1>9, <1>10

------------------------------------------------------------------------------
(* Until the loop begins.                                                     *)

LEMMA SetupStep ==
  ASSUME IpInv, ipMain.at \in Setup, NEW x \in {"arrows", "keys", "open", "gone"},
         ipMain' = [ipMain EXCEPT !.at = x],
         ipEnv' \in IpEnvs, ipSession' \in IpSessions, Place(ipSession'.obs) = Place(ipEnv'),
         x = "open" /\ ipLaunch.keyboard /\ ipLaunch.check => ipLaunch.task.sees,
         UNCHANGED <<ipLaunch, ipKey, ipControls, ipCommand, ipGhost, ipSeen>>
  PROVE  IpInv'
<1> USE DEF IpInv
<1>1. ipMain' \in IpMains /\ ipMain'.at = x
  <2>1. x \in IpPlaces
    BY DEF IpPlaces, Setup
  <2> QED
    BY <2>1, MainParts DEF IpTypes
<1>2. IpTypes'
  BY <1>1 DEF IpTypes
<1>3. ~Commanded /\ ~Commanded'
  BY DEF Commander, Commanded
<1>4. Pressed'
  BY DEF Pressed, StepsAsPressed
<1>5. Commander' /\ Down' /\ Quiet'
  BY <1>1, <1>3 DEF Commander, Down, Quiet
<1>6. Verified'
  BY <1>1, <1>3, Zenon DEF Verified
<1>7. Missing' /\ Straying'
  <2>1. Held' = ipSession'.obs
    BY <1>1, Zenon DEF Held
  <2>2. Late' = 0 /\ Due' = Due
    BY <2>1 DEF Late, Due, One
  <2>3. Late' <= Late /\ Due' <= Due
    BY <2>2, Ones
  <2> QED
    BY <1>3, <2>3, CountsKept, Zenon
<1>8. AutoFits'
  BY <1>1 DEF AutoFits
<1> QED
  BY <1>2, <1>4, <1>5, <1>6, <1>7, <1>8

\* Until the loop begins nothing stales the observation of the session.
LEMMA SetupSeen ==
  ASSUME IpInv, ipMain.at \in {"arrows", "keys", "open"}
  PROVE  /\ ~Commanded /\ ipSeen.resets = 0 /\ ipSeen.strayed = 0 /\ ipKey.at \notin {"observe", "reset", "zero"}
         /\ Place(ipSession.obs) = Place(ipEnv)
<1> USE DEF IpInv
<1>1. /\ ~Commanded /\ ipSeen.resets = 0 /\ ipSeen.strayed = 0
      /\ ipKey.at \notin {"observe", "reset", "zero"}
  BY DEF Commander, Setup, Quiet
<1>2. Late = 0
  BY <1>1, CountParts, Ones DEF Missing
<1>3. Held = ipSession.obs
  BY Zenon DEF Held
<1> QED
  BY <1>1, <1>2, <1>3 DEF Late, One, Holding

LEMMA SessionReset_Holds == IpInv /\ SessionReset => IpInv'
<1> SUFFICES ASSUME IpInv, SessionReset PROVE IpInv'
  OBVIOUS
<1>1. ipEnv \in IpEnvs /\ Commands(ipEnv.limit) = TaskCommands
  BY EnvParts DEF IpInv, IpTypes, TaskCommands
<1>2. PICK c \in TaskCommands : ipEnv' = ResetOf(ipEnv, c) /\ ipSession' = SessionOf(ResetOf(ipEnv, c))
  BY <1>1 DEF SessionReset
<1>3. ipEnv' \in IpEnvs
  BY <1>1, <1>2, ResetIs
<1>4. ipSession' = SessionOf(ipEnv')
  BY <1>2
<1>5. ipSession' \in IpSessions /\ Place(ipSession'.obs) = Place(ipEnv')
  BY <1>3, <1>4, SessionIs, EnvParts
<1>6. ipMain.at \in Setup
  BY DEF SessionReset, Setup
<1> QED
  BY <1>3, <1>5, <1>6, SetupStep DEF SessionReset

\* The probe leaves the environment and the session as another reset does, and goes on
\* only with a policy that sees the command.
LEMMA VerifyStep ==
  ASSUME IpInv, ipMain.at \in {"arrows", "keys"}, NEW then, NEW otherwise, Verify(then, otherwise)
  PROVE  /\ \/ ipMain' = [ipMain EXCEPT !.at = then] /\ ipLaunch.task.sees
            \/ ipMain' = [ipMain EXCEPT !.at = otherwise]
         /\ ipEnv' \in IpEnvs /\ ipSession' \in IpSessions /\ Place(ipSession'.obs) = Place(ipEnv')
<1> DEFINE Goes(seen) == ipMain' = [ipMain EXCEPT !.at = IF seen THEN then ELSE otherwise]
<1>1. ipEnv \in IpEnvs /\ Commands(ipEnv.limit) = TaskCommands /\ ipSession \in IpSessions
  BY EnvParts DEF IpInv, IpTypes, TaskCommands
<1>2. Place(ipSession.obs) = Place(ipEnv)
  BY SetupSeen
<1>3. \A seen : Goes(seen) => \/ seen /\ ipMain' = [ipMain EXCEPT !.at = then]
                              \/ ipMain' = [ipMain EXCEPT !.at = otherwise]
  OBVIOUS
<1>4. \A env : SeesCommand(env) => ipLaunch.task.sees
  BY Zenon DEF SeesCommand
<1>5. CASE SeesCommand(ipEnv) \/ ~ipLaunch.task.commands
  <2>1. Goes(ipLaunch.task.commands) /\ ipEnv' = ipEnv /\ ipSession' = ipSession
    BY <1>5 DEF Verify
  <2> HIDE DEF Goes
  <2>2. Place(ipSession'.obs) = Place(ipEnv')
    BY <1>2, <2>1
  <2>3. \/ ipLaunch.task.commands /\ ipMain' = [ipMain EXCEPT !.at = then]
        \/ ipMain' = [ipMain EXCEPT !.at = otherwise]
    BY <1>3, <2>1, Zenon
  <2>4. \/ ipMain' = [ipMain EXCEPT !.at = then] /\ ipLaunch.task.sees
        \/ ipMain' = [ipMain EXCEPT !.at = otherwise]
    BY <1>4, <1>5, <2>3, Zenon
  <2> QED
    BY <1>1, <2>1, <2>2, <2>4, Zenon
<1>6. CASE ~ (SeesCommand(ipEnv) \/ ~ipLaunch.task.commands)
  <2>1. PICK drawn \in TaskCommands, p \in Commands(Probing) :
            /\ Goes(SeesCommand(ResetOf([ipEnv EXCEPT !.limit = Probing], p)))
            /\ ipEnv' = AfterProbe(ipEnv, ResetOf([ipEnv EXCEPT !.limit = Probing], p), drawn)
            /\ ipSession' = SessionOf(AfterProbe(ipEnv, ResetOf([ipEnv EXCEPT !.limit = Probing], p), drawn))
    BY <1>1, <1>6 DEF Verify
  <2> HIDE DEF Goes
  <2>2. ipEnv' \in IpEnvs
    BY <1>1, <2>1, ProbeLeavesNoTrace
  <2>3. ipSession' = SessionOf(ipEnv')
    BY <2>1
  <2>4. ipSession' \in IpSessions /\ Place(ipSession'.obs) = Place(ipEnv')
    BY <2>2, <2>3, SessionIs, EnvParts
  <2>5. \/ ipMain' = [ipMain EXCEPT !.at = then] /\ ipLaunch.task.sees
        \/ ipMain' = [ipMain EXCEPT !.at = otherwise]
    BY <1>3, <1>4, <2>1, Zenon
  <2> QED
    BY <2>2, <2>4, <2>5, Zenon
<1> QED
  BY <1>5, <1>6

LEMMA CheckArrows_Holds == IpInv /\ CheckArrows => IpInv'
<1> SUFFICES ASSUME IpInv, CheckArrows PROVE IpInv'
  OBVIOUS
<1>1. ipMain.at = "arrows" /\ UNCHANGED <<ipLaunch, ipKey, ipControls, ipCommand, ipGhost, ipSeen>>
  BY DEF CheckArrows
<1>2. ipMain.at \in Setup
  BY <1>1 DEF Setup
<1>3. CASE Verify("keys", "keys")
  <2>1. /\ ipMain' = [ipMain EXCEPT !.at = "keys"]
        /\ ipEnv' \in IpEnvs /\ ipSession' \in IpSessions /\ Place(ipSession'.obs) = Place(ipEnv')
    BY <1>1, <1>3, VerifyStep
  <2> QED
    BY <1>1, <1>2, <2>1, SetupStep
<1>4. CASE ipMain' = [ipMain EXCEPT !.at = "keys"] /\ UNCHANGED <<ipEnv, ipSession>>
  <2>1. Place(ipSession.obs) = Place(ipEnv)
    BY <1>1, SetupSeen
  <2>2. ipEnv' \in IpEnvs /\ ipSession' \in IpSessions /\ Place(ipSession'.obs) = Place(ipEnv')
    BY <1>4, <2>1 DEF IpInv, IpTypes
  <2> QED
    BY <1>1, <1>2, <1>4, <2>2, SetupStep
<1> QED
  BY <1>3, <1>4 DEF CheckArrows

LEMMA CheckKeys_Holds == IpInv /\ CheckKeys => IpInv'
<1> SUFFICES ASSUME IpInv, CheckKeys PROVE IpInv'
  OBVIOUS
<1>1. ipMain.at = "keys" /\ UNCHANGED <<ipLaunch, ipKey, ipControls, ipCommand, ipGhost, ipSeen>>
  BY DEF CheckKeys
<1>2. ipMain.at \in Setup
  BY <1>1 DEF Setup
<1>3. CASE Verify("open", "gone")
  <2>1. PICK x \in {"open", "gone"} :
            ipMain' = [ipMain EXCEPT !.at = x] /\ (x = "open" => ipLaunch.task.sees)
    <3>1. CASE ipMain' = [ipMain EXCEPT !.at = "open"] /\ ipLaunch.task.sees
      BY <3>1, Zenon
    <3>2. CASE ipMain' = [ipMain EXCEPT !.at = "gone"]
      BY <3>2, "gone" # "open", Zenon
    <3> QED
      BY <1>1, <1>3, <3>1, <3>2, VerifyStep, Zenon
  <2>2. ipEnv' \in IpEnvs /\ ipSession' \in IpSessions /\ Place(ipSession'.obs) = Place(ipEnv')
    BY <1>1, <1>3, VerifyStep
  <2>3. x \in {"arrows", "keys", "open", "gone"}
    OBVIOUS
  <2> QED
    BY <1>1, <1>2, <2>1, <2>2, <2>3, SetupStep, Zenon
<1>4. CASE ~ (ipLaunch.keyboard /\ ipLaunch.check) /\ ipMain' = [ipMain EXCEPT !.at = "open"]
           /\ UNCHANGED <<ipEnv, ipSession>>
  <2>1. Place(ipSession.obs) = Place(ipEnv)
    BY <1>1, SetupSeen
  <2>2. ipEnv' \in IpEnvs /\ ipSession' \in IpSessions /\ Place(ipSession'.obs) = Place(ipEnv')
    BY <1>4, <2>1 DEF IpInv, IpTypes
  <2>3. "open" \in {"arrows", "keys", "open", "gone"}
    OBVIOUS
  <2> QED
    BY <1>1, <1>2, <1>4, <2>2, <2>3, SetupStep, Zenon
<1> QED
  BY <1>3, <1>4, Zenon DEF CheckKeys

\* A command written into an environment.
LEMMA CommandedEnv ==
  ASSUME NEW env \in IpEnvs, NEW c \in TaskCommands
  PROVE  /\ [env EXCEPT !.command = c] \in IpEnvs /\ [env EXCEPT !.command = c].life = env.life
         /\ Place([env EXCEPT !.command = c]) = Place(env) /\ [env EXCEPT !.command = c].command = c
         /\ [env EXCEPT !.command = c].autoreset = env.autoreset
<1>1. [env EXCEPT !.command = c] \in IpEnvs
  BY Zenon DEF IpEnvs, EnvsOf
<1>2. [env EXCEPT !.command = c].autoreset = env.autoreset
  BY Zenon DEF IpEnvs, EnvsOf
<1>3. /\ [env EXCEPT !.command = c].life = env.life /\ [env EXCEPT !.command = c].t = env.t
      /\ [env EXCEPT !.command = c].command = c
  BY SMT DEF IpEnvs, EnvsOf
<1>4. Place([env EXCEPT !.command = c]) = Place(env)
  BY <1>3, Zenon DEF Place
<1> QED
  BY <1>1, <1>2, <1>3, <1>4

LEMMA CommandeeredEnv ==
  ASSUME NEW env \in IpEnvs
  PROVE  /\ Commandeered(env) \in IpEnvs /\ Commandeered(env).life = env.life
         /\ Place(Commandeered(env)) = Place(env) /\ Commandeered(env).autoreset = FALSE
<1>1. Commandeered(env) \in IpEnvs
  BY StillWithin, Zenon DEF IpEnvs, EnvsOf, Commandeered
<1>2. Commandeered(env).autoreset = FALSE
  BY Zenon DEF IpEnvs, EnvsOf, Commandeered
<1>3. Commandeered(env).life = env.life /\ Commandeered(env).t = env.t
  BY SMT DEF IpEnvs, EnvsOf, Commandeered
<1>4. Place(Commandeered(env)) = Place(env)
  BY <1>3, Zenon DEF Place
<1> QED
  BY <1>1, <1>2, <1>3, <1>4

LEMMA Open_Holds == IpInv /\ Open => IpInv'
<1> SUFFICES ASSUME IpInv, Open PROVE IpInv'
  OBVIOUS
<1> USE DEF IpInv
<1>1. /\ ipMain.at = "open" /\ ipControls' = [ipControls EXCEPT !.paused = ipLaunch.paused]
      /\ ipMain' = [ipMain EXCEPT !.at = "top"] /\ ipKey' = [ipKey EXCEPT !.at = "idle"]
      /\ ipSeen' = [ipSeen EXCEPT !.began = ipEnv.life] /\ UNCHANGED <<ipLaunch, ipSession, ipGhost>>
      /\ \/ ipLaunch.keyboard /\ ipCommand' = Still /\ ipEnv' = Commandeered(ipEnv)
         \/ UNCHANGED <<ipCommand, ipEnv>>
  BY Zenon DEF Open
<1>2. /\ ~Commanded /\ ipSeen.resets = 0 /\ ipSeen.strayed = 0 /\ ipKey.at \notin {"observe", "reset", "zero"}
      /\ Place(ipSession.obs) = Place(ipEnv) /\ ipEnv \in IpEnvs /\ ipEnv.life \in Nat
  BY <1>1, SetupSeen, EnvParts DEF IpTypes
<1>3. /\ ipEnv' \in IpEnvs /\ ipEnv'.life = ipEnv.life /\ Place(ipEnv') = Place(ipEnv)
      /\ Commanded' => ipLaunch.keyboard /\ ipCommand' = Still /\ ipEnv'.autoreset = FALSE
  <2>1. CASE ipLaunch.keyboard /\ ipCommand' = Still /\ ipEnv' = Commandeered(ipEnv)
    BY <1>2, <2>1, CommandeeredEnv, Zenon
  <2>2. CASE UNCHANGED <<ipCommand, ipEnv>>
    BY <1>2, <2>2 DEF Commanded
  <2> QED
    BY <1>1, <2>1, <2>2, Zenon
<1>4. ipMain' \in IpMains /\ ipMain'.at = "top"
  <2>1. "top" \in IpPlaces
    BY DEF IpPlaces
  <2> QED
    BY <1>1, <2>1, MainParts DEF IpTypes
<1>5. ipKey' \in IpKeys /\ ipKey'.at = "idle"
  BY <1>1, SMT DEF IpTypes, IpKeys, IpKeyPlaces
<1>6. ipControls' \in [paused : BOOLEAN, requests : Nat] /\ ipControls'.requests = ipControls.requests
  <2>1. ipLaunch.paused \in BOOLEAN
    BY LaunchIs
  <2>2. ipControls' \in [paused : BOOLEAN, requests : Nat]
    BY <1>1, <2>1, Zenon DEF IpTypes
  <2>3. ipControls'.requests = ipControls.requests
    BY <1>1, SMT DEF IpTypes
  <2> QED
    BY <2>2, <2>3
<1>7. /\ ipSeen' \in IpSeens /\ ipSeen'.began = ipEnv.life /\ ipSeen'.resets = ipSeen.resets
      /\ ipSeen'.missed = ipSeen.missed /\ ipSeen'.strayed = ipSeen.strayed
  BY <1>1, <1>2, SMT DEF IpTypes, IpSeens
<1>8. IpTypes'
  BY <1>1, <1>3, <1>4, <1>5, <1>6, <1>7 DEF IpTypes
<1>9. Pressed'
  BY <1>1, <1>5, <1>6 DEF Pressed, StepsAsPressed
<1>10. Commander' /\ Down' /\ Quiet'
  BY <1>2, <1>3, <1>4, <1>5, <1>7, StillWithin DEF Commander, Down, Quiet, Setup
<1>11. Verified'
  <2>1. ipLaunch.keyboard /\ ipLaunch.check => ipLaunch.task.sees
    BY <1>1, Zenon DEF Verified
  <2>2. ipMain'.at # "open"
    BY <1>4
  <2> QED
    BY <1>1, <1>3, <2>1, <2>2, Zenon DEF Verified
<1>12. Late' = 0 /\ Due' = 0 /\ Redrawn' = 0
  <2>1. Held' = ipSession.obs
    BY <1>1, <1>4, Zenon DEF Held
  <2> QED
    BY <1>2, <1>3, <1>4, <1>5, <2>1 DEF Late, Due, Redrawn, One
<1>13. Missing'
  <2>1. ipSeen.missed <= 2 * ipSeen.resets
    BY CountParts, Ones DEF Missing
  <2> QED
    BY <1>7, <1>12, <2>1, CountParts DEF Missing
<1>14. Straying'
  <2>1. ipSeen'.strayed = 0 /\ ipSeen'.resets = 0
    BY <1>2, <1>7
  <2>2. Off' \in {0, 1}
    BY Ones
  <2>3. \A w \in {0, 1} : 0 + w + 0 + 0 <= 1 + 2 * 0
    OBVIOUS
  <2>4. 0 + Off' + 0 + 0 <= 1 + 2 * 0
    BY <2>2, <2>3, Zenon
  <2>5. ipSeen'.strayed + Off' + Due' + Redrawn' = 0 + Off' + 0 + 0
    BY <1>12, <2>1, Zenon
  <2>6. 1 + 2 * ipSeen'.resets = 1 + 2 * 0
    BY <2>1, Zenon
  <2> QED
    BY <2>4, <2>5, <2>6, Zenon DEF Straying
<1>15. AutoFits'
  BY <1>4 DEF AutoFits
<1> QED
  BY <1>8, <1>9, <1>10, <1>11, <1>13, <1>14, <1>15

------------------------------------------------------------------------------
(* The loop.                                                                  *)

LEMMA WriteCommand_Holds == IpInv /\ WriteCommand => IpInv'
<1> SUFFICES ASSUME IpInv, WriteCommand PROVE IpInv'
  OBVIOUS
<1> USE DEF IpInv
<1>1. PICK running \in BOOLEAN :
        /\ ipMain' = [ipMain EXCEPT !.at = IF running THEN "permit" ELSE "done"]
        /\ ipEnv' = IF running /\ Commanded THEN [ipEnv EXCEPT !.command = ipCommand] ELSE ipEnv
        /\ ipKey' = IF running THEN ipKey ELSE [ipKey EXCEPT !.at = "absent"]
        /\ ipSeen' = IF running /\ Commanded THEN [ipSeen EXCEPT !.written = ipCommand] ELSE ipSeen
  BY DEF WriteCommand
<1>2. ipMain.at = "top" /\ UNCHANGED <<ipLaunch, ipSession, ipControls, ipCommand, ipGhost>>
  BY DEF WriteCommand
<1>3. PICK x \in {"permit", "done"} : ipMain' = [ipMain EXCEPT !.at = x] /\ (x = "permit" => running)
  BY <1>1
<1>4. ipMain' \in IpMains /\ ipMain'.at = x
  <2>1. x \in IpPlaces
    BY DEF IpPlaces
  <2> QED
    BY <1>3, <2>1, MainParts DEF IpTypes
<1>5. /\ ipEnv' \in IpEnvs /\ ipEnv'.life = ipEnv.life /\ Place(ipEnv') = Place(ipEnv)
      /\ ipEnv'.autoreset = ipEnv.autoreset
      /\ running /\ Commanded => ipEnv'.command = ipCommand
  <2>1. ipEnv \in IpEnvs /\ (Commanded => ipCommand \in TaskCommands)
    BY DEF IpTypes, Commander
  <2>2. CASE running /\ Commanded
    <3>1. ipEnv' = [ipEnv EXCEPT !.command = ipCommand]
      BY <1>1, <2>2, Zenon
    <3> QED
      BY <2>1, <2>2, <3>1, CommandedEnv, Zenon
  <2>3. CASE ~ (running /\ Commanded)
    <3>1. ipEnv' = ipEnv
      BY <1>1, <2>3, Zenon
    <3> QED
      BY <2>1, <2>3, <3>1, Zenon
  <2> QED
    BY <2>2, <2>3
<1>6. /\ ipSeen' \in IpSeens /\ ipSeen'.began = ipSeen.began /\ ipSeen'.resets = ipSeen.resets
      /\ ipSeen'.missed = ipSeen.missed /\ ipSeen'.strayed = ipSeen.strayed /\ ipSeen'.shown = ipSeen.shown
      /\ running /\ Commanded => ipSeen'.written = ipCommand
  <2>1. CASE running /\ Commanded
    <3>1. ipSeen' = [ipSeen EXCEPT !.written = ipCommand] /\ ipCommand \in TaskCommands
      BY <1>1, <2>1, Zenon DEF Commander
    <3> QED
      BY <3>1, SMT DEF IpTypes, IpSeens
  <2>2. CASE ~ (running /\ Commanded)
    <3>1. ipSeen' = ipSeen
      BY <1>1, <2>2, Zenon
    <3> QED
      BY <2>2, <3>1, Zenon DEF IpTypes
  <2> QED
    BY <2>1, <2>2
<1>7. ipKey' \in IpKeys /\ (ipKey'.at = ipKey.at \/ ipKey'.at = "absent") /\ ipKey'.loaded = ipKey.loaded
  BY <1>1, SMT DEF IpTypes, IpKeys, IpKeyPlaces
<1>8. IpTypes'
  BY <1>2, <1>4, <1>5, <1>6, <1>7 DEF IpTypes
<1>9. Pressed'
  BY <1>2, <1>7 DEF Pressed, StepsAsPressed
<1>10. Commanded' <=> Commanded
  BY <1>2 DEF Commanded
<1>11. Commander' /\ Quiet'
  BY <1>2, <1>4, <1>6, <1>7, <1>10 DEF Commander, Quiet, Setup
<1>12. Verified'
  <2>1. ipMain'.at # "open"
    BY <1>4
  <2> QED
    BY <1>2, <1>10, <2>1, Zenon DEF Verified
<1>13. Down'
  BY <1>2, <1>5, <1>6, <1>10 DEF Down, Playing
<1>14. Missing' /\ Straying'
  <2>1. Held = ipSession.obs /\ Held' = ipSession.obs
    BY <1>2, <1>4, Zenon DEF Held
  <2>2. Late' <= Late
    BY <1>2, <1>4, <1>5, <2>1 DEF Late, One, Holding
  <2>3. Due' <= Due
    BY <1>7 DEF Due, One
  <2>4. Expected = ipSeen.shown /\ Expected' = ipSeen.shown
    BY <1>2, <1>4, <1>6, Zenon DEF Expected
  <2>5. Off' <= Off
    BY <1>2, <1>4, <2>1, <2>4 DEF Off, One, Holding
  <2>6. Commanded => Redrawn' = 0
    BY <1>3, <1>4, <1>5, <1>6 DEF Redrawn, One
  <2>7. 0 <= Redrawn
    BY Ones
  <2>8. Commanded => Redrawn' <= Redrawn
    BY <2>6, <2>7, Zenon
  <2> QED
    BY <1>6, <1>10, <2>2, <2>3, <2>5, <2>8, CountsKept, Zenon
<1>15. AutoFits'
  BY <1>4 DEF AutoFits
<1> QED
  BY <1>8, <1>9, <1>11, <1>12, <1>13, <1>14, <1>15

LEMMA Permit_Holds == IpInv /\ Permit => IpInv'
<1> SUFFICES ASSUME IpInv, Permit PROVE IpInv'
  OBVIOUS
<1> USE DEF IpInv
<1> DEFINE granted == ~ipControls.paused \/ ipControls.requests > 0
           left == IF granted THEN Served(ipControls) ELSE ipControls.requests
           owed == IF ~granted THEN ipGhost.owed
                   ELSE IF ipControls.paused THEN ipGhost.owed - 1 ELSE Less(ipGhost.owed)
<1>1. /\ ipMain.at = "permit" /\ ipMain' = [ipMain EXCEPT !.at = IF granted THEN "act" ELSE "top"]
      /\ ipControls' = [ipControls EXCEPT !.requests = left] /\ ipGhost' = [ipGhost EXCEPT !.owed = owed]
      /\ UNCHANGED <<ipLaunch, ipKey, ipEnv, ipSession, ipCommand, ipSeen>>
  BY DEF Permit
<1>2. /\ ipControls.requests \in Nat /\ ipGhost.owed \in Int /\ ipGhost.twice \in Int
      /\ ipKey.loaded \in Nat
  BY CountParts
<1>3. left \in Nat /\ owed \in Int
  BY <1>2 DEF Served, Less
<1>4. owed <= left /\ left <= owed + ipGhost.twice /\ owed <= ipGhost.owed
  <2>0. ipGhost.owed <= ipControls.requests /\ ipControls.requests <= ipGhost.owed + ipGhost.twice
    BY DEF Pressed, StepsAsPressed
  <2>1. ipControls.paused \in BOOLEAN
    BY CountParts
  <2>2. (ipControls.requests > 0) \in BOOLEAN
    OBVIOUS
  <2>3. CASE ~granted
    <3>1. left = ipControls.requests /\ owed = ipGhost.owed
      BY <2>3, Zenon
    <3> QED
      BY <1>2, <2>0, <3>1
  <2>4. CASE granted /\ ipControls.paused
    <3>1. left = Less(ipControls.requests) /\ owed = ipGhost.owed - 1 /\ ipControls.requests > 0
      BY <2>4, Zenon DEF Served
    <3> HIDE DEF left, owed
    <3> QED
      BY <1>2, <2>0, <3>1 DEF Less
  <2>5. CASE granted /\ ~ipControls.paused
    <3>1. left = Less(ipControls.requests) /\ owed = Less(ipGhost.owed)
      BY <2>5, Zenon DEF Served
    <3> HIDE DEF left, owed
    <3>2. left = IF ipControls.requests > 0 THEN ipControls.requests - 1 ELSE ipControls.requests
      BY <3>1 DEF Less
    <3>3. owed = IF ipGhost.owed > 0 THEN ipGhost.owed - 1 ELSE ipGhost.owed
      BY <3>1 DEF Less
    <3> QED
      BY <1>2, <2>0, <3>2, <3>3
  <2> QED
    BY <2>3, <2>4, <2>5
<1>5. PICK x \in {"act", "top"} : ipMain' = [ipMain EXCEPT !.at = x]
  BY <1>1
<1> HIDE DEF left, owed, granted
<1>6. ipMain' \in IpMains /\ ipMain'.at = x
  <2>1. x \in IpPlaces
    BY DEF IpPlaces
  <2> QED
    BY <1>5, <2>1, MainParts DEF IpTypes
<1>7. ipControls' \in [paused : BOOLEAN, requests : Nat] /\ ipControls'.requests = left
  <2>1. ipControls' \in [paused : BOOLEAN, requests : Nat]
    BY <1>1, <1>3, Zenon DEF IpTypes
  <2>2. ipControls'.requests = left
    BY <1>1, SMT DEF IpTypes
  <2> QED
    BY <2>1, <2>2
<1>8. ipGhost' \in [owed : Int, twice : Int] /\ ipGhost'.owed = owed /\ ipGhost'.twice = ipGhost.twice
  BY <1>1, <1>3, SMT DEF IpTypes
<1>9. IpTypes'
  BY <1>1, <1>6, <1>7, <1>8 DEF IpTypes
<1>10. Pressed'
  <2>1. StepsAsPressed'
    BY <1>4, <1>7, <1>8 DEF Pressed, StepsAsPressed
  <2>2. (ipKey.at = "request" => ipGhost.owed <= ipKey.loaded)'
    BY <1>1, <1>2, <1>3, <1>4, <1>8 DEF Pressed
  <2> QED
    BY <2>1, <2>2 DEF Pressed
<1>11. Commanded' <=> Commanded
  BY <1>1 DEF Commanded
<1>12. Commander' /\ Down' /\ Quiet'
  BY <1>1, <1>6, <1>11 DEF Commander, Down, Quiet, Playing, Setup
<1>13. Verified'
  <2>1. ipMain'.at # "open"
    BY <1>6
  <2> QED
    BY <1>1, <1>11, <2>1, Zenon DEF Verified
<1>14. Missing' /\ Straying'
  <2>1. Held = ipSession.obs /\ Held' = ipSession.obs
    BY <1>1, <1>6, Zenon DEF Held
  <2>2. Expected = ipSeen.shown /\ Expected' = ipSeen.shown
    BY <1>1, <1>6, Zenon DEF Expected
  <2>3. Late' <= Late /\ Due' <= Due /\ Off' <= Off
    BY <1>1, <1>6, <2>1, <2>2 DEF Late, Due, Off, One, Holding
  <2>4. Redrawn' <= Redrawn
    BY <1>1, <1>6 DEF Redrawn, One
  <2> QED
    BY <1>1, <1>11, <2>3, <2>4, CountsKept, Zenon
<1>15. AutoFits'
  BY <1>6 DEF AutoFits
<1> QED
  BY <1>9, <1>10, <1>12, <1>13, <1>14, <1>15

LEMMA ActOn_Holds == IpInv /\ ActOn => IpInv'
<1> SUFFICES ASSUME IpInv, ActOn PROVE IpInv'
  OBVIOUS
<1> USE DEF IpInv
<1> DEFINE unfed == ipMain.source = "policy" /\ Fed(ipMain.obsMode) # Net(ipMain.obsMode)
           at == IF unfed THEN "raised" ELSE "step"
<1>1. /\ ipMain.at = "act" /\ ipMain' = [ipMain EXCEPT !.at = at, !.from = ipSession.obs]
      /\ UNCHANGED <<ipLaunch, ipKey, ipEnv, ipSession, ipControls, ipCommand, ipGhost, ipSeen>>
  BY DEF ActOn
<1>2. at \in {"raised", "step"} /\ (ipLaunch.algo = "ppo" => at = "step")
  BY Zenon DEF Net
<1> HIDE DEF at
<1>3. ipMain' \in IpMains /\ ipMain'.at = at /\ ipMain'.from = ipSession.obs /\ ipMain'.got = ipMain.got
  <2>1. at \in IpPlaces
    BY <1>2 DEF IpPlaces
  <2>2. ipSession.obs \in Stamps
    BY CountParts
  <2>3. ipMain' \in IpMains
    BY <1>1, <2>1, <2>2, Zenon DEF IpTypes, IpMains
  <2>4. ipMain'.at = at /\ ipMain'.from = ipSession.obs /\ ipMain'.got = ipMain.got
    BY <1>1, SMT DEF IpTypes, IpMains
  <2> QED
    BY <2>3, <2>4
<1>4. IpTypes'
  BY <1>1, <1>3 DEF IpTypes
<1>5. Pressed'
  BY <1>1 DEF Pressed, StepsAsPressed
<1>6. Commanded' <=> Commanded
  BY <1>1 DEF Commanded
<1>7. Commander' /\ Down' /\ Quiet'
  BY <1>1, <1>2, <1>3, <1>6 DEF Commander, Down, Quiet, Playing, Setup
<1>8. Verified'
  <2>1. ipMain'.at # "open"
    BY <1>2, <1>3
  <2> QED
    BY <1>1, <1>6, <2>1, Zenon DEF Verified
<1>9. Missing' /\ Straying'
  <2>1. Held = ipSession.obs /\ (at = "step" => Held' = ipSession.obs)
    BY <1>1, <1>3, Zenon DEF Held
  <2>2. Expected = ipSeen.shown /\ (at = "step" => Expected' = ipSeen.shown)
    BY <1>1, <1>3, "step" # "store", Zenon DEF Expected
  <2>3. Late' <= Late /\ Due' <= Due /\ Off' <= Off
    BY <1>1, <1>2, <1>3, <2>1, <2>2 DEF Late, Due, Off, One, Holding
  <2>4. Redrawn' <= Redrawn
    BY <1>1, <1>2, <1>3 DEF Redrawn, One
  <2> QED
    BY <1>1, <1>6, <2>3, <2>4, CountsKept, Zenon
<1>10. AutoFits'
  BY <1>1, <1>2, <1>3 DEF AutoFits
<1> QED
  BY <1>4, <1>5, <1>7, <1>8, <1>9, <1>10

LEMMA PhysicsStep_Holds == IpInv /\ PhysicsStep => IpInv'
<1> SUFFICES ASSUME IpInv, PhysicsStep PROVE IpInv'
  OBVIOUS
<1> USE DEF IpInv
<1> DEFINE n == ipEnv.t + 1
           missed == ipSeen.missed + One(Place(ipMain.from) # Place(ipEnv))
           strayed == ipSeen.strayed + One(Commanded /\ ipMain.from.command # ipSeen.shown)
<1>1. /\ ipMain.at = "step" /\ ipMain' = [ipMain EXCEPT !.at = "observe"] /\ ipEnv' = [ipEnv EXCEPT !.t = n]
      /\ ipSeen' = [ipSeen EXCEPT !.missed = missed, !.strayed = strayed]
      /\ UNCHANGED <<ipLaunch, ipKey, ipSession, ipControls, ipCommand, ipGhost>>
  BY DEF PhysicsStep
<1>2. /\ ipSeen.missed \in Nat /\ ipSeen.strayed \in Nat /\ ipSeen.resets \in Nat /\ n \in Nat
      /\ ipEnv \in IpEnvs
  BY CountParts, EnvParts DEF IpTypes
<1>3. Held = ipMain.from /\ Expected = ipSeen.shown
  BY <1>1, "step" # "store", Zenon DEF Held, Expected
<1>4. missed = ipSeen.missed + Late
  BY <1>1, <1>3 DEF Late, One, Holding
<1>5. strayed \in Nat /\ (Commanded => strayed = ipSeen.strayed + Off)
  BY <1>1, <1>2, <1>3 DEF Off, One, Holding
<1>6. missed \in Nat
  BY <1>2, <1>4, Ones
<1> HIDE DEF n, missed, strayed
<1>7. /\ ipEnv' \in IpEnvs /\ ipEnv'.life = ipEnv.life /\ ipEnv'.autoreset = ipEnv.autoreset
      /\ ipEnv'.command = ipEnv.command
  <2>1. ipEnv' \in IpEnvs
    BY <1>1, <1>2, Zenon DEF IpEnvs, EnvsOf
  <2>2. ipEnv'.life = ipEnv.life /\ ipEnv'.command = ipEnv.command
    BY <1>1, <1>2, SMT DEF IpEnvs, EnvsOf
  <2>3. ipEnv'.autoreset = ipEnv.autoreset
    BY <1>1, <1>2, Zenon DEF IpEnvs, EnvsOf
  <2> QED
    BY <2>1, <2>2, <2>3
<1>8. ipMain' \in IpMains /\ ipMain'.at = "observe"
  <2>1. "observe" \in IpPlaces
    BY DEF IpPlaces
  <2> QED
    BY <1>1, <2>1, MainParts DEF IpTypes
<1>9. /\ ipSeen' \in IpSeens /\ ipSeen'.began = ipSeen.began /\ ipSeen'.resets = ipSeen.resets
      /\ ipSeen'.missed = missed /\ ipSeen'.strayed = strayed /\ ipSeen'.written = ipSeen.written
  <2>1. ipSeen' = [ipSeen EXCEPT !.missed = missed, !.strayed = strayed] /\ ipSeen \in IpSeens
    BY <1>1 DEF IpTypes
  <2>2. ipSeen' \in IpSeens
    BY <1>5, <1>6, <2>1, Zenon DEF IpSeens
  <2>3. /\ ipSeen'.began = ipSeen.began /\ ipSeen'.resets = ipSeen.resets
        /\ ipSeen'.missed = missed /\ ipSeen'.strayed = strayed /\ ipSeen'.written = ipSeen.written
    BY <2>1, SMT DEF IpSeens
  <2> QED
    BY <2>2, <2>3
<1>10. IpTypes'
  BY <1>1, <1>7, <1>8, <1>9 DEF IpTypes
<1>11. Pressed'
  BY <1>1 DEF Pressed, StepsAsPressed
<1>12. Commanded' <=> Commanded
  BY <1>1 DEF Commanded
<1>13. Commander' /\ Down' /\ Quiet'
  BY <1>1, <1>7, <1>8, <1>9, <1>12 DEF Commander, Down, Quiet, Playing, Setup
<1>14. Verified'
  <2>1. ipMain'.at # "open"
    BY <1>8
  <2> QED
    BY <1>1, <1>12, <2>1, Zenon DEF Verified
<1>15. Late' = 0 /\ Off' = 0 /\ Due' = Due /\ Redrawn' = Redrawn
  BY <1>1, <1>7, <1>8, <1>9 DEF Late, Off, Due, Redrawn, One, Holding
<1>16. Missing'
  <2>1. ipSeen.missed + Late + Due <= 2 * ipSeen.resets
    BY DEF Missing
  <2> QED
    BY <1>2, <1>4, <1>9, <1>15, <2>1, Ones DEF Missing
<1>17. Straying'
  <2> SUFFICES ASSUME Commanded' PROVE ipSeen'.strayed + Off' + Due' + Redrawn' <= 1 + 2 * ipSeen'.resets
    BY DEF Straying
  <2>1. ipSeen.strayed + Off + Due + Redrawn <= 1 + 2 * ipSeen.resets /\ strayed = ipSeen.strayed + Off
    BY <1>5, <1>12 DEF Straying
  <2> QED
    BY <1>2, <1>9, <1>15, <2>1, Ones
<1>18. AutoFits'
  BY <1>8 DEF AutoFits
<1> QED
  BY <1>10, <1>11, <1>13, <1>14, <1>16, <1>17, <1>18

LEMMA Observe_Holds == IpInv /\ Observe => IpInv'
<1> SUFFICES ASSUME IpInv, Observe PROVE IpInv'
  OBVIOUS
<1> USE DEF IpInv
<1>1. /\ ipMain.at = "observe"
      /\ UNCHANGED <<ipLaunch, ipKey, ipSession, ipControls, ipCommand, ipGhost, ipSeen>>
      /\ ipEnv \in IpEnvs /\ Commands(ipEnv.limit) = TaskCommands
  BY EnvParts DEF Observe, IpTypes, TaskCommands
<1>2. PICK ends \in BOOLEAN, c \in TaskCommands :
        /\ ipEnv' = IF ends /\ ipEnv.autoreset THEN ResetOf(ipEnv, c) ELSE ipEnv
        /\ ipMain' = [ipMain EXCEPT !.at = "store", !.got = StampOf(ipEnv')]
  BY <1>1, Zenon DEF Observe
<1>3. /\ ipEnv' \in IpEnvs /\ ipEnv'.autoreset = ipEnv.autoreset
      /\ ipEnv.autoreset = FALSE => ipEnv' = ipEnv
  <2>1. CASE ends /\ ipEnv.autoreset
    <3>1. ipEnv' = ResetOf(ipEnv, c)
      BY <1>2, <2>1, Zenon
    <3> QED
      BY <1>1, <2>1, <3>1, ResetIs, Zenon
  <2>2. CASE ~ (ends /\ ipEnv.autoreset)
    <3>1. ipEnv' = ipEnv
      BY <1>2, <2>2, Zenon
    <3> QED
      BY <1>1, <3>1, Zenon
  <2> QED
    BY <2>1, <2>2
<1>4. ipMain' \in IpMains /\ ipMain'.at = "store" /\ ipMain'.got = StampOf(ipEnv')
  <2>1. "store" \in IpPlaces
    BY DEF IpPlaces
  <2>2. StampOf(ipEnv') \in Stamps
    BY <1>3, EnvParts
  <2> DEFINE stamp == StampOf(ipEnv')
  <2> HIDE DEF stamp
  <2>3. ipMain' = [ipMain EXCEPT !.at = "store", !.got = stamp]
    BY <1>2 DEF stamp
  <2>4. ipMain' \in IpMains
    BY <2>1, <2>2, <2>3, Zenon DEF IpTypes, IpMains, stamp
  <2>5. ipMain'.at = "store" /\ ipMain'.got = stamp
    BY <2>3, SMT DEF IpTypes, IpMains
  <2> QED
    BY <2>4, <2>5 DEF stamp
<1>5. IpTypes'
  BY <1>1, <1>3, <1>4 DEF IpTypes
<1>6. Pressed'
  BY <1>1 DEF Pressed, StepsAsPressed
<1>7. Commanded' <=> Commanded
  BY <1>1 DEF Commanded
<1>8. Commanded => ipEnv' = ipEnv
  BY <1>1, <1>3 DEF Down, Playing
<1>9. Commander' /\ Down' /\ Quiet'
  BY <1>1, <1>4, <1>7, <1>8 DEF Commander, Down, Quiet, Playing, Setup
<1>10. Verified'
  <2>1. ipMain'.at # "open"
    BY <1>4
  <2> QED
    BY <1>1, <1>7, <2>1, Zenon DEF Verified
<1>11. Missing' /\ Straying'
  <2>1. Held' = StampOf(ipEnv') /\ Expected' = ipSeen.written
    BY <1>1, <1>4, "step" # "store", Zenon DEF Held, Expected
  <2>2. Place(Held') = Place(ipEnv') /\ Held'.command = ipEnv'.command
    BY <1>3, <2>1, EnvParts
  <2>3. Late' = 0 /\ Off = 0 /\ Due' = Due /\ Redrawn' = 0
    BY <1>1, <1>4, <2>2 DEF Late, Off, Due, Redrawn, One, Holding
  <2>4. Commanded => Off' <= Redrawn
    BY <1>1, <1>8, <2>1, <2>2 DEF Off, Redrawn, One
  <2>5. Missing'
    <3>1. ipSeen.missed + Late + Due <= 2 * ipSeen.resets
      BY DEF Missing
    <3> QED
      BY <1>1, <2>3, <3>1, CountParts, Ones DEF Missing
  <2>6. Straying'
    <3> SUFFICES ASSUME Commanded' PROVE ipSeen'.strayed + Off' + Due' + Redrawn' <= 1 + 2 * ipSeen'.resets
      BY DEF Straying
    <3>1. ipSeen.strayed + 0 + Due + Redrawn <= 1 + 2 * ipSeen.resets /\ Off' <= Redrawn
      BY <1>7, <2>3, <2>4 DEF Straying
    <3>2. ipSeen.strayed + Off' + Due + 0 <= 1 + 2 * ipSeen.resets
      BY <3>1, CountParts, Ones
    <3> QED
      BY <1>1, <2>3, <3>2, Zenon
  <2> QED
    BY <2>5, <2>6
<1>12. AutoFits'
  BY <1>4 DEF AutoFits
<1> QED
  BY <1>5, <1>6, <1>9, <1>10, <1>11, <1>12

LEMMA StoreObs_Holds == IpInv /\ StoreObs => IpInv'
<1> SUFFICES ASSUME IpInv, StoreObs PROVE IpInv'
  OBVIOUS
<1> USE DEF IpInv
<1>1. /\ ipMain.at = "store" /\ ipSession' = [obs |-> ipMain.got, count |-> ipSession.count + 1]
      /\ ipMain' = [ipMain EXCEPT !.at = "top", !.from = NoObs, !.got = NoObs]
      /\ ipSeen' = [ipSeen EXCEPT !.shown = ipSeen.written]
      /\ UNCHANGED <<ipLaunch, ipKey, ipEnv, ipControls, ipCommand, ipGhost>>
  BY DEF StoreObs
<1>2. ipMain.got \in Stamps /\ ipSession.count + 1 \in Nat
  <2>1. "top" \in IpPlaces
    BY DEF IpPlaces
  <2>2. ipMain.got \in Stamps
    BY <2>1, MainParts DEF IpTypes
  <2>3. ipSession.count \in Nat
    BY CountParts
  <2> QED
    BY <2>2, <2>3
<1>3. ipSession' \in IpSessions /\ ipSession'.obs = ipMain.got
  BY <1>1, <1>2, SMT DEF IpSessions
<1>4. ipMain' \in IpMains /\ ipMain'.at = "top"
  <2>1. "top" \in IpPlaces
    BY DEF IpPlaces
  <2>2. ipMain' \in IpMains
    BY <1>1, <2>1, ZeroStamp, Zenon DEF IpTypes, IpMains
  <2>3. ipMain'.at = "top"
    BY <1>1, SMT DEF IpTypes, IpMains
  <2> QED
    BY <2>2, <2>3
<1>5. /\ ipSeen' \in IpSeens /\ ipSeen'.began = ipSeen.began /\ ipSeen'.resets = ipSeen.resets
      /\ ipSeen'.missed = ipSeen.missed /\ ipSeen'.strayed = ipSeen.strayed /\ ipSeen'.shown = ipSeen.written
  BY <1>1, SMT DEF IpTypes, IpSeens
<1>6. IpTypes'
  BY <1>1, <1>3, <1>4, <1>5 DEF IpTypes
<1>7. Pressed'
  BY <1>1 DEF Pressed, StepsAsPressed
<1>8. Commanded' <=> Commanded
  BY <1>1 DEF Commanded
<1>9. Commander' /\ Down' /\ Quiet'
  BY <1>1, <1>4, <1>5, <1>8 DEF Commander, Down, Quiet, Playing, Setup
<1>10. Verified'
  <2>1. ipMain'.at # "open"
    BY <1>4
  <2> QED
    BY <1>1, <1>8, <2>1, Zenon DEF Verified
<1>11. Missing' /\ Straying'
  <2>1. Held = ipMain.got /\ Held' = ipMain.got
    BY <1>1, <1>3, <1>4, "step" # "store", Zenon DEF Held
  <2>2. Expected = ipSeen.written /\ Expected' = ipSeen.written
    BY <1>1, <1>4, <1>5, Zenon DEF Expected
  <2>3. Late' <= Late /\ Due' <= Due /\ Off' <= Off /\ Redrawn' <= Redrawn
    BY <1>1, <1>4, <2>1, <2>2 DEF Late, Due, Off, Redrawn, One, Holding
  <2> QED
    BY <1>5, <1>8, <2>3, CountsKept, Zenon
<1>12. AutoFits'
  BY <1>4 DEF AutoFits
<1> QED
  BY <1>6, <1>7, <1>9, <1>10, <1>11, <1>12

------------------------------------------------------------------------------
(* The keys.                                                                  *)

LEMMA KeyStep ==
  ASSUME IpTypes, NEW at \in IpKeyPlaces, Key(at)
  PROVE  ipKey' \in IpKeys /\ ipKey'.at = at
<1> DEFINE left == ipKey.left - (IF ipKey.at = "idle" THEN 1 ELSE 0)
<1>1. ipKey' = [at |-> at, loaded |-> 0, obs |-> NoObs, left |-> left]
  BY DEF Key
<1>2. left \in Int
  BY CountParts
<1> HIDE DEF left
<1> QED
  BY <1>1, <1>2, ZeroStamp, SMT DEF IpKeys

\* A key that leaves the environment, the session and the command.
LEMMA ControlKey ==
  ASSUME IpInv, UNCHANGED <<ipLaunch, ipMain, ipEnv, ipSession, ipCommand, ipSeen>>,
         IpTypes', Pressed', ipKey'.at \in {"observe", "reset"} => ipKey.at \in {"observe", "reset"},
         ~Commanded => ipKey'.at \notin {"observe", "reset", "zero"}
  PROVE  IpInv'
<1> USE DEF IpInv
<1>1. Commanded' <=> Commanded
  BY DEF Commanded
<1>2. Commander' /\ Down' /\ Quiet'
  BY <1>1 DEF Commander, Down, Quiet, Playing
<1>3. Verified'
  BY <1>1, Zenon DEF Verified
<1>4. Missing' /\ Straying'
  <2>1. Late' = Late /\ Off' = Off /\ Redrawn' = Redrawn
    BY DEF Late, Off, Redrawn, Held, Expected
  <2>2. Late' <= Late /\ Off' <= Off /\ Redrawn' <= Redrawn
    BY <2>1, Ones
  <2>3. Due' <= Due
    BY DEF Due, One
  <2> QED
    BY <1>1, <2>2, <2>3, CountsKept, Zenon
<1>5. AutoFits'
  BY DEF AutoFits
<1> QED
  BY <1>2, <1>3, <1>4, <1>5

LEMMA TogglePause_Holds == IpInv /\ TogglePause => IpInv'
<1> SUFFICES ASSUME IpInv, TogglePause PROVE IpInv'
  OBVIOUS
<1>1. /\ ipControls' = [ipControls EXCEPT !.paused = ~ipControls.paused]
      /\ UNCHANGED <<ipLaunch, ipMain, ipEnv, ipSession, ipCommand, ipGhost, ipSeen>>
  BY DEF TogglePause
<1>2. ipKey' \in IpKeys /\ ipKey'.at = "idle"
  <2>1. "idle" \in IpKeyPlaces
    BY DEF IpKeyPlaces
  <2> QED
    BY <2>1, KeyStep DEF TogglePause, IpInv
<1>3. ipControls' \in [paused : BOOLEAN, requests : Nat] /\ ipControls'.requests = ipControls.requests
  <2>1. ipControls' \in [paused : BOOLEAN, requests : Nat]
    BY <1>1, Zenon DEF IpInv, IpTypes
  <2>2. ipControls'.requests = ipControls.requests
    BY <1>1, SMT DEF IpInv, IpTypes
  <2> QED
    BY <2>1, <2>2
<1>4. IpTypes'
  BY <1>1, <1>2, <1>3 DEF IpInv, IpTypes
<1>5. Pressed'
  BY <1>1, <1>2, <1>3 DEF IpInv, Pressed, StepsAsPressed
<1> QED
  BY <1>1, <1>2, <1>4, <1>5, ControlKey

LEMMA LoadRequests_Holds == IpInv /\ LoadRequests => IpInv'
<1> SUFFICES ASSUME IpInv, LoadRequests PROVE IpInv'
  OBVIOUS
<1>1. /\ ipKey' = [ipKey EXCEPT !.at = "request", !.loaded = ipControls.requests, !.left = ipKey.left - 1]
      /\ UNCHANGED <<ipLaunch, ipMain, ipEnv, ipSession, ipControls, ipCommand, ipGhost, ipSeen>>
  BY DEF LoadRequests
<1>2. ipControls.requests \in Nat /\ ipKey.left - 1 \in Int
  BY CountParts DEF IpInv
<1>3. ipKey' \in IpKeys /\ ipKey'.at = "request" /\ ipKey'.loaded = ipControls.requests
  <2> DEFINE n == ipKey.left - 1
  <2> HIDE DEF n
  <2>1. ipKey' = [ipKey EXCEPT !.at = "request", !.loaded = ipControls.requests, !.left = n]
    BY <1>1 DEF n
  <2>2. n \in Int
    BY <1>2 DEF n
  <2>3. "request" \in IpKeyPlaces
    BY DEF IpKeyPlaces
  <2>4. ipKey' \in IpKeys
    BY <1>2, <2>1, <2>2, <2>3, Zenon DEF IpInv, IpTypes, IpKeys
  <2>5. ipKey'.at = "request" /\ ipKey'.loaded = ipControls.requests
    BY <2>1, SMT DEF IpInv, IpTypes, IpKeys
  <2> QED
    BY <2>4, <2>5
<1>4. IpTypes'
  BY <1>1, <1>3 DEF IpInv, IpTypes
<1>5. Pressed'
  BY <1>1, <1>3 DEF IpInv, Pressed, StepsAsPressed
<1> QED
  BY <1>1, <1>3, <1>4, <1>5, ControlKey

LEMMA StoreRequests_Holds == IpInv /\ StoreRequests => IpInv'
<1> SUFFICES ASSUME IpInv, StoreRequests PROVE IpInv'
  OBVIOUS
<1> DEFINE n == ipKey.loaded + 1
           owed == ipGhost.owed + 1
           twice == ipGhost.twice + (ipKey.loaded - ipControls.requests)
<1>1. /\ ipKey.at = "request" /\ ipControls' = [ipControls EXCEPT !.requests = n]
      /\ ipGhost' = [ipGhost EXCEPT !.owed = owed, !.twice = twice]
      /\ UNCHANGED <<ipLaunch, ipMain, ipEnv, ipSession, ipCommand, ipSeen>>
  BY DEF StoreRequests
<1>2. /\ ipControls.requests \in Nat /\ ipKey.loaded \in Nat
      /\ ipGhost.owed \in Int /\ ipGhost.twice \in Int
  BY CountParts DEF IpInv
<1>3. n \in Nat /\ owed \in Int /\ twice \in Int
  BY <1>2
<1>4. owed <= n /\ n <= owed + twice
  <2>1. ipGhost.owed <= ipKey.loaded /\ ipControls.requests <= ipGhost.owed + ipGhost.twice
    BY <1>1 DEF IpInv, Pressed, StepsAsPressed
  <2> QED
    BY <1>2, <2>1
<1> HIDE DEF n, owed, twice
<1>5. ipKey' \in IpKeys /\ ipKey'.at = "pause"
  <2>1. "pause" \in IpKeyPlaces
    BY DEF IpKeyPlaces
  <2> QED
    BY <2>1, KeyStep DEF StoreRequests, IpInv
<1>6. ipControls' \in [paused : BOOLEAN, requests : Nat] /\ ipControls'.requests = n
  <2>1. ipControls' \in [paused : BOOLEAN, requests : Nat]
    BY <1>1, <1>3, Zenon DEF IpInv, IpTypes
  <2>2. ipControls'.requests = n
    BY <1>1, SMT DEF IpInv, IpTypes
  <2> QED
    BY <2>1, <2>2
<1>7. /\ ipGhost' \in [owed : Int, twice : Int]
      /\ ipGhost'.owed = owed /\ ipGhost'.twice = twice
  <2>1. ipGhost' \in [owed : Int, twice : Int]
    BY <1>1, <1>3, Zenon DEF IpInv, IpTypes
  <2>2. ipGhost'.owed = owed /\ ipGhost'.twice = twice
    BY <1>1, SMT DEF IpInv, IpTypes
  <2> QED
    BY <2>1, <2>2
<1>8. IpTypes'
  BY <1>1, <1>5, <1>6, <1>7 DEF IpInv, IpTypes
<1>9. Pressed'
  BY <1>4, <1>5, <1>6, <1>7 DEF Pressed, StepsAsPressed
<1> QED
  BY <1>1, <1>5, <1>8, <1>9, ControlKey

LEMMA PauseForStep_Holds == IpInv /\ PauseForStep => IpInv'
<1> SUFFICES ASSUME IpInv, PauseForStep PROVE IpInv'
  OBVIOUS
<1>1. /\ ipControls' = [ipControls EXCEPT !.paused = TRUE]
      /\ UNCHANGED <<ipLaunch, ipMain, ipEnv, ipSession, ipCommand, ipGhost, ipSeen>>
  BY DEF PauseForStep
<1>2. ipKey' \in IpKeys /\ ipKey'.at = "idle"
  <2>1. "idle" \in IpKeyPlaces
    BY DEF IpKeyPlaces
  <2> QED
    BY <2>1, KeyStep DEF PauseForStep, IpInv
<1>3. ipControls' \in [paused : BOOLEAN, requests : Nat] /\ ipControls'.requests = ipControls.requests
  <2>1. ipControls' \in [paused : BOOLEAN, requests : Nat]
    BY <1>1, Zenon DEF IpInv, IpTypes
  <2>2. ipControls'.requests = ipControls.requests
    BY <1>1, SMT DEF IpInv, IpTypes
  <2> QED
    BY <2>1, <2>2
<1>4. IpTypes'
  BY <1>1, <1>2, <1>3 DEF IpInv, IpTypes
<1>5. Pressed'
  BY <1>1, <1>2, <1>3 DEF IpInv, Pressed, StepsAsPressed
<1> QED
  BY <1>1, <1>2, <1>4, <1>5, ControlKey

LEMMA ResetEnv_Holds == IpInv /\ ResetEnv => IpInv'
<1> SUFFICES ASSUME IpInv, ResetEnv PROVE IpInv'
  OBVIOUS
<1> USE DEF IpInv
<1>1. /\ Commanded /\ ipKey.at = "idle"
      /\ ipKey' = [ipKey EXCEPT !.at = "observe", !.left = ipKey.left - 1]
      /\ ipSeen' = [ipSeen EXCEPT !.resets = ipSeen.resets + 1]
      /\ UNCHANGED <<ipLaunch, ipMain, ipSession, ipControls, ipCommand, ipGhost>>
      /\ ipEnv \in IpEnvs /\ Commands(ipEnv.limit) = TaskCommands
  BY EnvParts DEF ResetEnv, MayPress, IpTypes, TaskCommands
<1>2. PICK c \in TaskCommands : ipEnv' = ResetOf(ipEnv, c)
  BY <1>1, Zenon DEF ResetEnv
<1>3. ipEnv' \in IpEnvs /\ ipEnv'.life = ipEnv.life + 1 /\ ipEnv'.autoreset = ipEnv.autoreset
  BY <1>1, <1>2, ResetIs
<1>4. ipKey' \in IpKeys /\ ipKey'.at = "observe"
  <2> DEFINE n == ipKey.left - 1
  <2>1. n \in Int
    BY CountParts
  <2> HIDE DEF n
  <2>2. ipKey' = [ipKey EXCEPT !.at = "observe", !.left = n]
    BY <1>1 DEF n
  <2>3. "observe" \in IpKeyPlaces
    BY DEF IpKeyPlaces
  <2>4. ipKey' \in IpKeys
    BY <2>1, <2>2, <2>3, Zenon DEF IpTypes, IpKeys
  <2>5. ipKey'.at = "observe"
    BY <2>2, SMT DEF IpTypes, IpKeys
  <2> QED
    BY <2>4, <2>5
<1>5. /\ ipSeen' \in IpSeens /\ ipSeen'.began = ipSeen.began /\ ipSeen'.resets = ipSeen.resets + 1
      /\ ipSeen'.missed = ipSeen.missed /\ ipSeen'.strayed = ipSeen.strayed
      /\ ipSeen'.shown = ipSeen.shown /\ ipSeen'.written = ipSeen.written
  <2>1. ipSeen.resets + 1 \in Nat
    BY CountParts
  <2> QED
    BY <1>1, <2>1, SMT DEF IpTypes, IpSeens
<1>6. IpTypes'
  BY <1>1, <1>3, <1>4, <1>5 DEF IpTypes
<1>7. Pressed'
  BY <1>1, <1>4 DEF Pressed, StepsAsPressed
<1>8. Commanded'
  BY <1>1 DEF Commanded
<1>9. Commander' /\ Quiet'
  BY <1>1, <1>5, <1>8 DEF Commander, Quiet
<1>10. Verified'
  BY <1>1, Zenon DEF Verified, Commander, Setup
<1>11. Down'
  <2>1. ipSeen.began \in Nat /\ ipSeen.resets \in Nat /\ ipEnv.life \in Nat
    BY <1>1, CountParts, EnvParts
  <2> QED
    BY <1>1, <1>3, <1>5, <2>1 DEF Down, Playing
<1>12. Due = 0 /\ Off' = Off
  <2>1. Due = 0
    BY <1>1 DEF Due, One
  <2>2. Held' = Held /\ Expected' = Expected
    BY <1>1, <1>5, Zenon DEF Held, Expected
  <2>3. Off' = Off
    BY <1>1, <2>2, Zenon DEF Off
  <2> QED
    BY <2>1, <2>3
<1>13. Missing'
  <2>1. ipSeen.missed + Late + Due <= 2 * ipSeen.resets
    BY DEF Missing
  <2> QED
    BY <1>5, <1>12, <2>1, CountParts, Ones DEF Missing
<1>14. Straying'
  <2>1. ipSeen.strayed + Off + Due + Redrawn <= 1 + 2 * ipSeen.resets
    BY <1>1 DEF Straying
  <2> QED
    BY <1>5, <1>12, <2>1, CountParts, Ones DEF Straying
<1>15. AutoFits'
  BY <1>1 DEF AutoFits
<1> QED
  BY <1>6, <1>7, <1>9, <1>10, <1>11, <1>13, <1>14, <1>15

LEMMA ObserveReset_Holds == IpInv /\ ObserveReset => IpInv'
<1> SUFFICES ASSUME IpInv, ObserveReset PROVE IpInv'
  OBVIOUS
<1>1. /\ ipKey.at = "observe" /\ ipKey' = [ipKey EXCEPT !.at = "reset", !.obs = StampOf(ipEnv)]
      /\ UNCHANGED <<ipLaunch, ipMain, ipEnv, ipSession, ipControls, ipCommand, ipGhost, ipSeen>>
  BY DEF ObserveReset
<1>2. ipKey' \in IpKeys /\ ipKey'.at = "reset"
  <2> DEFINE stamp == StampOf(ipEnv)
  <2>1. stamp \in Stamps
    BY EnvParts DEF IpInv, IpTypes
  <2> HIDE DEF stamp
  <2>2. ipKey' = [ipKey EXCEPT !.at = "reset", !.obs = stamp]
    BY <1>1 DEF stamp
  <2>3. "reset" \in IpKeyPlaces
    BY DEF IpKeyPlaces
  <2>4. ipKey' \in IpKeys
    BY <2>1, <2>2, <2>3, Zenon DEF IpInv, IpTypes, IpKeys
  <2>5. ipKey'.at = "reset"
    BY <2>2, SMT DEF IpInv, IpTypes, IpKeys
  <2> QED
    BY <2>4, <2>5
<1>3. IpTypes'
  BY <1>1, <1>2 DEF IpInv, IpTypes
<1>4. Pressed'
  BY <1>1, <1>2 DEF IpInv, Pressed, StepsAsPressed
<1>5. Commanded
  BY <1>1 DEF IpInv, Quiet
<1> QED
  BY <1>1, <1>2, <1>3, <1>4, <1>5, ControlKey

LEMMA ResetSession_Holds == IpInv /\ ResetSession => IpInv'
<1> SUFFICES ASSUME IpInv, ResetSession PROVE IpInv'
  OBVIOUS
<1> USE DEF IpInv
<1>1. /\ ipKey.at = "reset" /\ ipSession' = [obs |-> ipKey.obs, count |-> 0]
      /\ UNCHANGED <<ipLaunch, ipMain, ipEnv, ipControls, ipCommand, ipGhost, ipSeen>>
  BY DEF ResetSession
<1>2. ipKey.obs \in Stamps
  BY CountParts
<1>3. ipSession' \in IpSessions
  BY <1>1, <1>2, SMT DEF IpSessions
<1>4. ipKey' \in IpKeys /\ ipKey'.at = "zero"
  <2>1. "zero" \in IpKeyPlaces
    BY DEF IpKeyPlaces
  <2> QED
    BY <2>1, KeyStep DEF ResetSession
<1>5. IpTypes'
  BY <1>1, <1>3, <1>4 DEF IpTypes
<1>6. Pressed'
  BY <1>1, <1>4 DEF Pressed, StepsAsPressed
<1>7. Commanded /\ Commanded'
  BY <1>1 DEF Quiet, Commanded
<1>8. Commander' /\ Down' /\ Quiet'
  BY <1>1, <1>7 DEF Commander, Down, Quiet, Playing
<1>9. Verified'
  BY <1>1, <1>7, Zenon DEF Verified
<1>10. Due = 1 /\ Due' = 0 /\ Redrawn' = Redrawn
  BY <1>1, <1>4 DEF Due, Redrawn, One
<1>11. Missing'
  <2>1. ipSeen.missed + Late + Due <= 2 * ipSeen.resets
    BY DEF Missing
  <2> QED
    BY <1>1, <1>10, <2>1, CountParts, Ones DEF Missing
<1>12. Straying'
  <2>1. ipSeen.strayed + Off + Due + Redrawn <= 1 + 2 * ipSeen.resets
    BY <1>7 DEF Straying
  <2> QED
    BY <1>1, <1>10, <2>1, CountParts, Ones DEF Straying
<1>13. AutoFits'
  BY <1>1 DEF AutoFits
<1> QED
  BY <1>5, <1>6, <1>8, <1>9, <1>11, <1>12, <1>13

\* A key that leaves another command of the task.
LEMMA CommandKey ==
  ASSUME IpInv, Commanded, Key("idle"), ipCommand' \in TaskCommands,
         UNCHANGED <<ipLaunch, ipMain, ipEnv, ipSession, ipControls, ipGhost, ipSeen>>
  PROVE  IpInv'
<1> USE DEF IpInv
<1>1. ipKey' \in IpKeys /\ ipKey'.at = "idle"
  <2>1. "idle" \in IpKeyPlaces
    BY DEF IpKeyPlaces
  <2> QED
    BY <2>1, KeyStep
<1>2. IpTypes'
  BY <1>1 DEF IpTypes
<1>3. Pressed'
  BY <1>1 DEF Pressed, StepsAsPressed
<1>4. Commanded'
  BY CommandIs DEF Commanded
<1>5. Commander' /\ Down' /\ Quiet'
  BY <1>4 DEF Commander, Down, Quiet, Playing
<1>6. Verified'
  BY <1>4, Zenon DEF Verified
<1>7. Missing' /\ Straying'
  <2>1. Late' = Late /\ Off' = Off /\ Redrawn' = Redrawn
    BY DEF Late, Off, Redrawn, Held, Expected
  <2>2. Late' <= Late /\ Off' <= Off /\ Redrawn' <= Redrawn
    BY <2>1, Ones
  <2>3. Due' <= Due
    BY <1>1 DEF Due, One
  <2> QED
    BY <1>4, <2>2, <2>3, CountsKept, Zenon
<1>8. AutoFits'
  BY DEF AutoFits
<1> QED
  BY <1>2, <1>3, <1>5, <1>6, <1>7, <1>8

LEMMA ZeroCommand_Holds == IpInv /\ ZeroCommand => IpInv'
  BY StillWithin, CommandKey DEF ZeroCommand

LEMMA Nudge_Holds ==
  ASSUME NEW a \in Axes, NEW sign \in {-1, 1}
  PROVE  IpInv /\ Nudge(a, sign) => IpInv'
<1> SUFFICES ASSUME IpInv, Nudge(a, sign) PROVE IpInv'
  OBVIOUS
<1>1. ipCommand \in TaskCommands /\ sign \in Int
  BY DEF Nudge, IpInv, Commander
<1>2. ipCommand' = [ipCommand EXCEPT ![a] = Clipped(a, ipCommand[a] + sign)]
  BY DEF Nudge
<1>3. ipCommand' \in TaskCommands
  BY <1>1, <1>2, NudgedWithin, Zenon
<1> QED
  BY <1>3, CommandKey DEF Nudge

------------------------------------------------------------------------------

LEMMA IpInvariant == IpSpec => []IpInv
<1>1. IpInv /\ [IpNext]_ipvars => IpInv'
  <2> SUFFICES ASSUME IpInv, [IpNext]_ipvars PROVE IpInv'
    OBVIOUS
  <2>1. CASE UNCHANGED ipvars
    <3>1. UNCHANGED <<ipLaunch, ipMain, ipKey, ipEnv, ipSession, ipControls, ipCommand, ipGhost, ipSeen>>
      BY <2>1 DEF ipvars
    <3>2. IpTypes'
      BY <3>1 DEF IpInv, IpTypes
    <3>3. Pressed'
      BY <3>1 DEF IpInv, Pressed, StepsAsPressed
    <3>4. ~Commanded => ipKey'.at \notin {"observe", "reset", "zero"}
      BY <3>1 DEF IpInv, Quiet
    <3> QED
      BY <3>1, <3>2, <3>3, <3>4, ControlKey
  <2>2. CASE IpNext
    BY <2>2, BuildSession_Holds, SessionReset_Holds, CheckArrows_Holds, CheckKeys_Holds, Open_Holds,
       WriteCommand_Holds, Permit_Holds, ActOn_Holds, PhysicsStep_Holds, Observe_Holds, StoreObs_Holds,
       TogglePause_Holds, LoadRequests_Holds, StoreRequests_Holds, PauseForStep_Holds,
       ResetEnv_Holds, ObserveReset_Holds, ResetSession_Holds, ZeroCommand_Holds, Nudge_Holds, Zenon DEF IpNext
  <2> QED
    BY <2>1, <2>2
<1> QED
  BY <1>1, IpInit_Holds, PTL DEF IpSpec

\* play_interactive.py: in every state of a playback in a window, no press of N is lost
\* and none serves more steps than the presses that met a consumption; playing goes on
\* under the limits of the task, whatever the probe of the command had set, with a
\* command within them; at most two actions for each Backspace, and none besides, are
\* carried out in another state than the one observed for them; a policy under the keyboard
\* sees the command, unless told otherwise, and but for its first action and two for each
\* Backspace acts on an observation that shows the command written for the step before; a
\* robot under the keyboard begins anew only for Backspace; and a PPO checkpoint left to
\* auto is refused only for its contract.
THEOREM WindowStaysSound == IpSpec => []WindowSound
<1>1. IpInv => WindowSound
  <2> SUFFICES ASSUME IpInv PROVE WindowSound
    OBVIOUS
  <2> USE DEF IpInv
  <2>1. StepsAsPressed /\ AutoFits
    BY DEF Pressed
  <2>2. WithinLimits
    <3>1. ipEnv.limit = [a \in Axes |-> LimitOf(a)] /\ ipEnv.command \in Commands(ipEnv.limit)
      BY EnvParts DEF IpTypes, TaskLimit, TaskCommands
    <3>2. Commanded => ipCommand \in Commands(ipEnv.limit)
      BY EnvParts DEF IpTypes, TaskCommands, Commander
    <3> QED
      BY <3>1, <3>2 DEF WithinLimits
  <2>3. ActsOnCurrent
    BY CountParts, Ones DEF Missing, ActsOnCurrent
  <2>4. FollowsKeys
    <3>1. Commanded => (ipLaunch.check => ipLaunch.task.sees)
      BY Zenon DEF Verified
    <3>2. Commanded => ipSeen.strayed <= 1 + 2 * ipSeen.resets
      BY CountParts, Ones DEF Straying
    <3> QED
      BY <3>1, <3>2, Zenon DEF FollowsKeys
  <2>5. StaysDown
    BY DEF Down, StaysDown
  <2> QED
    BY <2>1, <2>2, <2>3, <2>4, <2>5 DEF WindowSound
<1> QED
  BY <1>1, IpInvariant, PTL

------------------------------------------------------------------------------
(* The filmed session                                                      *)

Trials == [at : {"absent", "open", "refused"}, getter : BOOLEAN, snapshots : Seq(Nat \ {0}), overlays : Seq(Nat)]

SnTypes ==
    /\ snSession \in Trials
    /\ snTime \in Nat \ {0}
    /\ snSession.at = "absent" => snSession.snapshots = <<>> /\ snVideo.frames = <<>>

\* What was cached for each frame of the trial, unless its getter raised.
CacheAligned ==
    snTorn \/ /\ DOMAIN snSession.overlays = DOMAIN snSession.snapshots
              /\ \A i \in DOMAIN snSession.snapshots :
                    snSession.overlays[i] = IF snSession.getter THEN snSession.snapshots[i] ELSE NoOverlay

SnInv == SnTypes /\ CacheAligned /\ FramesAligned


\* The parts of a session, and what it is when some are replaced.
LEMMA TrialParts ==
  ASSUME NEW s \in Trials
  PROVE  /\ s.at \in {"absent", "open", "refused"} /\ s.getter \in BOOLEAN
         /\ s.snapshots \in Seq(Nat \ {0}) /\ s.overlays \in Seq(Nat)
<1>1. s.getter \in BOOLEAN
  BY Zenon DEF Trials
<1> QED
  BY <1>1, SMT DEF Trials

LEMMA Same ==
  ASSUME NEW s \in Trials, NEW x
  PROVE  [s EXCEPT !.snapshots = x] = [s EXCEPT !.snapshots = x, !.overlays = s.overlays]
  BY Zenon DEF Trials

LEMMA FrameParts ==
  ASSUME NEW f, NEW shown \in BOOLEAN, NEW state, NEW drawn,
         f = [state |-> state, drawn |-> IF shown THEN drawn ELSE NoOverlay]
  PROVE  /\ f.state = state
         /\ shown => f.drawn = drawn
         /\ ~shown => f.drawn = NoOverlay
  OBVIOUS

LEMMA SnInit_Holds == SnInit => SnInv
<1> SUFFICES ASSUME SnInit PROVE SnInv
  OBVIOUS
<1>1. snSession = [at |-> "absent", getter |-> FALSE, snapshots |-> <<>>, overlays |-> <<>>]
      /\ snTime = 1 /\ snTorn = FALSE /\ snVideo.frames = <<>>
  BY DEF SnInit
<1>2. <<>> \in Seq(Nat) /\ <<>> \in Seq(Nat \ {0})
  OBVIOUS
<1>3. snSession \in Trials /\ snSession.snapshots = <<>> /\ snSession.overlays = <<>>
  BY <1>1, <1>2 DEF Trials
<1> QED
  BY <1>1, <1>3, SMT DEF SnInv, SnTypes, CacheAligned, FramesAligned

LEMMA OpenSession_Holds == SnInv /\ OpenSession => SnInv'
<1> SUFFICES ASSUME SnInv, OpenSession PROVE SnInv'
  OBVIOUS
<1>1. PICK getter \in BOOLEAN, at \in {"open", "refused"} :
        snSession' = [snSession EXCEPT !.getter = getter, !.at = at]
  BY Zenon DEF OpenSession
<1>2. /\ snSession.at = "absent" /\ snTime' = snTime /\ snTorn' = snTorn /\ snVideo' = snVideo
      /\ snSession.snapshots = <<>> /\ snVideo.frames = <<>>
  BY DEF OpenSession, SnInv, SnTypes
<1>3. snSession \in Trials
  BY DEF SnInv, SnTypes
<1>4. /\ snSession' \in Trials /\ snSession'.at = at /\ snSession'.getter = getter
      /\ snSession'.snapshots = snSession.snapshots /\ snSession'.overlays = snSession.overlays
  <2>1. snSession' \in Trials
    BY <1>1, <1>3, Zenon DEF Trials
  <2>2. /\ snSession'.at = at /\ snSession'.getter = getter
        /\ snSession'.snapshots = snSession.snapshots /\ snSession'.overlays = snSession.overlays
    BY <1>1, <1>3, SMT DEF Trials
  <2> QED
    BY <2>1, <2>2
<1>5. SnTypes'
  BY <1>2, <1>4 DEF SnInv, SnTypes
<1>6. CacheAligned'
  BY <1>2, <1>4, SMT DEF SnInv, CacheAligned
<1>7. FramesAligned'
  BY <1>2, SMT DEF FramesAligned
<1> QED
  BY <1>5, <1>6, <1>7 DEF SnInv

LEMMA Lengthened == SnInv => Append(snSession.snapshots, snTime) \in Seq(Nat \ {0})
<1> SUFFICES ASSUME SnInv PROVE Append(snSession.snapshots, snTime) \in Seq(Nat \ {0})
  OBVIOUS
<1>1. snSession.snapshots \in Seq(Nat \ {0}) /\ snTime \in Nat \ {0}
  BY TrialParts, Zenon DEF SnInv, SnTypes
<1> QED
  BY <1>1, SMT

LEMMA Snapshot_Holds == SnInv /\ Snapshot => SnInv'
<1> SUFFICES ASSUME SnInv, Snapshot PROVE SnInv'
  OBVIOUS
<1> DEFINE drawn == IF snSession.getter THEN snTime ELSE NoOverlay
           snapshots == Append(snSession.snapshots, snTime)
<1>1. snTime' = snTime /\ snVideo' = snVideo /\ snSession.at = "open"
  BY DEF Snapshot
<1>2. PICK overlays \in Seq(Nat) :
        /\ snSession' = [snSession EXCEPT !.snapshots = snapshots, !.overlays = overlays]
        /\ \/ overlays = Append(snSession.overlays, drawn) /\ snTorn' = snTorn
           \/ snTorn' = TRUE
  <2>1. drawn \in Nat
    BY SMT DEF SnInv, SnTypes, NoOverlay
  <2>2. CASE snSession' = Cached(snSession, drawn) /\ UNCHANGED snTorn
    <3>1. Append(snSession.overlays, drawn) \in Seq(Nat)
      <4>1. snSession.overlays \in Seq(Nat)
        BY TrialParts, Zenon DEF SnInv, SnTypes
      <4> QED
        BY <2>1, <4>1, SMT
    <3> QED
      BY <2>2, <3>1, Zenon DEF Cached
  <2>3. CASE snSession' = [snSession EXCEPT !.snapshots = Append(@, snTime)] /\ snTorn' = TRUE
    <3>1. snSession \in Trials /\ snSession.overlays \in Seq(Nat)
      BY TrialParts, Zenon DEF SnInv, SnTypes
    <3>2. snSession' = [snSession EXCEPT !.snapshots = snapshots]
      BY <2>3
    <3>3. snSession' = [snSession EXCEPT !.snapshots = snapshots, !.overlays = snSession.overlays]
      BY <3>1, <3>2, Same, Zenon
    <3> QED
      BY <2>3, <3>1, <3>3, Zenon
  <2> QED
    BY <2>2, <2>3, Zenon DEF Snapshot
<1>3. snSession \in Trials /\ snapshots \in Seq(Nat \ {0})
  BY Lengthened DEF SnInv, SnTypes
<1>4. /\ snSession' \in Trials /\ snSession'.at = snSession.at /\ snSession'.getter = snSession.getter
      /\ snSession'.snapshots = snapshots /\ snSession'.overlays = overlays
  <2>1. snSession' \in Trials
    BY <1>2, <1>3, Zenon DEF Trials
  <2>2. /\ snSession'.at = snSession.at /\ snSession'.getter = snSession.getter
        /\ snSession'.snapshots = snapshots /\ snSession'.overlays = overlays
    BY <1>2, <1>3, SMT DEF Trials
  <2> QED
    BY <2>1, <2>2
<1>6. SnTypes'
  BY <1>1, <1>4 DEF SnInv, SnTypes
<1>7. CacheAligned'
  <2> SUFFICES ASSUME snTorn' # TRUE, snTorn' = snTorn, overlays = Append(snSession.overlays, drawn), ~snTorn
               PROVE  /\ DOMAIN overlays = DOMAIN snapshots
                      /\ \A i \in DOMAIN snapshots :
                            overlays[i] = IF snSession.getter THEN snapshots[i] ELSE NoOverlay
    BY <1>2, <1>4, Zenon DEF CacheAligned
  <2>1. /\ DOMAIN snSession.overlays = DOMAIN snSession.snapshots
        /\ \A i \in DOMAIN snSession.snapshots :
              snSession.overlays[i] = IF snSession.getter THEN snSession.snapshots[i] ELSE NoOverlay
    BY DEF SnInv, CacheAligned
  <2>2. snSession.overlays \in Seq(Nat) /\ snSession.snapshots \in Seq(Nat \ {0})
    BY TrialParts, Zenon DEF SnInv, SnTypes
  <2>3. Len(snSession.overlays) = Len(snSession.snapshots)
    BY <2>1, <2>2, LenProperties
  <2>4. DOMAIN overlays = 1 .. Len(snSession.snapshots) + 1 /\ DOMAIN snapshots = 1 .. Len(snSession.snapshots) + 1
    BY <2>2, <2>3, SMT
  <2>5. ASSUME NEW i \in DOMAIN snapshots
        PROVE  overlays[i] = IF snSession.getter THEN snapshots[i] ELSE NoOverlay
    <3>1. CASE i = Len(snSession.snapshots) + 1
      <4>1. overlays[i] = drawn /\ snapshots[i] = snTime
        BY <2>2, <2>3, <3>1, SMT
      <4> QED
        BY <4>1
    <3>2. CASE i \in 1 .. Len(snSession.snapshots)
      <4>1. overlays[i] = snSession.overlays[i] /\ snapshots[i] = snSession.snapshots[i]
        BY <2>2, <2>3, <3>2, SMT
      <4>2. i \in DOMAIN snSession.snapshots
        BY <2>2, <3>2
      <4> HIDE DEF snapshots, drawn
      <4> QED
        BY <2>1, <4>1, <4>2, Zenon
    <3> QED
      BY <2>4, <3>1, <3>2, SMT
  <2> QED
    BY <2>4, <2>5
<1>8. FramesAligned'
  BY <1>1, <1>4 DEF SnInv, FramesAligned
<1> QED
  BY <1>6, <1>7, <1>8 DEF SnInv

LEMMA Clear_Holds == SnInv /\ Clear => SnInv'
<1> SUFFICES ASSUME SnInv, Clear PROVE SnInv'
  OBVIOUS
<1>1. snTime' = snTime /\ snVideo' = snVideo /\ snSession.at = "open" /\ snTorn' = FALSE
      /\ snSession' = [snSession EXCEPT !.snapshots = <<>>, !.overlays = <<>>]
  BY DEF Clear, Cleared
<1>4. <<>> \in Seq(Nat) /\ <<>> \in Seq(Nat \ {0})
  OBVIOUS
<1>2. snSession \in Trials
  BY DEF SnInv, SnTypes
<1>3. /\ snSession' \in Trials /\ snSession'.at = snSession.at /\ snSession'.getter = snSession.getter
      /\ snSession'.snapshots = <<>> /\ snSession'.overlays = <<>>
  <2>1. snSession' \in Trials
    BY <1>1, <1>2, <1>4, Zenon DEF Trials
  <2>2. /\ snSession'.at = snSession.at /\ snSession'.getter = snSession.getter
        /\ snSession'.snapshots = <<>> /\ snSession'.overlays = <<>>
    BY <1>1, <1>2, <1>4, SMT DEF Trials
  <2> QED
    BY <2>1, <2>2
<1>5. SnTypes'
  BY <1>1, <1>3 DEF SnInv, SnTypes
<1>6. CacheAligned' /\ FramesAligned'
  BY <1>1, <1>3 DEF SnInv, CacheAligned, FramesAligned
<1> QED
  BY <1>5, <1>6 DEF SnInv

\* The overlays of a frame are those cached for it, or what the getter given at the end
\* draws of the end.
LEMMA Render_Holds == SnInv /\ Render => SnInv'
<1> SUFFICES ASSUME SnInv, Render PROVE SnInv'
  OBVIOUS
<1>1. PICK own \in BOOLEAN :
        snVideo' = [frames |-> [i \in DOMAIN snSession.snapshots |-> Frame(Drawn(own), i)],
                    own |-> own, at |-> snTime, torn |-> snTorn]
  BY DEF Render
<1>2. /\ snSession.at = "open" /\ snSession' = snSession /\ snTime' = snTime /\ snTorn' = snTorn
      /\ snSession.snapshots # <<>>
  BY DEF Render
<1>3. SnTypes' /\ CacheAligned'
  BY <1>2 DEF SnInv, SnTypes, CacheAligned
<1>4. ASSUME ~snTorn, NEW i \in DOMAIN snSession.snapshots
      PROVE  Frame(Drawn(own), i).drawn =
                IF own THEN snTime ELSE IF snSession.getter THEN Frame(Drawn(own), i).state ELSE NoOverlay
  <2> DEFINE drawn == Drawn(own)
  <2>1. Frame(drawn, i) = [state |-> snSession.snapshots[i],
                           drawn |-> IF Visible(drawn) /\ i \in DOMAIN drawn THEN drawn[i] ELSE NoOverlay]
    BY Zenon DEF Frame
  <2>5. (Visible(drawn) /\ i \in DOMAIN drawn) \in BOOLEAN
    OBVIOUS
  <2>2. snSession.snapshots[i] \in Nat \ {0}
    <3>1. snSession.snapshots \in Seq(Nat \ {0})
      BY TrialParts, Zenon DEF SnInv, SnTypes
    <3> QED
      BY <1>4, <3>1, SMT
  <2>3. CASE own
    <3>1. i \in DOMAIN drawn /\ drawn[i] = snTime
      BY <2>3, <1>4 DEF Drawn
    <3> HIDE DEF drawn
    <3>2. Visible(drawn)
      <4>1. snTime # 0
        BY DEF SnInv, SnTypes
      <4> QED
        BY <3>1, <4>1, Zenon DEF Visible, NoOverlay
    <3>3. Frame(drawn, i).drawn = drawn[i]
      BY <2>1, <2>5, <3>1, <3>2, FrameParts, Zenon
    <3> QED
      BY <2>3, <3>1, <3>3, Zenon DEF drawn
  <2>4. CASE ~own
    <3>1. drawn = snSession.overlays
      BY <2>4 DEF Drawn
    <3>2. /\ DOMAIN drawn = DOMAIN snSession.snapshots
          /\ \A j \in DOMAIN drawn : drawn[j] = IF snSession.getter THEN snSession.snapshots[j] ELSE NoOverlay
      BY <3>1, <1>4 DEF SnInv, CacheAligned
    <3> HIDE DEF drawn
    <3>3. CASE snSession.getter
      <4>1. drawn[i] = snSession.snapshots[i] /\ Visible(drawn)
        BY <3>2, <3>3, <2>2, <1>4, SMT DEF Visible, NoOverlay
      <4>2. Visible(drawn) /\ i \in DOMAIN drawn
        BY <1>4, <3>2, <4>1, Zenon
      <4>3. Frame(drawn, i).drawn = drawn[i] /\ Frame(drawn, i).state = snSession.snapshots[i]
        BY <2>1, <2>5, <4>2, FrameParts, Zenon
      <4> QED
        BY <2>4, <3>3, <4>1, <4>3, Zenon DEF drawn
    <3>4. CASE ~snSession.getter
      <4>1. ~Visible(drawn)
        BY <3>2, <3>4, Zenon DEF Visible
      <4>2. Frame(drawn, i).drawn = NoOverlay
        BY <2>1, <2>5, <4>1, FrameParts, Zenon
      <4> QED
        BY <2>4, <3>4, <4>2, Zenon DEF drawn
    <3> QED
      BY <3>3, <3>4
  <2> QED
    BY <2>3, <2>4
<1>5. FramesAligned'
  BY <1>1, <1>2, <1>4 DEF FramesAligned
<1> QED
  BY <1>3, <1>5 DEF SnInv

LEMMA SnInvariant == SnSpec => []SnInv
<1>1. SnInv /\ [SnNext]_snvars => SnInv'
  <2> SUFFICES ASSUME SnInv, [SnNext]_snvars PROVE SnInv'
    OBVIOUS
  <2>1. CASE UNCHANGED snvars
    BY <2>1, Zenon DEF snvars, SnInv, SnTypes, CacheAligned, FramesAligned
  <2>2. CASE StepTrial
    BY <2>2, SMT DEF StepTrial, SnInv, SnTypes, CacheAligned, FramesAligned
  <2> QED
    BY <2>1, <2>2, OpenSession_Holds, Snapshot_Holds, Clear_Holds, Render_Holds DEF SnNext
<1> QED
  BY <1>1, SnInit_Holds, PTL DEF SnSpec

\* Every frame of a video of playback_session.py shows one captured state under the
\* overlays its getter drew at that state, or at the end for a getter given then, in every
\* trial in which the getter did not raise: for any capabilities and length.
THEOREM FramesStayAligned == SnSpec => []FramesAligned
<1>1. SnInv => FramesAligned
  BY DEF SnInv
<1> QED
  BY <1>1, SnInvariant, PTL

------------------------------------------------------------------------------
(* The in-hand task and its grasps                                         *)

AlSamples == [pose : AlPoses, life : Nat, step : Nat]
AlRates == {<<>>} \cup (AlSamples \X AlSamples)
RowsOnFile == [pose : AlPoses, run : Nat]
SavedRows == [of : AlSamples, row : AlEnv, lasted : Nat, valid : BOOLEAN]

\* The run and what it keeps on disk.
RunTypes ==
    /\ alPc \in {"idle", "built", "run", "ending", "complete", "failed", "killed", "closed"}
    /\ alConfig \in AlConfigs /\ alRuns \in Nat
    /\ savedStates \in Seq(SavedRows) /\ cacheSaved \in BOOLEAN /\ targetNotified \in BOOLEAN
    /\ graspCache \in Seq(RowsOnFile)
    /\ graspFile = [kind |-> graspFile.kind, rows |-> graspFile.rows] /\ graspFile.rows \in Seq(RowsOnFile)

\* The hand and what its terms hold of it.
HandTypes ==
    /\ alCounter \in Nat /\ alLast \in Nat
    /\ alWorld \in [AlEnv -> AlSamples] /\ alSeen \in [AlEnv -> AlSamples]
    /\ alPrevious \in [AlEnv -> AlSamples] /\ alRate \in [AlEnv -> AlRates]
    /\ alTarget \in [AlEnv -> Int] /\ alAge \in [AlEnv -> Nat]
    /\ acted \in [AlEnv -> Seq(Int)] /\ holding \in [AlEnv -> BOOLEAN]
    /\ resetTerminated \in [AlEnv -> BOOLEAN] /\ resetTimeOuts \in [AlEnv -> BOOLEAN]

Live == alPc \in {"run", "ending"}
Lasted(e) == Len(acted[e]) - 1

\* A hand that has not started has taken no step.
NotStarted ==
    alPc \in {"idle", "built"} =>
        /\ \A e \in AlEnv : alWorld[e].life = 0 /\ ~resetTerminated[e] /\ ~resetTimeOuts[e]
        /\ savedStates = <<>> /\ ~cacheSaved /\ ~targetNotified
        /\ alCounter = 0

\* The snapshot is the simulator's.
SnapshotCurrent ==
    Live => /\ alSeen = alWorld /\ alPrevious = alWorld /\ alLast = alCounter
            /\ \A e \in AlEnv : alWorld[e].step = alCounter

OfOneStep(pair) == pair # <<>> => pair[1].life = pair[2].life /\ pair[1].step = pair[2].step - 1
RateOfOneLife(e) ==
    /\ OfOneStep(alRate[e]) /\ OfOneStep(alReward[e].of)
    /\ Live /\ alRate[e] # <<>> => alRate[e][2] = alWorld[e]
RatesOfOneLife == \A e \in AlEnv : RateOfOneLife(e)

\* f is where the targets of a life went, action by action.
Path(f, moves, c) ==
    f = [n \in 0 .. Len(moves) - 1 |->
            IF n = 0 THEN moves[1]
            ELSE Clip(f[n - 1] + c.scale * Clip(moves[n + 1], c.rawClip), c.range)]
PathLeadsTo(moves, x, c) ==
    \E f \in [0 .. Len(moves) - 1 -> Int] : Path(f, moves, c) /\ x = f[Len(moves) - 1]
TargetFollows(e) ==
    /\ Len(acted[e]) >= 1
    /\ PathLeadsTo(acted[e], alTarget[e], alConfig)
    /\ alFrame[e].target = alTarget[e] /\ alFrame[e].of = alWorld[e]
    /\ alFrame[e].noisy = (alConfig.jointNoise > 0 /\ Len(acted[e]) > 1)
TargetsFollow == Live => \A e \in AlEnv : TargetFollows(e)

\* An episode is as old as the steps of its life, or older by the age drawn for it.
AgeCounts(e) ==
    /\ alWorld[e].life >= 1
    /\ alAge[e] <= alConfig.maxLength
    /\ \/ alAge[e] = Lasted(e)
       \/ alConfig.randomAge /\ alWorld[e].life = 1 /\ Lasted(e) <= alAge[e]
    /\ resetTimeOuts[e] => alAge[e] = alConfig.maxLength \/ Lasted(e) = 0
    /\ e \notin AlDone \/ (alPc = "run" /\ alConfig.autoreset) => alAge[e] < alConfig.maxLength
AgesCount == Live => \A e \in AlEnv : AgeCounts(e)

\* A row that does not terminate has held its grasp.
Holds(e) == holding[e] \/ (resetTerminated[e] /\ ~(alPc = "run" /\ alConfig.autoreset))
HeldOrEnded == Live /\ alConfig.collects /\ alConfig.enabled => \A e \in AlEnv : Holds(e)

EndingHasRows == alPc = "ending" => alConfig.autoreset

\* What was recorded.
HeldGrasp(g) ==
    /\ g.valid
    /\ \/ g.lasted \in {0, alConfig.maxLength}
       \/ alConfig.randomAge /\ g.of.life = 1 /\ g.lasted < alConfig.maxLength
SavedHeld == alConfig.enabled => \A i \in DOMAIN savedStates : HeldGrasp(savedStates[i])
Apart(g, h) == g.row = h.row => g.of.life # h.of.life
SavedOnce ==
    /\ \A i, k \in DOMAIN savedStates : i # k => Apart(savedStates[i], savedStates[k])
    /\ Live => \A i \in DOMAIN savedStates : savedStates[i].of.life < alWorld[savedStates[i].row].life

OnlyCollectorsRecord ==
    /\ alPc # "idle" => (alConfig.collects => alConfig.collectionTarget > 0)
    /\ ~alConfig.collects => savedStates = <<>> /\ ~cacheSaved

CacheKept ==
    /\ cacheSaved => /\ alPc \in {"complete", "closed"}
                     /\ graspFile = [kind |-> "whole", rows |-> FirstRows(savedStates, alConfig.collectionTarget)]
    /\ targetNotified => cacheSaved /\ Len(savedStates) >= alConfig.collectionTarget
    /\ alPc = "complete" => targetNotified

\* The rows on file are of runs that were, those of the cache of runs before.
CacheIsOlder ==
    /\ \A i \in DOMAIN graspFile.rows : graspFile.rows[i].run <= alRuns
    /\ \A i \in DOMAIN graspCache : graspCache[i].run < alRuns
FromCache(e) == \E i \in DOMAIN graspCache : acted[e][1] = Clip(graspCache[i].pose.joint, alConfig.range)
DrawnFromCache == Live /\ alConfig.cached => \A e \in AlEnv : FromCache(e)

AlInv ==
    /\ RunTypes /\ HandTypes /\ NotStarted /\ SnapshotCurrent /\ RatesOfOneLife /\ TargetsFollow
    /\ AgesCount /\ HeldOrEnded /\ EndingHasRows /\ SavedHeld /\ SavedOnce /\ OnlyCollectorsRecord
    /\ CacheKept /\ CacheIsOlder /\ DrawnFromCache

------------------------------------------------------------------------------
(* What the actions do to a row of the batch.                                 *)

\* A configuration that is tried has the fields of one.
LEMMA AlTypes ==
  ASSUME NEW c \in AlConfigs
  PROVE  /\ c.range \in Int \X Int /\ c.rawClip \in Int \X Int /\ c.scale \in Int
         /\ c.maxLength \in Nat /\ c.maxLength >= 1 /\ c.collectionTarget \in Int /\ c.jointNoise \in Int
         /\ c.resetNoise \in Int /\ c.ballOffset \in Int /\ c.actions \subseteq Int
         /\ c.collects \in BOOLEAN /\ c.enabled \in BOOLEAN /\ c.cached \in BOOLEAN
         /\ c.autoreset \in BOOLEAN /\ c.randomAge \in BOOLEAN
<1>1. c \in AlConfigurations
  BY AlAssumption
<1> QED BY <1>1 DEF AlConfigurations

LEMMA ClipType ==
  ASSUME NEW x \in Int, NEW range \in Int \X Int
  PROVE  Clip(x, range) \in Int
  BY DEF Clip

\* Where a reset may place hand and ball.
LEMMA PlacedTypes ==
  ASSUME RunTypes, NEW pose \in PlacedPoses
  PROVE  /\ pose \in AlPoses
         /\ alConfig.cached => \E i \in DOMAIN graspCache :
                pose.joint = Clip(graspCache[i].pose.joint, alConfig.range)
<1>1. alConfig \in AlConfigs /\ graspCache \in Seq(RowsOnFile)
  BY DEF RunTypes
<1>2. AlHome \in AlPoses
  BY AlAssumption
<1>3. alConfig.range \in Int \X Int /\ alConfig.cached \in BOOLEAN /\ alConfig.ballOffset \in Int
      /\ alConfig.resetNoise \in Int
  BY <1>1, AlTypes
<1>4. CASE alConfig.cached
  <2>1. PICK row \in ToSet(graspCache) :
          pose = [AlHome EXCEPT !.joint = Clip(row.pose.joint, alConfig.range),
                                !.ball = row.pose.ball, !.turn = row.pose.turn]
    BY <1>4, Zenon DEF PlacedPoses
  <2>2. PICK i \in DOMAIN graspCache : row = graspCache[i]
    BY <2>1 DEF ToSet
  <2>3. row \in RowsOnFile
    BY <1>1, <2>2
  <2>4. row.pose \in AlPoses
    BY <2>3 DEF RowsOnFile
  <2>5. Clip(row.pose.joint, alConfig.range) \in Int
    BY <1>3, <2>4, ClipType DEF AlPoses
  <2>6. pose \in AlPoses /\ pose.joint = Clip(row.pose.joint, alConfig.range)
    BY <1>2, <2>1, <2>4, <2>5 DEF AlPoses
  <2> QED BY <2>2, <2>6
<1>5. CASE ~alConfig.cached
  <2>1. PICK n \in -alConfig.resetNoise .. alConfig.resetNoise :
          pose = [AlHome EXCEPT !.joint = Clip(AlHome.joint + n, alConfig.range),
                                !.ball = AlHome.ball + alConfig.ballOffset]
    BY <1>5, Zenon DEF PlacedPoses
  <2>2. AlHome.joint + n \in Int
    BY <1>2 DEF AlPoses
  <2>3. Clip(AlHome.joint + n, alConfig.range) \in Int
    BY <1>3, <2>2, ClipType
  <2>4. AlHome.ball + alConfig.ballOffset \in Int
    BY <1>2, <1>3 DEF AlPoses
  <2>5. pose \in AlPoses
    BY <1>2, <2>1, <2>3, <2>4 DEF AlPoses
  <2> QED BY <1>5, <2>5
<1> QED BY <1>4, <1>5

\* The row has one value of each, and all rows do.
Rowwise == \A f \in {alWorld', alSeen', alPrevious', alRate', alTarget', acted', holding'} :
    f = [e \in AlEnv |-> f[e]]

\* The row starts a life at the pose.
Starts(e, pose) ==
    /\ alWorld'[e] = AlSample(pose, alWorld[e].life + 1, alCounter')
    /\ alSeen'[e] = alWorld'[e] /\ alPrevious'[e] = alWorld'[e] /\ alRate'[e] = <<>>
    /\ alTarget'[e] = pose.joint /\ acted'[e] = <<pose.joint>> /\ holding'[e] = TRUE
    /\ alFrame'[e] = [of |-> alWorld'[e], noisy |-> FALSE, target |-> pose.joint]

\* The row goes on as it was.
Stays(e) ==
    /\ alWorld'[e] = alWorld[e] /\ alSeen'[e] = alSeen[e] /\ alPrevious'[e] = alPrevious[e]
    /\ alRate'[e] = alRate[e] /\ alTarget'[e] = alTarget[e] /\ acted'[e] = acted[e]
    /\ holding'[e] = holding[e] /\ alFrame'[e] = alFrame[e]

LEMMA Rebuilt ==
  ASSUME NEW rows \in SUBSET AlEnv, RebuildRows(rows)
  PROVE  /\ alLast' = alCounter' /\ Rowwise
         /\ \E pose \in PlacedPoses :
               (\A e \in rows : Starts(e, pose)) /\ (\A e \in AlEnv \ rows : Stays(e))
<1>1. PICK pose \in PlacedPoses :
      /\ alWorld' = AlOver(alWorld, rows, [e \in AlEnv |-> AlSample(pose, alWorld[e].life + 1, alCounter')])
      /\ ResetRotation(rows)
      /\ ResetHand(rows)
      /\ RotationFrame(rows, rows)
      /\ acted' = AlOver(acted, rows, AlAll(<<pose.joint>>))
      /\ holding' = AlOver(holding, rows, AlAll(TRUE))
  BY DEF RebuildRows
<1>2. alLast' = alCounter' /\ Rowwise
  BY <1>1 DEF Rowwise, ResetRotation, ResetHand, AlOver, PreviousOfReset
<1>3. ASSUME NEW e \in rows PROVE Starts(e, pose)
  <2>1. e \in AlEnv
    OBVIOUS
  <2>2. alWorld'[e] = AlSample(pose, alWorld[e].life + 1, alCounter')
    BY <1>1, <2>1 DEF AlOver
  <2>3. alWorld'[e].pose = pose
    BY <2>2 DEF AlSample
  <2>4. alSeen'[e] = alWorld'[e] /\ alPrevious'[e] = alWorld'[e] /\ alRate'[e] = <<>>
    BY <1>1, <2>1 DEF AlOver, AlAll, ResetRotation, PreviousOfReset
  <2>5. alTarget'[e] = pose.joint
    BY <1>1, <2>1, <2>3 DEF AlOver, ResetHand
  <2>6. acted'[e] = <<pose.joint>> /\ holding'[e] = TRUE
    BY <1>1, <2>1 DEF AlOver, AlAll
  <2>7. alFrame'[e] = [of |-> alSeen'[e], noisy |-> alConfig.jointNoise > 0 /\ e \notin rows, target |-> alTarget'[e]]
    BY <1>1, <2>1, Zenon DEF AlOver, RotationFrame
  <2>8. (alConfig.jointNoise > 0 /\ e \notin rows) = FALSE
    OBVIOUS
  <2> QED BY <2>2, <2>4, <2>5, <2>6, <2>7, <2>8 DEF Starts
<1>4. ASSUME NEW e \in AlEnv \ rows PROVE Stays(e)
  BY <1>1 DEF Stays, AlOver, AlAll, ResetRotation, PreviousOfReset, ResetHand, RotationFrame
<1> QED BY <1>1, <1>2, <1>3, <1>4

\* A control step of the row.
Moves(e, a) ==
    /\ \E q \in AlPoses : alWorld'[e] = AlSample(q, alWorld[e].life, alCounter + 1)
    /\ alSeen'[e] = alWorld'[e] /\ alPrevious'[e] = alWorld'[e]
    /\ alRate'[e] = <<alWorld[e], alWorld'[e]>> /\ alReward'[e].of = alRate'[e]
    /\ alTarget'[e] = Clip(alTarget[e] + alConfig.scale * Clip(a, alConfig.rawClip), alConfig.range)
    /\ acted'[e] = Append(acted[e], a) /\ alAge'[e] = alAge[e] + 1
    /\ alFrame'[e] = [of |-> alWorld'[e], noisy |-> alConfig.jointNoise > 0, target |-> alTarget'[e]]

\* How the row is judged at the end of it.
Judged(e) ==
    /\ resetTerminated'[e] \in BOOLEAN /\ holding'[e] \in BOOLEAN
    /\ resetTimeOuts'[e] = (alAge'[e] >= alConfig.maxLength)
    /\ alConfig.collects /\ alConfig.enabled /\ holding[e] => holding'[e] \/ resetTerminated'[e]

Flags == \A f \in {alAge', resetTerminated', resetTimeOuts'} : f = [e \in AlEnv |-> f[e]]

LEMMA GraspStepped ==
  ASSUME RunTypes, HandTypes, SnapshotCurrent,
         NEW a \in Int, NEW poses \in AlPoseBatches, AlStep(a, poses)
  PROVE  /\ alPc = "run" /\ (~alConfig.autoreset => AlDone = {})
         /\ alCounter' = alCounter + 1 /\ alLast' = alCounter' /\ Rowwise /\ Flags
         /\ \A e \in AlEnv : Moves(e, a) /\ Judged(e)
         /\ alPc' = IF alConfig.autoreset /\ (\E e \in AlEnv : resetTerminated'[e] \/ resetTimeOuts'[e])
                    THEN "ending" ELSE "run"
         /\ UNCHANGED <<alConfig, alRuns, savedStates, cacheSaved, targetNotified, graspFile, graspCache>>
<1>1. alPc = "run" /\ alCounter' = alCounter + 1 /\ (~alConfig.autoreset => AlDone = {})
  BY DEF AlStep
<1>2. alLast = alCounter /\ alSeen = alWorld /\ alPrevious = alWorld
  BY <1>1 DEF SnapshotCurrent, Live
<1>3. alCounter \in Nat /\ ~StepMissed(alCounter') /\ alCounter' # alLast
  BY <1>1, <1>2 DEF HandTypes, StepMissed
<1>4. /\ TakeRotation /\ ComputeTerminations /\ RotationFrame(AlEnv, {})
      /\ alReward' = [e \in AlEnv |-> RewardOf(e)]
      /\ holding' = [e \in AlEnv |-> holding[e] /\ (alConfig.collects => quality'[e].valid)]
      /\ alPc' = IF alConfig.autoreset /\ (\E e \in AlEnv : resetTerminated'[e] \/ resetTimeOuts'[e])
                 THEN "ending" ELSE "run"
  BY <1>3, Zenon DEF AlStep
<1>5. /\ ProcessHand(a)
      /\ alWorld' = [e \in AlEnv |->
            AlSample([poses[e] EXCEPT !.joint = poses[e].joint + alTarget'[e]], alWorld[e].life, alCounter + 1)]
      /\ alAge' = [e \in AlEnv |-> alAge[e] + 1]
      /\ acted' = [e \in AlEnv |-> Append(acted[e], a)]
      /\ UNCHANGED <<alConfig, alRuns, savedStates, cacheSaved, targetNotified, graspFile, graspCache>>
  BY DEF AlStep, alrecorder
<1>6. /\ alRate' = [e \in AlEnv |-> <<alPrevious[e], alWorld'[e]>>]
      /\ alSeen' = alWorld' /\ alPrevious' = alWorld' /\ alLast' = alCounter'
  BY <1>3, <1>4 DEF TakeRotation
<1>7. /\ resetTerminated' = [e \in AlEnv |->
            alDropped'[e] \/ (alConfig.collects /\ alConfig.enabled /\ ~quality'[e].valid)]
      /\ resetTimeOuts' = [e \in AlEnv |-> alAge'[e] >= alConfig.maxLength]
  BY <1>4 DEF ComputeTerminations
<1>8. alTarget' = [e \in AlEnv |->
          Clip(alTarget[e] + alConfig.scale * Clip(a, alConfig.rawClip), alConfig.range)]
  BY <1>5 DEF ProcessHand
<1>9. Rowwise /\ Flags
  BY <1>4, <1>5, <1>6, <1>7, <1>8 DEF Rowwise, Flags
<1>10. ASSUME NEW e \in AlEnv PROVE Moves(e, a)
  <2>1. alConfig \in AlConfigs /\ alTarget[e] \in Int
    BY DEF RunTypes, HandTypes
  <2>2. alConfig.scale \in Int /\ alConfig.rawClip \in Int \X Int /\ alConfig.range \in Int \X Int
    BY <2>1, AlTypes
  <2>3. Clip(a, alConfig.rawClip) \in Int
    BY <2>2, ClipType
  <2>4. alTarget[e] + alConfig.scale * Clip(a, alConfig.rawClip) \in Int
    BY <2>1, <2>2, <2>3
  <2>5. alTarget'[e] \in Int
    BY <1>8, <2>2, <2>4, ClipType
  <2>6. poses[e] \in AlPoses
    BY AlAssumption
  <2>7. PICK q : q = [poses[e] EXCEPT !.joint = poses[e].joint + alTarget'[e]]
    OBVIOUS
  <2>8. poses[e].joint + alTarget'[e] \in Int
    BY <2>5, <2>6 DEF AlPoses
  <2>9. q \in AlPoses
    BY <2>6, <2>7, <2>8 DEF AlPoses
  <2>10. alWorld'[e] = AlSample(q, alWorld[e].life, alCounter + 1)
    BY <1>5, <2>7
  <2>11. alFrame'[e] = [of |-> alSeen'[e], noisy |-> alConfig.jointNoise > 0 /\ e \notin {}, target |-> alTarget'[e]]
    BY <1>4, Zenon DEF RotationFrame, AlOver
  <2>12. (alConfig.jointNoise > 0 /\ e \notin {}) = (alConfig.jointNoise > 0)
    OBVIOUS
  <2>13. alFrame'[e] = [of |-> alWorld'[e], noisy |-> alConfig.jointNoise > 0, target |-> alTarget'[e]]
    BY <1>6, <2>11, <2>12
  <2>14. alReward'[e].of = alRate'[e]
    BY <1>4 DEF RewardOf
  <2>15. alRate'[e] = <<alWorld[e], alWorld'[e]>> /\ alSeen'[e] = alWorld'[e] /\ alPrevious'[e] = alWorld'[e]
    BY <1>2, <1>6
  <2>16. acted'[e] = Append(acted[e], a) /\ alAge'[e] = alAge[e] + 1
    BY <1>5
  <2>17. alTarget'[e] = Clip(alTarget[e] + alConfig.scale * Clip(a, alConfig.rawClip), alConfig.range)
    BY <1>8
  <2> QED BY <2>9, <2>10, <2>13, <2>14, <2>15, <2>16, <2>17 DEF Moves
<1>11. ASSUME NEW e \in AlEnv PROVE Judged(e)
  <2>1. holding'[e] = (holding[e] /\ (alConfig.collects => quality'[e].valid))
    BY <1>4, Zenon
  <2>2. resetTerminated'[e] = (alDropped'[e] \/ (alConfig.collects /\ alConfig.enabled /\ ~quality'[e].valid))
    BY <1>7, Zenon
  <2>3. resetTimeOuts'[e] = (alAge'[e] >= alConfig.maxLength)
    BY <1>7, Zenon
  <2>4. resetTerminated'[e] \in BOOLEAN /\ holding'[e] \in BOOLEAN
    BY <2>1, <2>2, Zenon
  <2>5. ASSUME alConfig.collects, alConfig.enabled, holding[e] PROVE holding'[e] \/ resetTerminated'[e]
    BY <2>1, <2>2, <2>5, Zenon
  <2> QED BY <2>3, <2>4, <2>5, Zenon DEF Judged
<1> QED BY <1>1, <1>4, <1>5, <1>6, <1>9, <1>10, <1>11, Zenon

------------------------------------------------------------------------------
(* What the recorder does before the rows start anew.                         *)

LEMMA OrderOfSet ==
  ASSUME NEW S, IsFiniteSet(S)
  PROVE  /\ Cardinality(S) \in Nat /\ SetToSeq(S) \in [1 .. Cardinality(S) -> S]
         /\ \A i, k \in 1 .. Cardinality(S) : i # k => SetToSeq(S)[i] # SetToSeq(S)[k]
         /\ S # {} => Cardinality(S) # 0
<1>1. Cardinality(S) \in Nat /\ ExistsBijection(1 .. Cardinality(S), S)
  BY FS_CardinalityType
<1>2. PICK f \in [1 .. Cardinality(S) -> S] : \A a, b \in 1 .. Cardinality(S) : f[a] = f[b] => a = b
  BY <1>1 DEF ExistsBijection, Bijection, Injection, IsInjective
<1>3. f \in [1 .. Cardinality(S) -> S] /\ IsInjective(f)
  BY <1>2 DEF IsInjective
<1>4. SetToSeq(S) \in [1 .. Cardinality(S) -> S] /\ IsInjective(SetToSeq(S))
  BY <1>3, Zenon DEF SetToSeq
<1>5. S # {} => Cardinality(S) # 0
  BY FS_EmptySet
<1> QED BY <1>1, <1>4, <1>5 DEF IsInjective

\* What is recorded of a row that timed out.
GraspOf(e) == [of |-> alSeen[e], row |-> e, lasted |-> Lasted(e), valid |-> holding[e]]

LEMMA GraspsOfRows ==
  ASSUME HandTypes, NEW rows \in SUBSET AlEnv, \A e \in AlEnv : Len(acted[e]) >= 1
  PROVE  /\ Grasps(rows) \in Seq(SavedRows)
         /\ \A i \in DOMAIN Grasps(rows) : \E e \in Successes(rows) : Grasps(rows)[i] = GraspOf(e)
         /\ \A i, k \in DOMAIN Grasps(rows) : i # k => Grasps(rows)[i].row # Grasps(rows)[k].row
         /\ Successes(rows) # {} => Len(Grasps(rows)) > 0
<1> DEFINE S == Successes(rows)
           n == Cardinality(S)
           order == SetToSeq(S)
<1>1. S \subseteq AlEnv /\ IsFiniteSet(S)
  BY AlAssumption, FS_Subset DEF Successes
<1>2. /\ n \in Nat /\ order \in [1 .. n -> S] /\ (S # {} => n # 0)
      /\ \A i, k \in 1 .. n : i # k => order[i] # order[k]
  BY <1>1, OrderOfSet
<1>3. Grasps(rows) = [i \in 1 .. n |-> GraspOf(order[i])]
  BY <1>2 DEF Grasps, GraspOf, Lasted
<1> HIDE DEF S, n, order
<1>4. ASSUME NEW e \in AlEnv PROVE GraspOf(e) \in SavedRows /\ GraspOf(e).row = e
  <2>1. alSeen[e] \in AlSamples /\ Lasted(e) \in Nat /\ holding[e] \in BOOLEAN
    BY DEF HandTypes, Lasted
  <2> QED BY <2>1 DEF GraspOf, SavedRows
<1>5. ASSUME NEW i \in 1 .. n PROVE order[i] \in S /\ order[i] \in AlEnv
  BY <1>1, <1>2
<1>6. Grasps(rows) \in Seq(SavedRows) /\ Len(Grasps(rows)) = n
  BY <1>2, <1>3, <1>4, <1>5
<1>7. DOMAIN Grasps(rows) = 1 .. n
  BY <1>3
<1>8. \A i \in DOMAIN Grasps(rows) : \E e \in S : Grasps(rows)[i] = GraspOf(e)
  BY <1>3, <1>5, <1>7
<1>9. ASSUME NEW i \in 1 .. n, NEW k \in 1 .. n, i # k PROVE Grasps(rows)[i].row # Grasps(rows)[k].row
  BY <1>2, <1>3, <1>4, <1>5, <1>9
<1> QED BY <1>2, <1>6, <1>7, <1>8, <1>9 DEF S

WholeFile(saved) == [kind |-> "whole", rows |-> FirstRows(saved, alConfig.collectionTarget)]
PartialFile == [kind |-> "partial", rows |-> <<>>]

\* SaveCache of what was not saved yet.
LEMMA Saving ==
  ASSUME cacheSaved = FALSE, NEW saved \in Seq(SavedRows), NEW force \in BOOLEAN, NEW save, SaveCache(saved, force, save),
         alConfig.collectionTarget \in Int
  PROVE  /\ cacheSaved' \in BOOLEAN
         /\ cacheSaved' => save = "done" /\ graspFile' = WholeFile(saved)
                           /\ (force \/ Len(saved) >= alConfig.collectionTarget)
         /\ graspFile' \in {graspFile, PartialFile, WholeFile(saved)}
         /\ save = "done" /\ ~cacheSaved' => saved = <<>> \/ Len(saved) < alConfig.collectionTarget
<1>1. Len(saved) \in Int
  OBVIOUS
<1>2. CASE ~CacheDue(saved, force)
  <2>1. cacheSaved' = cacheSaved /\ graspFile' = graspFile
    BY <1>2, Zenon DEF SaveCache
  <2>2. saved = <<>> \/ ~(Len(saved) >= alConfig.collectionTarget)
    BY <1>2 DEF CacheDue
  <2>3. saved = <<>> \/ Len(saved) < alConfig.collectionTarget
    BY <1>1, <2>2
  <2> QED BY <2>1, <2>3, Zenon
<1>3. CASE CacheDue(saved, force)
  <2>1. \/ save = "done" /\ cacheSaved' = TRUE /\ graspFile' = WholeFile(saved)
        \/ save = "failed" /\ cacheSaved' = cacheSaved /\ graspFile' = graspFile
        \/ save \in {"failed", "killed"} /\ cacheSaved' = cacheSaved /\ graspFile' = PartialFile
    BY <1>3, Zenon DEF SaveCache, WholeFile, PartialFile
  <2>2. force \/ Len(saved) >= alConfig.collectionTarget
    BY <1>3 DEF CacheDue
  <2> QED BY <2>1, <2>2
<1> QED BY <1>2, <1>3

\* record_pre_reset, of a recorder that has not stopped the collection.
LEMMA Recorded ==
  ASSUME RunTypes, HandTypes, cacheSaved = FALSE, targetNotified = FALSE, \A e \in AlEnv : Len(acted[e]) >= 1,
         NEW rows \in SUBSET AlEnv, NEW outcome \in {"done", "failed", "killed", "complete"},
         RecordPreReset(rows, outcome)
  PROVE  /\ savedStates' = savedStates \/ (alConfig.collects /\ savedStates' = savedStates \o Grasps(rows))
         /\ outcome = "complete" => /\ cacheSaved' = TRUE /\ targetNotified' = TRUE
                                    /\ Len(savedStates') >= alConfig.collectionTarget
                                    /\ graspFile' = WholeFile(savedStates')
         /\ outcome # "complete" => cacheSaved' = FALSE /\ targetNotified' = FALSE
         /\ graspFile' \in {graspFile, PartialFile, WholeFile(savedStates')}
         /\ cacheSaved' => alConfig.collects
<1>1. CASE ~alConfig.collects \/ Successes(rows) = {}
  <2>1. outcome = "done" /\ UNCHANGED <<savedStates, cacheSaved, targetNotified, graspFile>>
    BY <1>1, Zenon DEF RecordPreReset, alrecorder
  <2> QED BY <2>1
<1>2. CASE alConfig.collects /\ Successes(rows) # {}
  <2> DEFINE all == savedStates \o Grasps(rows)
  <2>1. /\ Grasps(rows) \in Seq(SavedRows) /\ Len(Grasps(rows)) > 0 /\ savedStates \in Seq(SavedRows)
        /\ alConfig \in AlConfigs
    BY <1>2, GraspsOfRows DEF RunTypes
  <2>2. all \in Seq(SavedRows) /\ all # <<>>
    BY <2>1
  <2>3. PICK save \in {"done", "failed", "killed"} :
          SaveCache(all, FALSE, save) /\ outcome = IF save = "done" /\ StopDue(all) THEN "complete" ELSE save
    BY <1>2, Zenon DEF RecordPreReset
  <2>4. savedStates' = all /\ targetNotified' = (targetNotified \/ outcome = "complete")
    BY <1>2, Zenon DEF RecordPreReset
  <2>5. alConfig.collectionTarget \in Int /\ Len(all) \in Int
    BY <2>1, <2>2, AlTypes
  <2> HIDE DEF all
  <2>6. /\ cacheSaved' \in BOOLEAN
        /\ cacheSaved' => save = "done" /\ graspFile' = WholeFile(all) /\ Len(all) >= alConfig.collectionTarget
        /\ graspFile' \in {graspFile, PartialFile, WholeFile(all)}
        /\ save = "done" /\ ~cacheSaved' => all = <<>> \/ Len(all) < alConfig.collectionTarget
    BY <2>2, <2>3, <2>5, Saving
  <2>7. outcome = "complete" => save = "done" /\ Len(all) >= alConfig.collectionTarget
    BY <2>3 DEF StopDue
  <2>8. outcome = "complete" => cacheSaved' = TRUE
    BY <2>2, <2>5, <2>6, <2>7
  <2>9. outcome # "complete" => cacheSaved' = FALSE
    <3>1. SUFFICES ASSUME cacheSaved' PROVE outcome = "complete"
      BY <2>6, Zenon
    <3>2. save = "done" /\ Len(all) >= alConfig.collectionTarget
      BY <2>6, <3>1
    <3>3. StopDue(all)
      BY <3>2 DEF StopDue
    <3> QED BY <2>3, <3>2, <3>3
  <2>10. outcome = "complete" => targetNotified' = TRUE
    BY <2>4
  <2>11. outcome # "complete" => targetNotified' = FALSE
    BY <2>4
  <2>12. outcome = "complete" => graspFile' = WholeFile(all)
    BY <2>6, <2>8
  <2>13. savedStates' = savedStates \o Grasps(rows)
    BY <2>4 DEF all
  <2> QED BY <1>2, <2>4, <2>6, <2>7, <2>8, <2>9, <2>10, <2>11, <2>12, <2>13
<1> QED BY <1>1, <1>2

------------------------------------------------------------------------------
(* Where the targets of a life lead.                                          *)

LEMMA PathStarts ==
  ASSUME NEW x \in Int, NEW c
  PROVE  PathLeadsTo(<<x>>, x, c)
<1> DEFINE f == [n \in 0 .. 0 |-> x]
<1>1. Len(<<x>>) - 1 = 0 /\ <<x>>[1] = x
  OBVIOUS
<1>2. f \in [0 .. 0 -> Int] /\ f[0] = x
  OBVIOUS
<1>3. f = [n \in 0 .. 0 |-> IF n = 0 THEN <<x>>[1]
                            ELSE Clip(f[n - 1] + c.scale * Clip(<<x>>[n + 1], c.rawClip), c.range)]
  BY <1>1
<1>4. Path(f, <<x>>, c)
  BY <1>1, <1>3 DEF Path
<1> QED BY <1>1, <1>2, <1>4 DEF PathLeadsTo

LEMMA PathGrows ==
  ASSUME NEW c \in AlConfigs, NEW moves \in Seq(Int), Len(moves) >= 1, NEW a \in Int, NEW x,
         PathLeadsTo(moves, x, c)
  PROVE  PathLeadsTo(Append(moves, a), Clip(x + c.scale * Clip(a, c.rawClip), c.range), c)
<1> DEFINE more == Append(moves, a)
           next(y, b) == Clip(y + c.scale * Clip(b, c.rawClip), c.range)
           n == Len(moves)
<1>1. PICK f \in [0 .. n - 1 -> Int] : Path(f, moves, c) /\ x = f[n - 1]
  BY DEF PathLeadsTo
<1>2. n \in Nat /\ n >= 1 /\ Len(more) - 1 = n /\ more[n + 1] = a
      /\ \A k \in 1 .. n : more[k] = moves[k]
  OBVIOUS
<1>3. c.scale \in Int /\ c.rawClip \in Int \X Int /\ c.range \in Int \X Int
  BY AlTypes
<1>4. ASSUME NEW y \in Int, NEW b \in Int PROVE next(y, b) \in Int
  <2>1. Clip(b, c.rawClip) \in Int
    BY <1>3, ClipType
  <2>2. \A s, z \in Int : y + s * z \in Int
    OBVIOUS
  <2>3. y + c.scale * Clip(b, c.rawClip) \in Int
    BY <1>3, <2>1, <2>2
  <2> QED BY <1>3, <2>3, ClipType
<1>5. f = [k \in 0 .. n - 1 |-> IF k = 0 THEN moves[1] ELSE next(f[k - 1], moves[k + 1])]
  BY <1>1 DEF Path
<1> HIDE DEF more, next, n
<1> DEFINE g == [k \in 0 .. n |-> IF k = n THEN next(x, a) ELSE f[k]]
<1>6. g \in [0 .. n -> Int] /\ g[n] = next(x, a)
  <2>1. x \in Int
    BY <1>1, <1>2
  <2>2. next(x, a) \in Int
    BY <1>4, <2>1
  <2> QED BY <1>1, <1>2, <2>2
<1>7. ASSUME NEW k \in 0 .. n
      PROVE  g[k] = IF k = 0 THEN more[1] ELSE next(g[k - 1], more[k + 1])
  <2>1. CASE k = 0
    BY <1>2, <1>5, <2>1
  <2>2. CASE k = n
    <3>1. k # 0 /\ k - 1 \in 0 .. n /\ k - 1 # n /\ g[k - 1] = x /\ more[k + 1] = a
      BY <1>1, <1>2, <2>2
    <3> QED BY <1>6, <2>2, <3>1
  <2>3. CASE k # 0 /\ k # n
    <3>1. k \in 0 .. n - 1 /\ k - 1 \in 0 .. n /\ k - 1 # n /\ k + 1 \in 1 .. n
      BY <1>2, <2>3
    <3>2. g[k] = f[k] /\ g[k - 1] = f[k - 1] /\ more[k + 1] = moves[k + 1]
      BY <1>2, <2>3, <3>1
    <3> QED BY <1>5, <2>3, <3>1, <3>2
  <2> QED BY <2>1, <2>2, <2>3
<1>8. g = [k \in 0 .. n |-> IF k = 0 THEN more[1] ELSE next(g[k - 1], more[k + 1])]
  <2>1. g = [k \in 0 .. n |-> g[k]]
    OBVIOUS
  <2> HIDE DEF g
  <2> QED BY <1>7, <2>1
<1> HIDE DEF g
<1>9. Path(g, more, c)
  BY <1>2, <1>8 DEF Path, next
<1>10. PathLeadsTo(more, next(x, a), c)
  BY <1>2, <1>6, <1>9 DEF PathLeadsTo
<1> QED BY <1>10 DEF more, next

\* Only one path leads there.
LEMMA PathIsOne ==
  ASSUME NEW c, NEW moves \in Seq(Int), Len(moves) >= 1, NEW f, Path(f, moves, c), NEW g, Path(g, moves, c)
  PROVE  f[Len(moves) - 1] = g[Len(moves) - 1]
<1> DEFINE n == Len(moves)
           next(y, b) == Clip(y + c.scale * Clip(b, c.rawClip), c.range)
           S == {k \in Nat : k <= n - 1 => f[k] = g[k]}
<1>1. n \in Nat /\ n >= 1
  OBVIOUS
<1>2. /\ f = [k \in 0 .. n - 1 |-> IF k = 0 THEN moves[1] ELSE next(f[k - 1], moves[k + 1])]
      /\ g = [k \in 0 .. n - 1 |-> IF k = 0 THEN moves[1] ELSE next(g[k - 1], moves[k + 1])]
  BY DEF Path
<1> HIDE DEF n, next
<1>3. \A k \in 0 .. n - 1 : /\ f[k] = IF k = 0 THEN moves[1] ELSE next(f[k - 1], moves[k + 1])
                            /\ g[k] = IF k = 0 THEN moves[1] ELSE next(g[k - 1], moves[k + 1])
  BY <1>2
<1>4. 0 \in S
  BY <1>1, <1>3
<1>5. ASSUME NEW k \in Nat, k \in S PROVE k + 1 \in S
  <2>1. SUFFICES ASSUME k + 1 <= n - 1 PROVE f[k + 1] = g[k + 1]
    OBVIOUS
  <2>2. k + 1 \in 0 .. n - 1 /\ k + 1 # 0 /\ k + 1 - 1 = k /\ f[k] = g[k]
    BY <1>1, <1>5, <2>1
  <2>3. f[k + 1] = next(f[k], moves[k + 1 + 1]) /\ g[k + 1] = next(g[k], moves[k + 1 + 1])
    BY <1>3, <2>2
  <2> QED BY <2>2, <2>3
<1>6. \A k \in Nat : k \in S
  <2> HIDE DEF S
  <2> QED BY <1>4, <1>5, Induction
<1>7. n - 1 \in Nat
  BY <1>1
<1>8. f[n - 1] = g[n - 1]
  BY <1>6, <1>7
<1> QED BY <1>8 DEF n

------------------------------------------------------------------------------
(* The rows of a reset.                                                       *)

HandRows ==
    /\ alWorld \in [AlEnv -> AlSamples] /\ alSeen \in [AlEnv -> AlSamples]
    /\ alPrevious \in [AlEnv -> AlSamples] /\ alRate \in [AlEnv -> AlRates]
    /\ alTarget \in [AlEnv -> Int]
    /\ acted \in [AlEnv -> Seq(Int)] /\ holding \in [AlEnv -> BOOLEAN]

\* What holds of all rows when some were rebuilt: all of them, or some of a live batch.
LEMMA RebuiltSound ==
  ASSUME RunTypes, HandTypes, SnapshotCurrent, RatesOfOneLife, TargetsFollow, DrawnFromCache,
         NEW rows \in SUBSET AlEnv, RebuildRows(rows),
         rows = AlEnv \/ (Live /\ alCounter' = alCounter), alCounter' \in Nat,
         UNCHANGED <<alConfig, graspCache, alReward>>
  PROVE  /\ HandRows' /\ SnapshotCurrent' /\ RatesOfOneLife' /\ TargetsFollow' /\ DrawnFromCache'
         /\ \A e \in rows : acted'[e] \in Seq(Int) /\ Len(acted'[e]) = 1 /\ holding'[e] = TRUE
                            /\ alWorld'[e].life = alWorld[e].life + 1
         /\ \A e \in AlEnv \ rows : Stays(e)
<1>1. /\ alLast' = alCounter' /\ Rowwise
      /\ \E pose \in PlacedPoses : (\A e \in rows : Starts(e, pose)) /\ (\A e \in AlEnv \ rows : Stays(e))
  BY Rebuilt
<1>2. PICK pose \in PlacedPoses : (\A e \in rows : Starts(e, pose)) /\ (\A e \in AlEnv \ rows : Stays(e))
  BY <1>1
<1>3. /\ pose \in AlPoses /\ pose.joint \in Int
      /\ alConfig.cached => \E i \in DOMAIN graspCache :
            pose.joint = Clip(graspCache[i].pose.joint, alConfig.range)
  BY <1>2, PlacedTypes DEF AlPoses
<1>4. ASSUME NEW e \in rows
      PROVE  /\ alWorld'[e] \in AlSamples /\ alSeen'[e] \in AlSamples /\ alPrevious'[e] \in AlSamples
             /\ alRate'[e] \in AlRates /\ alTarget'[e] \in Int /\ acted'[e] \in Seq(Int) /\ holding'[e] \in BOOLEAN
             /\ alWorld'[e].step = alCounter' /\ alWorld'[e].life = alWorld[e].life + 1
             /\ Len(acted'[e]) = 1
  <2>1. Starts(e, pose) /\ alWorld[e] \in AlSamples
    BY <1>2 DEF HandTypes
  <2>2. alWorld[e].life + 1 \in Nat
    BY <2>1 DEF AlSamples
  <2>3. /\ AlSample(pose, alWorld[e].life + 1, alCounter') \in AlSamples
        /\ AlSample(pose, alWorld[e].life + 1, alCounter').step = alCounter'
        /\ AlSample(pose, alWorld[e].life + 1, alCounter').life = alWorld[e].life + 1
    BY <1>3, <2>2 DEF AlSamples, AlSample
  <2>4. acted'[e] = <<pose.joint>> /\ <<pose.joint>> \in Seq(Int) /\ Len(<<pose.joint>>) = 1
    BY <1>3, <2>1 DEF Starts
  <2>5. holding'[e] \in BOOLEAN /\ alRate'[e] \in AlRates /\ alTarget'[e] \in Int
    BY <1>3, <2>1 DEF Starts, AlRates
  <2> QED BY <2>1, <2>3, <2>4, <2>5 DEF Starts
<1>5. ASSUME NEW e \in AlEnv \ rows
      PROVE  /\ alWorld'[e] \in AlSamples /\ alSeen'[e] \in AlSamples /\ alPrevious'[e] \in AlSamples
             /\ alRate'[e] \in AlRates /\ alTarget'[e] \in Int /\ acted'[e] \in Seq(Int) /\ holding'[e] \in BOOLEAN
             /\ alWorld'[e].step = alCounter' /\ alSeen'[e] = alWorld'[e] /\ alPrevious'[e] = alWorld'[e]
  <2>1. Stays(e)
    BY <1>2
  <2>2. Live /\ alCounter' = alCounter
    OBVIOUS
  <2>3. alWorld[e].step = alCounter /\ alSeen[e] = alWorld[e] /\ alPrevious[e] = alWorld[e]
    BY <2>2 DEF SnapshotCurrent
  <2> QED BY <2>1, <2>2, <2>3 DEF Stays, HandTypes
<1>6. HandRows'
  <2>1. /\ alWorld' = [e \in AlEnv |-> alWorld'[e]] /\ alSeen' = [e \in AlEnv |-> alSeen'[e]]
        /\ alPrevious' = [e \in AlEnv |-> alPrevious'[e]] /\ alRate' = [e \in AlEnv |-> alRate'[e]]
        /\ alTarget' = [e \in AlEnv |-> alTarget'[e]] /\ acted' = [e \in AlEnv |-> acted'[e]]
        /\ holding' = [e \in AlEnv |-> holding'[e]]
    BY <1>1, Zenon DEF Rowwise
  <2>2. \A e \in AlEnv :
             /\ alWorld'[e] \in AlSamples /\ alSeen'[e] \in AlSamples /\ alPrevious'[e] \in AlSamples
             /\ alRate'[e] \in AlRates /\ alTarget'[e] \in Int /\ acted'[e] \in Seq(Int) /\ holding'[e] \in BOOLEAN
    BY <1>4, <1>5
  <2> QED BY <2>1, <2>2 DEF HandRows
<1>7. SnapshotCurrent'
  <2>1. ASSUME NEW e \in AlEnv
        PROVE  alSeen'[e] = alWorld'[e] /\ alPrevious'[e] = alWorld'[e] /\ alWorld'[e].step = alCounter'
    <3>1. CASE e \in rows
      BY <1>2, <1>4, <3>1 DEF Starts
    <3>2. CASE e \notin rows
      BY <1>5, <3>2
    <3> QED BY <3>1, <3>2
  <2>2. alSeen' = alWorld' /\ alPrevious' = alWorld'
    BY <1>6, <2>1 DEF HandRows
  <2> QED BY <1>1, <2>1, <2>2 DEF SnapshotCurrent
<1>8. RatesOfOneLife'
  <2>1. ASSUME NEW e \in AlEnv PROVE RateOfOneLife(e)'
    <3>1. OfOneStep(alReward[e].of) /\ alReward' = alReward
      BY DEF RatesOfOneLife, RateOfOneLife
    <3>2. CASE e \in rows
      <4>1. alRate'[e] = <<>>
        BY <1>2, <3>2 DEF Starts
      <4> QED BY <3>1, <4>1 DEF RateOfOneLife, OfOneStep
    <3>3. CASE e \notin rows
      <4>1. Stays(e) /\ Live /\ RateOfOneLife(e)
        BY <1>2, <3>3 DEF RatesOfOneLife
      <4> QED BY <3>1, <4>1 DEF RateOfOneLife, Stays
    <3> QED BY <3>2, <3>3
  <2> QED BY <2>1 DEF RatesOfOneLife
<1>9. TargetsFollow'
  <2>1. ASSUME NEW e \in AlEnv PROVE TargetFollows(e)'
    <3>1. CASE e \in rows
      <4>1. /\ alTarget'[e] = pose.joint /\ acted'[e] = <<pose.joint>> /\ Len(acted'[e]) = 1
            /\ alFrame'[e] = [of |-> alWorld'[e], noisy |-> FALSE, target |-> pose.joint]
        BY <1>2, <1>4, <3>1 DEF Starts
      <4>2. PathLeadsTo(acted'[e], alTarget'[e], alConfig')
        BY <1>3, <4>1, PathStarts
      <4>3. alFrame'[e].noisy = (alConfig'.jointNoise > 0 /\ Len(acted'[e]) > 1)
        <5>1. ~(Len(acted'[e]) > 1)
          BY <4>1
        <5>2. alFrame'[e].noisy = FALSE
          BY <4>1
        <5> QED BY <5>1, <5>2, Zenon
      <4>4. Len(acted'[e]) >= 1 /\ alFrame'[e].target = alTarget'[e] /\ alFrame'[e].of = alWorld'[e]
        BY <4>1
      <4> QED BY <4>2, <4>3, <4>4, Zenon DEF TargetFollows
    <3>2. CASE e \notin rows
      <4>1. Stays(e) /\ TargetFollows(e) /\ alConfig' = alConfig
        BY <1>2, <3>2 DEF TargetsFollow
      <4> QED BY <4>1, Zenon DEF TargetFollows, Stays
    <3> QED BY <3>1, <3>2
  <2> QED BY <2>1 DEF TargetsFollow
<1>10. DrawnFromCache'
  <2>1. ASSUME NEW e \in AlEnv, alConfig.cached PROVE FromCache(e)'
    <3>1. CASE e \in rows
      <4>1. acted'[e] = <<pose.joint>>
        BY <1>2, <3>1 DEF Starts
      <4>2. acted'[e][1] = pose.joint
        BY <4>1
      <4> QED BY <1>3, <2>1, <4>2, Zenon DEF FromCache
    <3>2. CASE e \notin rows
      <4>1. Stays(e) /\ FromCache(e)
        BY <1>2, <2>1, <3>2 DEF DrawnFromCache
      <4> QED BY <4>1, Zenon DEF FromCache, Stays
    <3> QED BY <3>1, <3>2
  <2> QED BY <2>1, Zenon DEF DrawnFromCache
<1> QED BY <1>2, <1>4, <1>6, <1>7, <1>8, <1>9, <1>10 DEF Starts

------------------------------------------------------------------------------
(* Every action keeps the invariant.                                          *)

Frozen == UNCHANGED <<alWorld, alTarget, alLast, alSeen, alPrevious, alRate, alAge, alFrame, acted, holding>>

LEMMA BuildKeeps ==
  ASSUME AlInv, NEW c \in AlConfigs, AlBuild(c)
  PROVE  AlInv'
<1>1. /\ alPc = "idle" /\ alPc' \in {"idle", "built"} /\ alConfig' = c /\ alRuns' = alRuns + 1
      /\ Frozen /\ UNCHANGED <<alCounter, resetTerminated, resetTimeOuts, alReward, savedStates, cacheSaved,
                               targetNotified, graspFile>>
      /\ graspCache' = graspFile.rows \/ graspCache' = <<>>
      /\ alPc' = "built" => ~AlRefused(c)
  BY DEF AlBuild, Frozen, alsnapshotvars, alrecorder
<1>2. ~Live'
  BY <1>1 DEF Live
<1>3. RunTypes'
  <2>1. <<>> \in Seq(RowsOnFile) /\ alRuns + 1 \in Nat
    BY DEF AlInv, RunTypes
  <2> QED BY <1>1, <2>1 DEF AlInv, RunTypes
<1>4. HandTypes'
  BY <1>1 DEF AlInv, HandTypes, Frozen
<1>5. NotStarted'
  BY <1>1 DEF AlInv, NotStarted, Frozen
<1>6. RatesOfOneLife'
  BY <1>1, <1>2 DEF AlInv, RatesOfOneLife, RateOfOneLife, Frozen
<1>7. savedStates' = <<>> /\ ~cacheSaved' /\ ~targetNotified'
  BY <1>1 DEF AlInv, NotStarted
<1>8. SavedHeld' /\ SavedOnce'
  BY <1>2, <1>7 DEF SavedHeld, SavedOnce
<1>9. OnlyCollectorsRecord'
  <2>1. ASSUME alPc' # "idle", alConfig'.collects PROVE alConfig'.collectionTarget > 0
    <3>1. ~AlRefused(c) /\ alConfig' = c /\ c.collectionTarget \in Int
      BY <1>1, <2>1, AlTypes
    <3> QED BY <2>1, <3>1 DEF AlRefused, RecorderRefused
  <2> QED BY <1>7, <2>1 DEF OnlyCollectorsRecord
<1>10. CacheKept'
  BY <1>1, <1>7 DEF CacheKept
<1>11. CacheIsOlder'
  <2>1. alRuns \in Nat /\ \A i \in DOMAIN graspFile.rows : graspFile.rows[i].run <= alRuns
    BY DEF AlInv, RunTypes, CacheIsOlder
  <2>2. graspFile.rows \in Seq(RowsOnFile)
    BY DEF AlInv, RunTypes
  <2>3. ASSUME NEW i \in DOMAIN graspFile.rows PROVE graspFile.rows[i].run \in Nat
    <3>1. graspFile.rows[i] \in RowsOnFile
      BY <2>2
    <3> QED BY <3>1 DEF RowsOnFile
  <2> QED BY <1>1, <2>1, <2>3 DEF CacheIsOlder
<1>12. EndingHasRows'
  BY <1>1 DEF EndingHasRows
<1> QED BY <1>2, <1>3, <1>4, <1>5, <1>6, <1>8, <1>9, <1>10, <1>11, <1>12
        DEF AlInv, SnapshotCurrent, TargetsFollow, AgesCount, HeldOrEnded, DrawnFromCache

LEMMA StartKeeps ==
  ASSUME AlInv, AlStart
  PROVE  AlInv'
<1>1. /\ alPc = "built" /\ alPc' = "run" /\ RebuildRows(AlEnv)
      /\ UNCHANGED <<alConfig, alRuns, alCounter, resetTerminated, resetTimeOuts, alReward, savedStates, cacheSaved,
                     targetNotified, graspFile, graspCache>>
      /\ alAge' \in [AlEnv -> IF alConfig.randomAge THEN 0 .. alConfig.maxLength - 1 ELSE {0}]
  BY DEF AlStart, alrecorder
<1>2. RunTypes' /\ alConfig \in AlConfigs
  BY <1>1 DEF AlInv, RunTypes
<1>3. alConfig.maxLength \in Nat /\ alConfig.maxLength >= 1 /\ alConfig.randomAge \in BOOLEAN
  BY <1>2, AlTypes
<1>4. /\ \A e \in AlEnv : alWorld[e].life = 0 /\ ~resetTerminated[e] /\ ~resetTimeOuts[e]
      /\ savedStates = <<>> /\ ~cacheSaved /\ ~targetNotified
  BY <1>1 DEF AlInv, NotStarted
<1>5. /\ HandRows' /\ SnapshotCurrent' /\ RatesOfOneLife' /\ TargetsFollow' /\ DrawnFromCache'
      /\ \A e \in AlEnv : acted'[e] \in Seq(Int) /\ Len(acted'[e]) = 1 /\ holding'[e] = TRUE
                          /\ alWorld'[e].life = alWorld[e].life + 1
  <2>1. alCounter' \in Nat
    BY <1>1 DEF AlInv, HandTypes
  <2> QED BY <1>1, <2>1, RebuiltSound DEF AlInv
<1>6. \A e \in AlEnv : /\ alAge'[e] \in Nat /\ alAge'[e] <= alConfig.maxLength - 1
                       /\ alConfig.randomAge \/ alAge'[e] = 0
  BY <1>1, <1>3
<1>7. HandTypes'
  <2>1. alAge' \in [AlEnv -> Nat]
    BY <1>1, <1>3
  <2>2. alLast' \in Nat /\ alCounter' \in Nat
    BY <1>1, <1>5 DEF AlInv, HandTypes, SnapshotCurrent, Live
  <2> QED BY <1>1, <1>5, <2>1, <2>2 DEF AlInv, HandTypes, HandRows
<1>8. AgesCount'
  <2>1. ASSUME NEW e \in AlEnv PROVE AgeCounts(e)'
    <3>1. Lasted(e)' = 0 /\ alWorld'[e].life = 1
      BY <1>4, <1>5 DEF Lasted
    <3>2. ~resetTimeOuts'[e] /\ alConfig' = alConfig
      BY <1>1, <1>4
    <3> QED BY <1>3, <1>6, <3>1, <3>2 DEF AgeCounts
  <2> QED BY <2>1 DEF AgesCount
<1>9. HeldOrEnded'
  BY <1>5 DEF HeldOrEnded, Holds
<1>10. SavedHeld' /\ SavedOnce' /\ OnlyCollectorsRecord'
  BY <1>1, <1>4 DEF AlInv, SavedHeld, SavedOnce, OnlyCollectorsRecord
<1>11. CacheKept' /\ CacheIsOlder'
  BY <1>1, <1>4 DEF AlInv, CacheKept, CacheIsOlder
<1>12. NotStarted' /\ EndingHasRows'
  BY <1>1 DEF NotStarted, EndingHasRows
<1> QED BY <1>2, <1>5, <1>7, <1>8, <1>9, <1>10, <1>11, <1>12 DEF AlInv

LEMMA StepKeeps ==
  ASSUME AlInv, NEW a \in alConfig.actions, NEW poses \in AlPoseBatches, AlStep(a, poses)
  PROVE  AlInv'
<1>1. alConfig \in AlConfigs /\ a \in Int
  BY AlTypes DEF AlInv, RunTypes
<1>2. /\ alPc = "run" /\ (~alConfig.autoreset => AlDone = {})
      /\ alCounter' = alCounter + 1 /\ alLast' = alCounter' /\ Rowwise /\ Flags
      /\ \A e \in AlEnv : Moves(e, a) /\ Judged(e)
      /\ alPc' = IF alConfig.autoreset /\ (\E e \in AlEnv : resetTerminated'[e] \/ resetTimeOuts'[e])
                 THEN "ending" ELSE "run"
      /\ UNCHANGED <<alConfig, alRuns, savedStates, cacheSaved, targetNotified, graspFile, graspCache>>
  <2>1. RunTypes /\ HandTypes /\ SnapshotCurrent
    BY DEF AlInv
  <2> QED BY <1>1, <2>1, GraspStepped
<1>3. /\ alConfig.maxLength \in Nat /\ alConfig.maxLength >= 1 /\ alConfig.autoreset \in BOOLEAN
      /\ alConfig.randomAge \in BOOLEAN
  BY <1>1, AlTypes
<1>4. Live /\ Live' /\ alPc' \in {"run", "ending"}
  BY <1>2 DEF Live
<1>5. /\ alSeen = alWorld /\ alLast = alCounter /\ \A e \in AlEnv : alWorld[e].step = alCounter
      /\ cacheSaved = FALSE /\ targetNotified = FALSE
  BY <1>2, <1>4 DEF AlInv, SnapshotCurrent, CacheKept, RunTypes
<1>6. ASSUME NEW e \in AlEnv
      PROVE  /\ alWorld'[e] \in AlSamples /\ alWorld'[e].step = alCounter' /\ alWorld'[e].life = alWorld[e].life
             /\ alSeen'[e] = alWorld'[e] /\ alPrevious'[e] = alWorld'[e]
             /\ alRate'[e] = <<alWorld[e], alWorld'[e]>> /\ alRate'[e] \in AlRates
  <2>1. alWorld[e] \in AlSamples /\ alCounter \in Nat
    BY DEF AlInv, HandTypes
  <2>2. PICK q \in AlPoses : alWorld'[e] = AlSample(q, alWorld[e].life, alCounter + 1)
    BY <1>2 DEF Moves
  <2>3. alWorld'[e] \in AlSamples /\ alWorld'[e].step = alCounter' /\ alWorld'[e].life = alWorld[e].life
    BY <1>2, <2>1, <2>2 DEF AlSamples, AlSample
  <2>4. Moves(e, a) /\ <<alWorld[e], alWorld'[e]>> \in AlRates
    BY <1>2, <2>1, <2>3 DEF AlRates
  <2> QED BY <2>3, <2>4 DEF Moves
<1>7. ASSUME NEW e \in AlEnv
      PROVE  /\ acted[e] \in Seq(Int) /\ Len(acted[e]) \in Nat /\ Len(acted[e]) >= 1
             /\ acted'[e] = Append(acted[e], a) /\ acted'[e] \in Seq(Int) /\ Len(acted'[e]) = Len(acted[e]) + 1
             /\ acted'[e][1] = acted[e][1]
             /\ alAge[e] \in Nat /\ alAge'[e] = alAge[e] + 1 /\ alTarget[e] \in Int /\ alTarget'[e] \in Int
  <2>1. acted[e] \in Seq(Int) /\ alAge[e] \in Nat /\ alTarget[e] \in Int
    BY DEF AlInv, HandTypes
  <2>2. Len(acted[e]) >= 1
    BY <1>4 DEF AlInv, TargetsFollow, TargetFollows
  <2>3. acted'[e] = Append(acted[e], a) /\ alAge'[e] = alAge[e] + 1
        /\ alTarget'[e] = Clip(alTarget[e] + alConfig.scale * Clip(a, alConfig.rawClip), alConfig.range)
    BY <1>2 DEF Moves
  <2>4. alConfig.scale \in Int /\ alConfig.rawClip \in Int \X Int /\ alConfig.range \in Int \X Int
    BY <1>1, AlTypes
  <2>5. Clip(a, alConfig.rawClip) \in Int
    BY <1>1, <2>4, ClipType
  <2>6. \A t, s, z \in Int : t + s * z \in Int
    OBVIOUS
  <2>7. alTarget'[e] \in Int
    BY <2>1, <2>3, <2>4, <2>5, <2>6, ClipType
  <2>8. acted'[e] \in Seq(Int) /\ Len(acted'[e]) = Len(acted[e]) + 1 /\ acted'[e][1] = acted[e][1]
    BY <1>1, <2>1, <2>2, <2>3
  <2> QED BY <2>1, <2>2, <2>3, <2>7, <2>8
<1>8. RunTypes'
  BY <1>2, <1>4 DEF AlInv, RunTypes
<1>9. HandTypes'
  <2>1. /\ alWorld' = [e \in AlEnv |-> alWorld'[e]] /\ alSeen' = [e \in AlEnv |-> alSeen'[e]]
        /\ alPrevious' = [e \in AlEnv |-> alPrevious'[e]] /\ alRate' = [e \in AlEnv |-> alRate'[e]]
        /\ alTarget' = [e \in AlEnv |-> alTarget'[e]] /\ acted' = [e \in AlEnv |-> acted'[e]]
        /\ holding' = [e \in AlEnv |-> holding'[e]]
    BY <1>2, Zenon DEF Rowwise
  <2>2. /\ alAge' = [e \in AlEnv |-> alAge'[e]] /\ resetTerminated' = [e \in AlEnv |-> resetTerminated'[e]]
        /\ resetTimeOuts' = [e \in AlEnv |-> resetTimeOuts'[e]]
    BY <1>2, Zenon DEF Flags
  <2>3. ASSUME NEW e \in AlEnv
        PROVE resetTimeOuts'[e] \in BOOLEAN /\ resetTerminated'[e] \in BOOLEAN /\ holding'[e] \in BOOLEAN
    <3>1. resetTimeOuts'[e] = (alAge'[e] >= alConfig.maxLength)
      BY <1>2 DEF Judged
    <3>2. (alAge'[e] >= alConfig.maxLength) \in BOOLEAN
      OBVIOUS
    <3>3. resetTimeOuts'[e] \in BOOLEAN
      BY <3>1, <3>2, Zenon
    <3> QED BY <1>2, <3>3 DEF Judged
  <2>4. alWorld' \in [AlEnv -> AlSamples] /\ alSeen' \in [AlEnv -> AlSamples] /\ alPrevious' \in [AlEnv -> AlSamples]
    BY <1>6, <2>1
  <2>5. alRate' \in [AlEnv -> AlRates] /\ alTarget' \in [AlEnv -> Int] /\ acted' \in [AlEnv -> Seq(Int)]
    BY <1>6, <1>7, <2>1
  <2>6. alAge' \in [AlEnv -> Nat]
    BY <1>7, <2>2
  <2>7. holding' \in [AlEnv -> BOOLEAN] /\ resetTerminated' \in [AlEnv -> BOOLEAN] /\ resetTimeOuts' \in [AlEnv -> BOOLEAN]
    BY <2>1, <2>2, <2>3
  <2>8. alCounter' \in Nat /\ alLast' \in Nat
    BY <1>2 DEF AlInv, HandTypes
  <2> QED BY <2>4, <2>5, <2>6, <2>7, <2>8 DEF HandTypes
<1>10. SnapshotCurrent'
  <2>1. alSeen' = alWorld' /\ alPrevious' = alWorld'
    BY <1>6, <1>9 DEF HandTypes
  <2> QED BY <1>2, <1>6, <2>1 DEF SnapshotCurrent
<1>11. RatesOfOneLife'
  <2>1. ASSUME NEW e \in AlEnv PROVE RateOfOneLife(e)'
    <3>1. alRate'[e] = <<alWorld[e], alWorld'[e]>> /\ alReward'[e].of = alRate'[e]
      BY <1>2 DEF Moves
    <3>2. alCounter \in Nat /\ alWorld[e].step = alCounter /\ alWorld'[e].step = alCounter + 1
          /\ alWorld'[e].life = alWorld[e].life
      BY <1>2, <1>5, <1>6 DEF AlInv, HandTypes
    <3>3. alRate'[e][1] = alWorld[e] /\ alRate'[e][2] = alWorld'[e]
      BY <3>1
    <3>4. alRate'[e][1].life = alRate'[e][2].life /\ alRate'[e][1].step = alRate'[e][2].step - 1
      BY <3>2, <3>3
    <3> QED BY <3>1, <3>3, <3>4 DEF RateOfOneLife, OfOneStep
  <2> QED BY <2>1 DEF RatesOfOneLife
<1>12. TargetsFollow'
  <2>1. ASSUME NEW e \in AlEnv PROVE TargetFollows(e)'
    <3>1. TargetFollows(e) /\ alConfig' = alConfig
      BY <1>2, <1>4 DEF AlInv, TargetsFollow
    <3>2. /\ alTarget'[e] = Clip(alTarget[e] + alConfig.scale * Clip(a, alConfig.rawClip), alConfig.range)
          /\ alFrame'[e] = [of |-> alWorld'[e], noisy |-> alConfig.jointNoise > 0, target |-> alTarget'[e]]
          /\ acted'[e] = Append(acted[e], a)
      BY <1>2 DEF Moves
    <3>3. PathLeadsTo(acted[e], alTarget[e], alConfig)
      BY <3>1 DEF TargetFollows
    <3>4. PathLeadsTo(acted'[e], alTarget'[e], alConfig)
      BY <1>1, <1>7, <3>2, <3>3, PathGrows
    <3>5. Len(acted'[e]) > 1 /\ Len(acted'[e]) >= 1
      BY <1>7
    <3>6. alFrame'[e].noisy = (alConfig.jointNoise > 0) /\ alFrame'[e].target = alTarget'[e]
          /\ alFrame'[e].of = alWorld'[e]
      BY <3>2
    <3>7. (alConfig.jointNoise > 0 /\ Len(acted'[e]) > 1) = (alConfig.jointNoise > 0)
      BY <3>5
    <3>8. alFrame'[e].noisy = (alConfig.jointNoise > 0 /\ Len(acted'[e]) > 1)
      BY <3>6, <3>7
    <3> QED BY <3>1, <3>4, <3>5, <3>6, <3>8, Zenon DEF TargetFollows
  <2> QED BY <2>1 DEF TargetsFollow
\* Whoever takes a step was not done, or stands where a reset put it.
<1>13. ASSUME NEW e \in AlEnv PROVE alAge[e] < alConfig.maxLength /\ AgeCounts(e)
  <2>1. AgeCounts(e) /\ (alConfig.autoreset \/ e \notin AlDone)
    BY <1>2, <1>4 DEF AlInv, AgesCount
  <2> QED BY <1>2, <2>1 DEF AgeCounts
<1>14. ASSUME NEW e \in AlEnv
       PROVE  /\ resetTimeOuts'[e] => alAge'[e] = alConfig.maxLength
              /\ ~resetTimeOuts'[e] => alAge'[e] < alConfig.maxLength
              /\ alAge'[e] <= alConfig.maxLength
  <2>1. resetTimeOuts'[e] = (alAge'[e] >= alConfig.maxLength)
    BY <1>2 DEF Judged
  <2>2. alAge'[e] \in Nat /\ alAge'[e] <= alConfig.maxLength
    BY <1>3, <1>7, <1>13
  <2>3. resetTimeOuts'[e] => alAge'[e] >= alConfig.maxLength
    BY <2>1, Zenon
  <2>4. ~resetTimeOuts'[e] => ~(alAge'[e] >= alConfig.maxLength)
    BY <2>1, Zenon
  <2> QED BY <1>3, <2>2, <2>3, <2>4
<1>15. ASSUME NEW e \in AlEnv, alPc' = "run", alConfig.autoreset
       PROVE  ~resetTerminated'[e] /\ ~resetTimeOuts'[e]
  <2>1. ~(\E d \in AlEnv : resetTerminated'[d] \/ resetTimeOuts'[d])
    BY <1>2, <1>15
  <2> QED BY <2>1
<1>16. AgesCount'
  <2>1. ASSUME NEW e \in AlEnv PROVE AgeCounts(e)'
    <3>1. Lasted(e)' = Lasted(e) + 1 /\ Lasted(e) \in Int /\ alAge'[e] = alAge[e] + 1 /\ alAge[e] \in Nat
      BY <1>7 DEF Lasted
    <3>2. alWorld'[e].life = alWorld[e].life /\ alConfig' = alConfig
      BY <1>2, <1>6
    <3>3. \/ alAge'[e] = Lasted(e)'
          \/ alConfig'.randomAge /\ alWorld'[e].life = 1 /\ Lasted(e)' <= alAge'[e]
      BY <1>13, <3>1, <3>2 DEF AgeCounts
    <3>4. e \notin AlDone' \/ (alPc' = "run" /\ alConfig'.autoreset) => ~resetTimeOuts'[e]
      BY <1>15, <3>2 DEF AlDone
    <3>5. alWorld'[e].life >= 1
      BY <1>13, <3>2 DEF AgeCounts
    <3> QED BY <1>14, <3>2, <3>3, <3>4, <3>5, Zenon DEF AgeCounts
  <2> QED BY <2>1 DEF AgesCount
<1>17. HeldOrEnded'
  <2>1. ASSUME NEW e \in AlEnv, alConfig.collects, alConfig.enabled PROVE Holds(e)'
    <3>1. Holds(e)
      BY <1>4, <2>1 DEF AlInv, HeldOrEnded
    <3>2. holding[e]
      BY <1>2, <3>1 DEF Holds, AlDone
    <3>3. holding'[e] \/ resetTerminated'[e]
      BY <1>2, <2>1, <3>2 DEF Judged
    <3>4. alPc' = "run" /\ alConfig'.autoreset => ~resetTerminated'[e]
      BY <1>2, <1>15
    <3> QED BY <3>3, <3>4, Zenon DEF Holds
  <2> QED BY <1>2, <2>1, Zenon DEF HeldOrEnded
<1>18. SavedHeld' /\ OnlyCollectorsRecord' /\ CacheIsOlder'
  <2>1. SavedHeld' /\ CacheIsOlder'
    BY <1>2 DEF AlInv, SavedHeld, HeldGrasp, CacheIsOlder
  <2>2. OnlyCollectorsRecord'
    BY <1>2 DEF AlInv, OnlyCollectorsRecord
  <2> QED BY <2>1, <2>2
<1>19. SavedOnce'
  <2>1. ASSUME NEW i \in DOMAIN savedStates PROVE savedStates[i].of.life < alWorld'[savedStates[i].row].life
    <3>1. savedStates[i] \in SavedRows /\ savedStates[i].of.life < alWorld[savedStates[i].row].life
      BY <1>4 DEF AlInv, RunTypes, SavedOnce
    <3>2. savedStates[i].row \in AlEnv
      BY <3>1 DEF SavedRows
    <3> QED BY <1>6, <3>1, <3>2
  <2> QED BY <1>2, <2>1 DEF AlInv, SavedOnce
<1>20. CacheKept'
  BY <1>2, <1>4, <1>5 DEF CacheKept
<1>21. DrawnFromCache'
  <2>1. ASSUME NEW e \in AlEnv, alConfig.cached PROVE FromCache(e)'
    <3>1. FromCache(e) /\ acted'[e][1] = acted[e][1] /\ alConfig' = alConfig /\ graspCache' = graspCache
      BY <1>2, <1>4, <1>7, <2>1 DEF AlInv, DrawnFromCache
    <3> QED BY <3>1, Zenon DEF FromCache
  <2> QED BY <1>2, <2>1, Zenon DEF DrawnFromCache
<1>22. NotStarted' /\ EndingHasRows'
  <2>1. alPc' = "ending" => alConfig'.autoreset
    BY <1>2
  <2> QED BY <1>4, <2>1 DEF NotStarted, EndingHasRows
<1> QED BY <1>8, <1>9, <1>10, <1>11, <1>12, <1>16, <1>17, <1>18, <1>19, <1>20, <1>21, <1>22 DEF AlInv

\* What a whole file holds.
LEMMA WholeTypes ==
  ASSUME RunTypes, NEW saved \in Seq(SavedRows)
  PROVE  /\ WholeFile(saved).rows \in Seq(RowsOnFile)
         /\ \A i \in DOMAIN WholeFile(saved).rows :
               i \in DOMAIN saved /\ WholeFile(saved).rows[i] = [pose |-> saved[i].of.pose, run |-> alRuns]
         /\ \A i \in DOMAIN WholeFile(saved).rows : WholeFile(saved).rows[i].run = alRuns
         /\ alConfig.collectionTarget > 0 /\ Len(saved) >= alConfig.collectionTarget
               => Len(WholeFile(saved).rows) = alConfig.collectionTarget
<1> DEFINE n == alConfig.collectionTarget
           m == IF Len(saved) < n THEN Len(saved) ELSE n
           file == [i \in 1 .. m |-> [pose |-> saved[i].of.pose, run |-> alRuns]]
<1>1. n \in Int /\ Len(saved) \in Nat /\ alRuns \in Nat
  BY AlTypes DEF RunTypes
<1>2. m \in Int /\ m <= Len(saved) /\ (n > 0 => m \in Nat) /\ (n > 0 /\ Len(saved) >= n => m = n)
  BY <1>1
<1>3. WholeFile(saved).rows = file
  BY DEF WholeFile, FirstRows
<1> HIDE DEF n, m
<1>4. ASSUME NEW i \in 1 .. m
      PROVE  i \in DOMAIN saved /\ [pose |-> saved[i].of.pose, run |-> alRuns] \in RowsOnFile
  <2>1. i \in 1 .. Len(saved)
    BY <1>1, <1>2
  <2>2. saved[i] \in SavedRows
    BY <2>1
  <2>3. saved[i].of.pose \in AlPoses
    BY <2>2 DEF SavedRows, AlSamples
  <2> QED BY <1>1, <2>1, <2>3 DEF RowsOnFile
<1>5. file \in Seq(RowsOnFile) /\ DOMAIN file = 1 .. m /\ (m \in Nat => Len(file) = m)
  <2>1. CASE m \in Nat
    BY <1>4, <2>1
  <2>2. CASE m \notin Nat
    <3>1. 1 .. m = {} /\ 1 .. m = 1 .. 0
      BY <1>2, <2>2
    <3>2. file \in [1 .. 0 -> RowsOnFile]
      BY <1>4, <3>1
    <3>3. file \in Seq(RowsOnFile)
      BY <3>2, SeqDef, 0 \in Nat
    <3> QED BY <2>2, <3>3
  <2> QED BY <2>1, <2>2
<1>6. ASSUME NEW i \in 1 .. m PROVE file[i] = [pose |-> saved[i].of.pose, run |-> alRuns] /\ file[i].run = alRuns
  OBVIOUS
<1> HIDE DEF file
<1> QED BY <1>2, <1>3, <1>4, <1>5, <1>6 DEF n

\* A reset of the environment, up to its flags: the rows start anew, or the recorder ends
\* the run before they do.
LEMMA Reset ==
  ASSUME AlInv, Live, NEW rows \in SUBSET AlEnv, AlResetRows(rows)
  PROVE  /\ UNCHANGED <<alConfig, alRuns, alCounter, alReward, graspCache>>
         /\ savedStates' = savedStates
            \/ (alConfig.collects /\ savedStates' = savedStates \o Grasps(rows \cap AlDone))
         /\ graspFile' \in {graspFile, PartialFile, WholeFile(savedStates')}
         /\ cacheSaved' \in BOOLEAN /\ targetNotified' \in BOOLEAN /\ (cacheSaved' => alConfig.collects)
         /\ \/ /\ alPc' = "run" /\ RebuildRows(rows) /\ alAge' = AlOver(alAge, rows, AlAll(0))
               /\ cacheSaved' = FALSE /\ targetNotified' = FALSE
            \/ alPc' \in {"failed", "killed"} /\ Frozen /\ cacheSaved' = FALSE /\ targetNotified' = FALSE
            \/ /\ alPc' = "complete" /\ Frozen /\ cacheSaved' = TRUE /\ targetNotified' = TRUE
               /\ Len(savedStates') >= alConfig.collectionTarget /\ graspFile' = WholeFile(savedStates')
<1>1. PICK outcome \in {"done", "failed", "killed", "complete"} :
      /\ UNCHANGED <<alConfig, alRuns, alCounter, alReward, graspCache>>
      /\ RecordPreReset(rows \cap AlDone, outcome)
      /\ IF outcome = "done"
         THEN /\ alPc' = "run" /\ RebuildRows(rows)
              /\ alAge' = AlOver(alAge, rows, AlAll(0))
         ELSE /\ alPc' = outcome
              /\ UNCHANGED <<alWorld, alRaw, alTarget, alsnapshotvars, altermvars, alAge, alFrame, acted, holding>>
  BY Zenon DEF AlResetRows
<1>2. RunTypes /\ HandTypes /\ cacheSaved = FALSE /\ targetNotified = FALSE
  BY DEF AlInv, RunTypes, CacheKept, Live
<1>3. \A e \in AlEnv : Len(acted[e]) >= 1
  BY DEF AlInv, TargetsFollow, TargetFollows
<1>4. /\ savedStates' = savedStates
         \/ (alConfig.collects /\ savedStates' = savedStates \o Grasps(rows \cap AlDone))
      /\ outcome = "complete" => /\ cacheSaved' = TRUE /\ targetNotified' = TRUE
                                 /\ Len(savedStates') >= alConfig.collectionTarget
                                 /\ graspFile' = WholeFile(savedStates')
      /\ outcome # "complete" => cacheSaved' = FALSE /\ targetNotified' = FALSE
      /\ graspFile' \in {graspFile, PartialFile, WholeFile(savedStates')}
      /\ cacheSaved' => alConfig.collects
  <2>1. rows \cap AlDone \in SUBSET AlEnv /\ RecordPreReset(rows \cap AlDone, outcome)
    BY <1>1
  <2> QED BY <1>2, <1>3, <2>1, Recorded
<1>5. outcome = "done" => alPc' = "run" /\ RebuildRows(rows) /\ alAge' = AlOver(alAge, rows, AlAll(0))
  BY <1>1, Zenon
<1>6. outcome # "done" => alPc' = outcome /\ Frozen
  BY <1>1, Zenon DEF Frozen, alsnapshotvars
<1>7. cacheSaved' \in BOOLEAN /\ targetNotified' \in BOOLEAN
  BY <1>4
<1> QED BY <1>1, <1>4, <1>5, <1>6, <1>7, Zenon

\* The file and the collection after a reset.
LEMMA ResetFile ==
  ASSUME AlInv, Live, NEW rows \in SUBSET AlEnv, AlResetRows(rows)
  PROVE  RunTypes' /\ OnlyCollectorsRecord' /\ CacheKept' /\ CacheIsOlder' /\ EndingHasRows' /\ NotStarted'
<1>1. /\ UNCHANGED <<alConfig, alRuns, alCounter, alReward, graspCache>>
      /\ savedStates' = savedStates
         \/ (alConfig.collects /\ savedStates' = savedStates \o Grasps(rows \cap AlDone))
      /\ graspFile' \in {graspFile, PartialFile, WholeFile(savedStates')}
      /\ cacheSaved' \in BOOLEAN /\ targetNotified' \in BOOLEAN /\ (cacheSaved' => alConfig.collects)
      /\ \/ alPc' = "run" /\ cacheSaved' = FALSE /\ targetNotified' = FALSE
         \/ alPc' \in {"failed", "killed"} /\ cacheSaved' = FALSE /\ targetNotified' = FALSE
         \/ /\ alPc' = "complete" /\ cacheSaved' = TRUE /\ targetNotified' = TRUE
            /\ Len(savedStates') >= alConfig.collectionTarget /\ graspFile' = WholeFile(savedStates')
  BY Reset, Zenon
<1>2. savedStates' \in Seq(SavedRows)
  <2>1. Grasps(rows \cap AlDone) \in Seq(SavedRows)
    <3>1. rows \cap AlDone \in SUBSET AlEnv /\ HandTypes /\ \A e \in AlEnv : Len(acted[e]) >= 1
      BY DEF AlInv, TargetsFollow, TargetFollows
    <3> QED BY <3>1, GraspsOfRows
  <2>2. savedStates \in Seq(SavedRows)
    BY DEF AlInv, RunTypes
  <2>3. savedStates \o Grasps(rows \cap AlDone) \in Seq(SavedRows)
    BY <2>1, <2>2
  <2> QED BY <1>1, <2>2, <2>3, Zenon
<1>3. WholeFile(savedStates').rows \in Seq(RowsOnFile)
      /\ \A i \in DOMAIN WholeFile(savedStates').rows : WholeFile(savedStates').rows[i].run = alRuns
  BY <1>2, WholeTypes DEF AlInv
<1>4. graspFile'.rows \in Seq(RowsOnFile) /\ graspFile' = [kind |-> graspFile'.kind, rows |-> graspFile'.rows]
  <2>1. CASE graspFile' = graspFile
    BY <2>1 DEF AlInv, RunTypes
  <2>2. CASE graspFile' = PartialFile
    BY <2>2 DEF PartialFile
  <2>3. CASE graspFile' = WholeFile(savedStates')
    <3>1. graspFile' = [kind |-> graspFile'.kind, rows |-> graspFile'.rows]
      BY <2>3 DEF WholeFile
    <3> QED BY <1>3, <2>3, <3>1
  <2> QED BY <1>1, <2>1, <2>2, <2>3
<1>5. RunTypes'
  BY <1>1, <1>2, <1>4 DEF AlInv, RunTypes
<1>6. OnlyCollectorsRecord'
  <2>1. ~alConfig.collects => savedStates' = <<>> /\ ~cacheSaved'
    BY <1>1 DEF AlInv, OnlyCollectorsRecord
  <2>2. alConfig.collects => alConfig.collectionTarget > 0
    BY DEF AlInv, OnlyCollectorsRecord, Live
  <2> QED BY <1>1, <2>1, <2>2, Zenon DEF OnlyCollectorsRecord
<1>7. CacheKept'
  <2>1. cacheSaved' => alPc' = "complete" /\ graspFile' = WholeFile(savedStates')
    BY <1>1
  <2>2. targetNotified' => cacheSaved' /\ Len(savedStates') >= alConfig'.collectionTarget
    BY <1>1
  <2>3. alPc' = "complete" => targetNotified'
    BY <1>1
  <2>4. WholeFile(savedStates)' = WholeFile(savedStates')
    BY <1>1 DEF WholeFile, FirstRows
  <2> QED BY <2>1, <2>2, <2>3, <2>4 DEF CacheKept, WholeFile
<1>8. CacheIsOlder'
  <2>1. \A i \in DOMAIN graspFile'.rows : graspFile'.rows[i].run <= alRuns
    <3>1. CASE graspFile' = graspFile
      BY <3>1 DEF AlInv, CacheIsOlder
    <3>2. CASE graspFile' = PartialFile
      BY <3>2 DEF PartialFile
    <3>3. CASE graspFile' = WholeFile(savedStates')
      BY <1>3, <3>3 DEF AlInv, RunTypes
    <3> QED BY <1>1, <3>1, <3>2, <3>3
  <2> QED BY <1>1, <2>1 DEF AlInv, CacheIsOlder
<1> QED BY <1>1, <1>5, <1>6, <1>7, <1>8 DEF EndingHasRows, NotStarted

\* What is recorded before a reset was held for its episode, and is recorded for the first time.
LEMMA GraspHeld ==
  ASSUME AlInv, Live, alConfig.collects, NEW e \in AlEnv, resetTimeOuts[e], ~resetTerminated[e]
  PROVE  /\ alConfig.enabled => HeldGrasp(GraspOf(e))
         /\ GraspOf(e).row = e /\ GraspOf(e).of.life = alWorld[e].life /\ alWorld[e].life \in Nat
<1>1. AgeCounts(e) /\ alSeen = alWorld
  BY DEF AlInv, AgesCount, SnapshotCurrent
<1>2. alAge[e] \in Nat /\ alWorld[e].life \in Nat /\ Lasted(e) \in Nat
  <2>1. alAge[e] \in Nat /\ alWorld[e] \in AlSamples /\ acted[e] \in Seq(Int) /\ Len(acted[e]) >= 1
    BY DEF AlInv, HandTypes, TargetsFollow, TargetFollows
  <2> QED BY <2>1 DEF AlSamples, Lasted
<1>3. /\ GraspOf(e).lasted = Lasted(e) /\ GraspOf(e).valid = holding[e] /\ GraspOf(e).row = e
      /\ GraspOf(e).of = alWorld[e]
  BY <1>1 DEF GraspOf
<1>4. ASSUME alConfig.enabled PROVE HeldGrasp(GraspOf(e))
  <2>1. Holds(e)
    BY <1>4 DEF AlInv, HeldOrEnded
  <2>2. holding[e]
    BY <2>1 DEF Holds
  <2>3. alConfig.maxLength \in Nat
    BY AlTypes DEF AlInv, RunTypes
  <2>4. \/ Lasted(e) \in {0, alConfig.maxLength}
        \/ alConfig.randomAge /\ alWorld[e].life = 1 /\ Lasted(e) < alConfig.maxLength
    BY <1>1, <1>2, <2>3 DEF AgeCounts
  <2> QED BY <1>3, <2>2, <2>4 DEF HeldGrasp
<1> QED BY <1>2, <1>3, <1>4

LEMMA ResetSaved ==
  ASSUME AlInv, Live, NEW rows \in SUBSET AlEnv, AlResetRows(rows)
  PROVE  SavedHeld' /\ SavedOnce'
<1> DEFINE G == Grasps(rows \cap AlDone)
           n == Len(savedStates)
<1>1. /\ UNCHANGED <<alConfig, alCounter, alReward, graspCache>>
      /\ savedStates' = savedStates \/ (alConfig.collects /\ savedStates' = savedStates \o G)
      /\ (alPc' = "run" /\ RebuildRows(rows)) \/ alPc' \in {"failed", "killed", "complete"}
  BY Reset
<1>2. savedStates \in Seq(SavedRows) /\ n \in Nat
  BY DEF AlInv, RunTypes
<1>3. /\ G \in Seq(SavedRows)
      /\ \A i \in DOMAIN G : \E e \in Successes(rows \cap AlDone) : G[i] = GraspOf(e)
      /\ \A i, k \in DOMAIN G : i # k => G[i].row # G[k].row
  <2>1. rows \cap AlDone \in SUBSET AlEnv /\ HandTypes /\ \A e \in AlEnv : Len(acted[e]) >= 1
    BY DEF AlInv, TargetsFollow, TargetFollows
  <2> QED BY <2>1, GraspsOfRows
<1> HIDE DEF G
\* An old row is of a life before the one its environment is in.
<1>4. ASSUME NEW i \in 1 .. n
      PROVE  /\ savedStates[i] \in SavedRows /\ savedStates[i].row \in AlEnv /\ savedStates[i].of.life \in Nat
             /\ savedStates[i].of.life < alWorld[savedStates[i].row].life
  <2>1. savedStates[i] \in SavedRows /\ i \in DOMAIN savedStates
    BY <1>2
  <2>2. savedStates[i].of.life < alWorld[savedStates[i].row].life
    BY <2>1 DEF AlInv, SavedOnce
  <2> QED BY <2>1, <2>2 DEF SavedRows, AlSamples
\* A new row is of the life its environment is in.
<1>5. ASSUME alConfig.collects, NEW i \in DOMAIN G
      PROVE  /\ alConfig.enabled => HeldGrasp(G[i])
             /\ G[i].row \in rows /\ G[i].row \in AlEnv /\ G[i].of.life = alWorld[G[i].row].life
             /\ G[i].of.life \in Nat
  <2>1. PICK e \in Successes(rows \cap AlDone) : G[i] = GraspOf(e)
    BY <1>3
  <2>2. e \in AlEnv /\ e \in rows /\ resetTimeOuts[e] /\ ~resetTerminated[e]
    BY <2>1 DEF Successes
  <2> QED BY <1>5, <2>1, <2>2, GraspHeld
<1>6. ASSUME NEW i \in DOMAIN savedStates'
      PROVE  \/ i \in 1 .. n /\ savedStates'[i] = savedStates[i]
             \/ /\ alConfig.collects /\ savedStates' = savedStates \o G
                /\ i \in Nat /\ i > n /\ i - n \in DOMAIN G /\ savedStates'[i] = G[i - n]
  <2>1. CASE savedStates' = savedStates
    BY <1>2, <2>1
  <2>2. CASE alConfig.collects /\ savedStates' = savedStates \o G
    <3>1. /\ Len(savedStates') = n + Len(G) /\ Len(G) \in Nat /\ savedStates' \in Seq(SavedRows)
          /\ DOMAIN savedStates' = 1 .. n + Len(G)
      BY <1>2, <1>3, <2>2
    <3>2. i \in 1 .. n + Len(G) /\ i \in Nat
      BY <3>1
    <3>3. CASE i <= n
      BY <1>2, <1>3, <2>2, <3>2, <3>3
    <3>4. CASE i > n
      <4>1. i - n \in 1 .. Len(G) /\ i - n \in DOMAIN G
        BY <1>2, <1>3, <3>1, <3>2, <3>4
      <4>2. savedStates'[i] = G[i - n]
        BY <1>2, <1>3, <2>2, <3>2, <3>4
      <4> QED BY <2>2, <3>2, <3>4, <4>1, <4>2
    <3> QED BY <1>2, <3>2, <3>3, <3>4
  <2> QED BY <1>1, <2>1, <2>2
<1>7. SavedHeld'
  <2>1. ASSUME alConfig.enabled, NEW i \in DOMAIN savedStates' PROVE HeldGrasp(savedStates'[i])
    <3>1. CASE i \in 1 .. n /\ savedStates'[i] = savedStates[i]
      <4>1. i \in DOMAIN savedStates
        BY <1>2, <3>1
      <4> QED BY <2>1, <3>1, <4>1 DEF AlInv, SavedHeld
    <3>2. CASE alConfig.collects /\ i - n \in DOMAIN G /\ savedStates'[i] = G[i - n]
      BY <1>5, <2>1, <3>2
    <3> QED BY <1>6, <3>1, <3>2
  <2>2. \A i \in DOMAIN savedStates' : alConfig.enabled => HeldGrasp(savedStates[i])'
    BY <1>1, <2>1 DEF HeldGrasp
  <2> QED BY <1>1, <2>2 DEF SavedHeld
<1>8. ASSUME NEW i \in DOMAIN savedStates', NEW k \in DOMAIN savedStates', i # k
      PROVE  Apart(savedStates'[i], savedStates'[k])
  <2>1. CASE i \in 1 .. n /\ savedStates'[i] = savedStates[i]
    <3>1. CASE k \in 1 .. n /\ savedStates'[k] = savedStates[k]
      <4>1. i \in DOMAIN savedStates /\ k \in DOMAIN savedStates
        BY <1>2, <2>1, <3>1
      <4> QED BY <1>8, <2>1, <3>1, <4>1 DEF AlInv, SavedOnce
    <3>2. CASE alConfig.collects /\ k - n \in DOMAIN G /\ savedStates'[k] = G[k - n]
      BY <1>4, <1>5, <2>1, <3>2 DEF Apart
    <3> QED BY <1>6, <3>1, <3>2
  <2>2. CASE alConfig.collects /\ i \in Nat /\ i > n /\ i - n \in DOMAIN G /\ savedStates'[i] = G[i - n]
    <3>1. CASE k \in 1 .. n /\ savedStates'[k] = savedStates[k]
      BY <1>4, <1>5, <2>2, <3>1 DEF Apart
    <3>2. CASE k \in Nat /\ k - n \in DOMAIN G /\ savedStates'[k] = G[k - n]
      <4>1. i - n # k - n
        BY <1>2, <1>8, <2>2, <3>2
      <4> QED BY <1>3, <2>2, <3>2, <4>1 DEF Apart
    <3> QED BY <1>6, <3>1, <3>2
  <2> QED BY <1>6, <2>1, <2>2
<1>9. ASSUME Live', NEW i \in DOMAIN savedStates'
      PROVE  savedStates'[i].of.life < alWorld'[savedStates'[i].row].life
  <2>1. RebuildRows(rows)
    BY <1>1, <1>9 DEF Live
  <2>2. \A e \in rows : alWorld'[e].life = alWorld[e].life + 1
    BY <2>1, <1>1, RebuiltSound DEF AlInv, HandTypes
  <2>3. \A e \in AlEnv \ rows : alWorld'[e].life = alWorld[e].life
    <3>1. \A e \in AlEnv \ rows : Stays(e)
      BY <2>1, Rebuilt
    <3> QED BY <3>1 DEF Stays
  <2>4. \A e \in AlEnv : alWorld[e].life \in Nat
    BY DEF AlInv, HandTypes, AlSamples
  <2>5. CASE i \in 1 .. n /\ savedStates'[i] = savedStates[i]
    BY <1>4, <2>2, <2>3, <2>4, <2>5
  <2>6. CASE alConfig.collects /\ i - n \in DOMAIN G /\ savedStates'[i] = G[i - n]
    BY <1>5, <2>2, <2>4, <2>6
  <2> QED BY <1>6, <2>5, <2>6
<1> QED BY <1>7, <1>8, <1>9 DEF SavedOnce

\* The hands after a reset; what the flags say of the rows is the caller's.
LEMMA ResetHands ==
  ASSUME AlInv, Live, NEW rows \in SUBSET AlEnv, AlResetRows(rows)
  PROVE  /\ RatesOfOneLife' /\ SnapshotCurrent' /\ TargetsFollow' /\ DrawnFromCache'
         /\ alAge' \in [AlEnv -> Nat] /\ HandRows' /\ alCounter' \in Nat /\ alLast' \in Nat
         /\ alConfig' = alConfig
         /\ Live' => /\ alPc' = "run"
                     /\ \A e \in rows : alAge'[e] = 0 /\ Lasted(e)' = 0 /\ holding'[e] = TRUE /\ alWorld'[e].life >= 1
                                        /\ alWorld'[e].life = alWorld[e].life + 1
                     /\ \A e \in AlEnv \ rows : Stays(e) /\ alAge'[e] = alAge[e]
<1>1. /\ UNCHANGED <<alConfig, alCounter, alReward, graspCache>>
      /\ \/ alPc' = "run" /\ RebuildRows(rows) /\ alAge' = AlOver(alAge, rows, AlAll(0))
         \/ alPc' \in {"failed", "killed", "complete"} /\ Frozen
  BY Reset
<1>2. alCounter \in Nat /\ alLast \in Nat /\ alAge \in [AlEnv -> Nat]
  BY DEF AlInv, HandTypes
<1>3. CASE alPc' = "run" /\ RebuildRows(rows) /\ alAge' = AlOver(alAge, rows, AlAll(0))
  <2>1. /\ HandRows' /\ SnapshotCurrent' /\ RatesOfOneLife' /\ TargetsFollow' /\ DrawnFromCache'
        /\ \A e \in rows : acted'[e] \in Seq(Int) /\ Len(acted'[e]) = 1 /\ holding'[e] = TRUE
                           /\ alWorld'[e].life = alWorld[e].life + 1
        /\ \A e \in AlEnv \ rows : Stays(e)
    BY <1>1, <1>2, <1>3, RebuiltSound DEF AlInv
  <2>2. alAge' \in [AlEnv -> Nat]
    BY <1>2, <1>3 DEF AlOver, AlAll
  <2>3. alLast' \in Nat
    BY <1>1, <1>2, <1>3, Rebuilt
  <2>4. \A e \in rows : alAge'[e] = 0 /\ Lasted(e)' = 0
    BY <1>3, <2>1 DEF AlOver, AlAll, Lasted
  <2>5. ASSUME NEW e \in rows PROVE alWorld'[e].life >= 1
    <3>1. alWorld[e].life \in Nat
      BY DEF AlInv, HandTypes, AlSamples
    <3> QED BY <2>1, <3>1
  <2>6. \A e \in AlEnv \ rows : alAge'[e] = alAge[e]
    BY <1>3 DEF AlOver
  <2> QED BY <1>1, <1>2, <1>3, <2>1, <2>2, <2>3, <2>4, <2>5, <2>6
<1>4. CASE alPc' \in {"failed", "killed", "complete"} /\ Frozen
  <2>1. ~Live'
    BY <1>4 DEF Live
  <2>2. HandRows' /\ RatesOfOneLife'
    BY <1>1, <1>4, <2>1 DEF AlInv, HandTypes, HandRows, Frozen, RatesOfOneLife, RateOfOneLife
  <2>3. alAge' = alAge /\ alLast' = alLast
    BY <1>4 DEF Frozen
  <2> QED BY <1>1, <1>2, <2>1, <2>2, <2>3 DEF SnapshotCurrent, TargetsFollow, DrawnFromCache
<1> QED BY <1>1, <1>3, <1>4

LEMMA AutoresetKeeps ==
  ASSUME AlInv, AlAutoreset
  PROVE  AlInv'
<1>1. alPc = "ending" /\ AlResetRows(AlDone) /\ UNCHANGED <<resetTerminated, resetTimeOuts>> /\ AlDone \in SUBSET AlEnv
  BY DEF AlAutoreset, AlDone
<1>2. Live /\ alConfig.autoreset
  BY <1>1 DEF Live, AlInv, EndingHasRows
<1>3. RunTypes' /\ OnlyCollectorsRecord' /\ CacheKept' /\ CacheIsOlder' /\ EndingHasRows' /\ NotStarted'
      /\ SavedHeld' /\ SavedOnce'
  BY <1>1, <1>2, ResetFile, ResetSaved
<1>4. /\ RatesOfOneLife' /\ SnapshotCurrent' /\ TargetsFollow' /\ DrawnFromCache'
      /\ alAge' \in [AlEnv -> Nat] /\ HandRows' /\ alCounter' \in Nat /\ alLast' \in Nat
      /\ alConfig' = alConfig
      /\ Live' => /\ alPc' = "run"
                  /\ \A e \in AlDone : alAge'[e] = 0 /\ Lasted(e)' = 0 /\ holding'[e] = TRUE /\ alWorld'[e].life >= 1
                  /\ \A e \in AlEnv \ AlDone : Stays(e) /\ alAge'[e] = alAge[e]
  BY <1>1, <1>2, ResetHands
<1>5. HandTypes'
  BY <1>1, <1>4 DEF AlInv, HandTypes, HandRows
<1>6. alConfig.maxLength \in Nat /\ alConfig.maxLength >= 1
  BY AlTypes DEF AlInv, RunTypes
<1>7. ASSUME Live', NEW e \in AlEnv PROVE AgeCounts(e)' /\ (alConfig.collects /\ alConfig.enabled => Holds(e)')
  <2>1. CASE e \in AlDone
    <3>1. alAge'[e] = 0 /\ Lasted(e)' = 0 /\ holding'[e] = TRUE /\ alWorld'[e].life >= 1
      BY <1>4, <1>7, <2>1
    <3> QED BY <1>4, <1>6, <3>1 DEF AgeCounts, Holds
  <2>2. CASE e \notin AlDone
    <3>1. Stays(e) /\ alAge'[e] = alAge[e] /\ AgeCounts(e) /\ ~resetTerminated[e] /\ ~resetTimeOuts[e]
      BY <1>2, <1>4, <1>7, <2>2 DEF AlInv, AgesCount, AlDone
    <3>2. Lasted(e)' = Lasted(e)
      BY <3>1 DEF Lasted, Stays
    <3>3. AgeCounts(e)'
      BY <1>1, <1>4, <2>2, <3>1, <3>2 DEF AgeCounts, Stays
    <3>4. ASSUME alConfig.collects, alConfig.enabled PROVE Holds(e)'
      <4>1. holding[e]
        BY <1>2, <3>1, <3>4 DEF AlInv, HeldOrEnded, Holds
      <4> QED BY <3>1, <4>1 DEF Holds, Stays
    <3> QED BY <3>3, <3>4
  <2> QED BY <2>1, <2>2
<1>8. AgesCount' /\ HeldOrEnded'
  BY <1>4, <1>7 DEF AgesCount, HeldOrEnded
<1> QED BY <1>3, <1>4, <1>5, <1>8 DEF AlInv

LEMMA ManualResetKeeps ==
  ASSUME AlInv, NEW rows \in SUBSET AlEnv, AlManualReset(rows)
  PROVE  AlInv'
<1>1. /\ alPc = "run" /\ AlResetRows(rows)
      /\ resetTerminated' = AlOver(resetTerminated, rows, AlAll(FALSE))
      /\ resetTimeOuts' = AlOver(resetTimeOuts, rows, AlAll(FALSE))
  BY DEF AlManualReset
<1>2. Live
  BY <1>1 DEF Live
<1>3. RunTypes' /\ OnlyCollectorsRecord' /\ CacheKept' /\ CacheIsOlder' /\ EndingHasRows' /\ NotStarted'
      /\ SavedHeld' /\ SavedOnce'
  BY <1>1, <1>2, ResetFile, ResetSaved
<1>4. /\ RatesOfOneLife' /\ SnapshotCurrent' /\ TargetsFollow' /\ DrawnFromCache'
      /\ alAge' \in [AlEnv -> Nat] /\ HandRows' /\ alCounter' \in Nat /\ alLast' \in Nat
      /\ alConfig' = alConfig
      /\ Live' => /\ alPc' = "run"
                  /\ \A e \in rows : alAge'[e] = 0 /\ Lasted(e)' = 0 /\ holding'[e] = TRUE /\ alWorld'[e].life >= 1
                  /\ \A e \in AlEnv \ rows : Stays(e) /\ alAge'[e] = alAge[e]
  BY <1>1, <1>2, ResetHands
<1>5. /\ resetTerminated' \in [AlEnv -> BOOLEAN] /\ resetTimeOuts' \in [AlEnv -> BOOLEAN]
      /\ \A e \in rows : ~resetTerminated'[e] /\ ~resetTimeOuts'[e]
      /\ \A e \in AlEnv \ rows : resetTerminated'[e] = resetTerminated[e] /\ resetTimeOuts'[e] = resetTimeOuts[e]
  BY <1>1 DEF AlInv, HandTypes, AlOver, AlAll
<1>6. HandTypes'
  BY <1>4, <1>5 DEF HandTypes, HandRows
<1>7. alConfig.maxLength \in Nat /\ alConfig.maxLength >= 1
  BY AlTypes DEF AlInv, RunTypes
<1>8. ASSUME Live', NEW e \in AlEnv PROVE AgeCounts(e)' /\ (alConfig.collects /\ alConfig.enabled => Holds(e)')
  <2>1. CASE e \in rows
    <3>1. /\ alAge'[e] = 0 /\ Lasted(e)' = 0 /\ holding'[e] = TRUE /\ alWorld'[e].life >= 1
          /\ ~resetTimeOuts'[e]
      BY <1>4, <1>5, <1>8, <2>1
    <3> QED BY <1>4, <1>7, <3>1 DEF AgeCounts, Holds
  <2>2. CASE e \notin rows
    <3>1. /\ Stays(e) /\ alAge'[e] = alAge[e] /\ AgeCounts(e) /\ alPc' = alPc
          /\ resetTerminated'[e] = resetTerminated[e] /\ resetTimeOuts'[e] = resetTimeOuts[e]
      BY <1>1, <1>2, <1>4, <1>5, <1>8, <2>2 DEF AlInv, AgesCount
    <3>2. Lasted(e)' = Lasted(e) /\ (e \in AlDone' <=> e \in AlDone)
      BY <3>1 DEF Lasted, Stays, AlDone
    <3>3. AgeCounts(e)'
      BY <1>4, <3>1, <3>2 DEF AgeCounts, Stays
    <3>4. ASSUME alConfig.collects, alConfig.enabled PROVE Holds(e)'
      <4>1. Holds(e)
        BY <1>2, <3>4 DEF AlInv, HeldOrEnded
      <4> QED BY <1>4, <3>1, <4>1, Zenon DEF Holds, Stays
    <3> QED BY <3>3, <3>4
  <2> QED BY <2>1, <2>2
<1>9. AgesCount' /\ HeldOrEnded'
  BY <1>4, <1>8 DEF AgesCount, HeldOrEnded
<1> QED BY <1>3, <1>4, <1>6, <1>9 DEF AlInv

LEMMA RestoreKeeps ==
  ASSUME AlInv, NEW counter \in 0 .. MaxAlSteps, AlRestore(counter)
  PROVE  AlInv'
<1>1. /\ alPc = "run" /\ ~alConfig.collects /\ alCounter' = counter /\ alPc' = "run" /\ RebuildRows(AlEnv)
      /\ alAge' = AlAll(0) /\ resetTerminated' = AlAll(FALSE) /\ resetTimeOuts' = AlAll(FALSE)
      /\ UNCHANGED <<alConfig, alRuns, alReward, savedStates, cacheSaved, targetNotified, graspFile, graspCache>>
  BY DEF AlRestore, alrecorder
<1>2. counter \in Nat /\ cacheSaved = FALSE /\ targetNotified = FALSE /\ savedStates = <<>>
  BY <1>1 DEF AlInv, RunTypes, CacheKept, OnlyCollectorsRecord
<1>3. /\ HandRows' /\ SnapshotCurrent' /\ RatesOfOneLife' /\ TargetsFollow' /\ DrawnFromCache'
      /\ \A e \in AlEnv : acted'[e] \in Seq(Int) /\ Len(acted'[e]) = 1 /\ holding'[e] = TRUE
                          /\ alWorld'[e].life = alWorld[e].life + 1
      /\ alLast' = alCounter'
  BY <1>1, <1>2, Rebuilt, RebuiltSound DEF AlInv
<1>4. RunTypes'
  BY <1>1 DEF AlInv, RunTypes
<1>5. HandTypes'
  <2>1. alAge' \in [AlEnv -> Nat] /\ resetTerminated' \in [AlEnv -> BOOLEAN] /\ resetTimeOuts' \in [AlEnv -> BOOLEAN]
    BY <1>1 DEF AlAll
  <2> QED BY <1>1, <1>2, <1>3, <2>1 DEF HandTypes, HandRows
<1>6. AgesCount'
  <2>1. ASSUME NEW e \in AlEnv PROVE AgeCounts(e)'
    <3>1. Lasted(e)' = 0 /\ alAge'[e] = 0 /\ ~resetTimeOuts'[e] /\ alConfig' = alConfig
      BY <1>1, <1>3 DEF AlAll, Lasted
    <3>2. alWorld[e].life \in Nat /\ alWorld'[e].life >= 1
      BY <1>3 DEF AlInv, HandTypes, AlSamples
    <3>3. alConfig.maxLength \in Nat /\ alConfig.maxLength >= 1
      BY AlTypes DEF AlInv, RunTypes
    <3> QED BY <3>1, <3>2, <3>3 DEF AgeCounts
  <2> QED BY <2>1 DEF AgesCount
<1>7. HeldOrEnded' /\ NotStarted' /\ EndingHasRows'
  BY <1>1 DEF HeldOrEnded, NotStarted, EndingHasRows
<1>8. SavedHeld' /\ SavedOnce' /\ OnlyCollectorsRecord' /\ CacheKept'
  BY <1>1, <1>2 DEF AlInv, SavedHeld, SavedOnce, OnlyCollectorsRecord, CacheKept
<1>9. CacheIsOlder'
  BY <1>1 DEF AlInv, CacheIsOlder
<1> QED BY <1>3, <1>4, <1>5, <1>6, <1>7, <1>8, <1>9 DEF AlInv

LEMMA CloseKeeps ==
  ASSUME AlInv, AlClose
  PROVE  AlInv'
<1>1. /\ alPc \in {"built", "run", "complete", "failed"} /\ alPc' = "closed"
      /\ Frozen /\ UNCHANGED <<alConfig, alRuns, alCounter, resetTerminated, resetTimeOuts, alReward, graspCache>>
      /\ savedStates' = savedStates /\ targetNotified' = targetNotified
  BY DEF AlClose, AlInv, RunTypes, Frozen, alsnapshotvars, alrecorder
<1>2. ~Live'
  BY <1>1 DEF Live
<1>3. savedStates \in Seq(SavedRows) /\ alConfig \in AlConfigs /\ cacheSaved \in BOOLEAN /\ RunTypes
  BY DEF AlInv, RunTypes
<1>4. alConfig.collectionTarget \in Int /\ alConfig.collects \in BOOLEAN /\ alConfig.autoSave \in BOOLEAN
  <2>1. alConfig \in AlConfigurations
    BY <1>3, AlAssumption
  <2> QED BY <2>1 DEF AlConfigurations
\* Whatever was saved before stays, and what is saved now is whole.
<1>5. /\ cacheSaved' \in BOOLEAN
      /\ graspFile' \in {graspFile, PartialFile, WholeFile(savedStates)}
      /\ cacheSaved' => graspFile' = WholeFile(savedStates) /\ alConfig.collects
      /\ cacheSaved => cacheSaved'
  <2>1. CASE ~alConfig.collects
    <3>1. cacheSaved' = cacheSaved /\ graspFile' = graspFile
      BY <2>1 DEF AlClose, alrecorder
    <3>2. ~cacheSaved
      BY <2>1 DEF AlInv, OnlyCollectorsRecord
    <3> QED BY <1>3, <3>1, <3>2
  <2>2. CASE alConfig.collects /\ cacheSaved
    <3>1. graspFile = WholeFile(savedStates) /\ ~CacheDue(savedStates, alConfig.autoSave)
      BY <2>2 DEF AlInv, CacheKept, WholeFile, CacheDue
    <3>2. PICK save \in {"done", "failed", "killed"} : SaveCache(savedStates, alConfig.autoSave, save)
      BY <2>2, Zenon DEF AlClose
    <3>3. cacheSaved' = cacheSaved /\ graspFile' = graspFile
      BY <3>1, <3>2, Zenon DEF SaveCache
    <3> QED BY <1>3, <2>2, <3>1, <3>3
  <2>3. CASE alConfig.collects /\ ~cacheSaved
    <3>1. PICK save \in {"done", "failed", "killed"} : SaveCache(savedStates, alConfig.autoSave, save)
      BY <2>3, Zenon DEF AlClose
    <3>2. cacheSaved = FALSE
      BY <1>3, <2>3
    <3>3. /\ cacheSaved' \in BOOLEAN
          /\ cacheSaved' => save = "done" /\ graspFile' = WholeFile(savedStates)
          /\ graspFile' \in {graspFile, PartialFile, WholeFile(savedStates)}
      BY <1>3, <1>4, <3>1, <3>2, Saving
    <3> QED BY <2>3, <3>3
  <2> QED BY <1>4, <2>1, <2>2, <2>3
<1>6. /\ WholeFile(savedStates).rows \in Seq(RowsOnFile)
      /\ \A i \in DOMAIN WholeFile(savedStates).rows : WholeFile(savedStates).rows[i].run = alRuns
  BY <1>3, WholeTypes
<1>7. RunTypes'
  <2>1. graspFile'.rows \in Seq(RowsOnFile) /\ graspFile' = [kind |-> graspFile'.kind, rows |-> graspFile'.rows]
    <3>1. CASE graspFile' = graspFile
      BY <3>1 DEF AlInv, RunTypes
    <3>2. CASE graspFile' = PartialFile
      BY <3>2 DEF PartialFile
    <3>3. CASE graspFile' = WholeFile(savedStates)
      <4>1. graspFile' = [kind |-> graspFile'.kind, rows |-> graspFile'.rows]
        BY <3>3 DEF WholeFile
      <4> QED BY <1>6, <3>3, <4>1
    <3> QED BY <1>5, <3>1, <3>2, <3>3
  <2> QED BY <1>1, <1>5, <2>1 DEF AlInv, RunTypes
<1>8. HandTypes' /\ RatesOfOneLife'
  BY <1>1, <1>2 DEF AlInv, HandTypes, RatesOfOneLife, RateOfOneLife, Frozen
<1>9. SavedHeld' /\ SavedOnce'
  BY <1>1, <1>2 DEF AlInv, SavedHeld, HeldGrasp, SavedOnce
<1>10. OnlyCollectorsRecord'
  <2>1. alConfig.collects => alConfig.collectionTarget > 0
    BY <1>1 DEF AlInv, OnlyCollectorsRecord
  <2>2. ~alConfig.collects => savedStates = <<>> /\ ~cacheSaved'
    BY <1>5 DEF AlInv, OnlyCollectorsRecord
  <2> QED BY <1>1, <2>1, <2>2, Zenon DEF OnlyCollectorsRecord
<1>11. CacheKept'
  <2>1. cacheSaved' => graspFile' = [kind |-> "whole", rows |-> FirstRows(savedStates, alConfig.collectionTarget)']
    BY <1>1, <1>5 DEF WholeFile, FirstRows
  <2>2. targetNotified' => cacheSaved' /\ Len(savedStates') >= alConfig'.collectionTarget
    BY <1>1, <1>5 DEF AlInv, CacheKept
  <2> QED BY <1>1, <2>1, <2>2 DEF CacheKept
<1>12. CacheIsOlder'
  <2>1. \A i \in DOMAIN graspFile'.rows : graspFile'.rows[i].run <= alRuns
    <3>1. CASE graspFile' = graspFile
      BY <3>1 DEF AlInv, CacheIsOlder
    <3>2. CASE graspFile' = PartialFile
      BY <3>2 DEF PartialFile
    <3>3. CASE graspFile' = WholeFile(savedStates)
      BY <1>6, <3>3 DEF AlInv, RunTypes
    <3> QED BY <1>5, <3>1, <3>2, <3>3
  <2> QED BY <1>1, <2>1 DEF AlInv, CacheIsOlder
<1>13. NotStarted' /\ EndingHasRows'
  BY <1>1 DEF NotStarted, EndingHasRows
<1> QED BY <1>2, <1>7, <1>8, <1>9, <1>10, <1>11, <1>12, <1>13
        DEF AlInv, SnapshotCurrent, TargetsFollow, AgesCount, HeldOrEnded, DrawnFromCache

\* The values an environment has before it is built, and what may be on file by then.
Unstarted ==
    /\ alConfig \in AlConfigs /\ alRuns \in Nat
    /\ graspFile = [kind |-> graspFile.kind, rows |-> graspFile.rows] /\ graspFile.rows \in Seq(RowsOnFile)
    /\ \A i \in DOMAIN graspFile.rows : graspFile.rows[i].run <= alRuns
    /\ alPc = "idle" /\ graspCache = <<>> /\ alCounter = 0 /\ alLast = 0
    /\ alWorld = AlAll(AlSample(AlHome, 0, 0)) /\ alTarget = AlAll(AlHome.joint)
    /\ alSeen = alWorld /\ alPrevious = alWorld /\ alRate = AlAll(<<>>)
    /\ alAge = AlAll(0) /\ resetTerminated = AlAll(FALSE) /\ resetTimeOuts = AlAll(FALSE)
    /\ alReward = AlAll(NoReward)
    /\ savedStates = <<>> /\ cacheSaved = FALSE /\ targetNotified = FALSE
    /\ acted = AlAll(<<0>>) /\ holding = AlAll(TRUE)

LEMMA UnbuiltKeeps ==
  ASSUME Unstarted
  PROVE  AlInv
<1>1. ~Live
  BY DEF Unstarted, Live
<1>2. RunTypes
  <2>1. <<>> \in Seq(SavedRows) /\ <<>> \in Seq(RowsOnFile)
    OBVIOUS
  <2> QED BY <2>1 DEF RunTypes, Unstarted
<1>3. HandTypes
  <2>1. AlSample(AlHome, 0, 0) \in AlSamples /\ AlHome.joint \in Int /\ <<>> \in AlRates /\ <<0>> \in Seq(Int)
    BY AlAssumption DEF AlSamples, AlSample, AlPoses, AlRates
  <2>2. /\ alWorld \in [AlEnv -> AlSamples] /\ alSeen \in [AlEnv -> AlSamples]
        /\ alPrevious \in [AlEnv -> AlSamples]
    BY <2>1 DEF Unstarted, AlAll
  <2>3. alTarget \in [AlEnv -> Int] /\ alAge \in [AlEnv -> Nat] /\ alRate \in [AlEnv -> AlRates]
    BY <2>1 DEF Unstarted, AlAll
  <2>4. acted \in [AlEnv -> Seq(Int)] /\ holding \in [AlEnv -> BOOLEAN]
    BY <2>1 DEF Unstarted, AlAll
  <2>5. resetTerminated \in [AlEnv -> BOOLEAN] /\ resetTimeOuts \in [AlEnv -> BOOLEAN]
    BY DEF Unstarted, AlAll
  <2> QED BY <2>2, <2>3, <2>4, <2>5 DEF HandTypes, Unstarted
<1>4. NotStarted
  BY DEF Unstarted, NotStarted, AlAll, AlSample
<1>5. RatesOfOneLife
  <2>1. \A e \in AlEnv : alRate[e] = <<>> /\ alReward[e].of = <<>>
    BY DEF Unstarted, AlAll, NoReward
  <2> QED BY <2>1 DEF RatesOfOneLife, RateOfOneLife, OfOneStep
<1>6. SavedHeld /\ SavedOnce /\ OnlyCollectorsRecord /\ CacheKept /\ EndingHasRows
  BY DEF Unstarted, SavedHeld, SavedOnce, OnlyCollectorsRecord, CacheKept, EndingHasRows, Live
<1>7. CacheIsOlder
  BY DEF Unstarted, CacheIsOlder
<1> QED BY <1>1, <1>2, <1>3, <1>4, <1>5, <1>6, <1>7
        DEF AlInv, SnapshotCurrent, TargetsFollow, AgesCount, HeldOrEnded, DrawnFromCache

LEMMA EachUnbuilt == [](Unstarted => AlInv)
<1>1. Unstarted => AlInv
  BY UnbuiltKeeps
<1> QED BY <1>1, PTL

LEMMA GoneKeeps == AlInv /\ AlGone => AlInv'
<1>1. ASSUME AlInv, AlGone PROVE Unstarted'
  <2>1. /\ alConfig \in AlConfigs /\ alRuns \in Nat
        /\ graspFile = [kind |-> graspFile.kind, rows |-> graspFile.rows] /\ graspFile.rows \in Seq(RowsOnFile)
        /\ \A i \in DOMAIN graspFile.rows : graspFile.rows[i].run <= alRuns
    BY <1>1 DEF AlInv, RunTypes, CacheIsOlder
  <2>2. UNCHANGED <<alConfig, alRuns, graspFile>>
    BY <1>1 DEF AlGone
  <2>3. /\ alPc' = "idle" /\ graspCache' = <<>> /\ alCounter' = 0 /\ alLast' = 0
        /\ alWorld' = AlAll(AlSample(AlHome, 0, 0)) /\ alTarget' = AlAll(AlHome.joint)
        /\ alSeen' = alWorld' /\ alPrevious' = alWorld' /\ alRate' = AlAll(<<>>)
        /\ alAge' = AlAll(0) /\ resetTerminated' = AlAll(FALSE) /\ resetTimeOuts' = AlAll(FALSE)
        /\ alReward' = AlAll(NoReward)
        /\ savedStates' = <<>> /\ cacheSaved' = FALSE /\ targetNotified' = FALSE
        /\ acted' = AlAll(<<0>>) /\ holding' = AlAll(TRUE)
    BY <1>1 DEF AlGone
  <2> QED BY <2>1, <2>2, <2>3, Zenon DEF Unstarted, AlAll, AlSample
<1>2. AlInv /\ AlGone => Unstarted'
  BY <1>1
<1> QED BY <1>2, EachUnbuilt, PTL

LEMMA AlBegins == AlInit => AlInv
<1>1. ASSUME AlInit PROVE Unstarted
  <2>1. AbsentFile.rows = <<>> /\ <<>> \in Seq(RowsOnFile) /\ DOMAIN AbsentFile.rows = {}
        /\ AbsentFile = [kind |-> AbsentFile.kind, rows |-> AbsentFile.rows]
    BY DEF AbsentFile
  <2>2. graspFile = AbsentFile /\ alRuns = 0 /\ alConfig \in AlConfigs
    BY <1>1 DEF AlInit
  <2>3. /\ alConfig \in AlConfigs /\ alRuns \in Nat
        /\ graspFile = [kind |-> graspFile.kind, rows |-> graspFile.rows] /\ graspFile.rows \in Seq(RowsOnFile)
        /\ \A i \in DOMAIN graspFile.rows : graspFile.rows[i].run <= alRuns
    BY <2>1, <2>2
  <2>4. /\ alPc = "idle" /\ graspCache = <<>> /\ alCounter = 0 /\ alLast = 0
        /\ alWorld = AlAll(AlSample(AlHome, 0, 0)) /\ alTarget = AlAll(AlHome.joint)
        /\ alSeen = alWorld /\ alPrevious = alWorld /\ alRate = AlAll(<<>>)
        /\ alAge = AlAll(0) /\ resetTerminated = AlAll(FALSE) /\ resetTimeOuts = AlAll(FALSE)
        /\ alReward = AlAll(NoReward)
        /\ savedStates = <<>> /\ cacheSaved = FALSE /\ targetNotified = FALSE
        /\ acted = AlAll(<<0>>) /\ holding = AlAll(TRUE)
    BY <1>1 DEF AlInit
  <2> QED BY <2>3, <2>4 DEF Unstarted
<1> QED BY <1>1, UnbuiltKeeps

LEMMA AlKept == AlInv /\ [AlNext]_alvars => AlInv'
<1>1. CASE AlGone
  BY <1>1, GoneKeeps
<1>2. ASSUME AlInv, [AlNext]_alvars, ~AlGone PROVE AlInv'
  <2>1. CASE \E c \in AlConfigs : AlBuild(c)
    BY <1>2, <2>1, BuildKeeps
  <2>2. CASE AlStart
    BY <1>2, <2>2, StartKeeps
  <2>3. CASE \E a \in alConfig.actions, poses \in AlPoseBatches : AlStep(a, poses)
    BY <1>2, <2>3, StepKeeps
  <2>4. CASE AlAutoreset
    BY <1>2, <2>4, AutoresetKeeps
  <2>5. CASE \E rows \in SUBSET AlEnv \ {{}} : AlManualReset(rows)
    BY <1>2, <2>5, ManualResetKeeps
  <2>6. CASE \E counter \in 0 .. MaxAlSteps : AlRestore(counter)
    BY <1>2, <2>6, RestoreKeeps
  <2>7. CASE AlClose
    BY <1>2, <2>7, CloseKeeps
  <2>8. CASE UNCHANGED alvars
    <3>1. /\ UNCHANGED <<alConfig, alPc, alRuns, alCounter, alWorld, alTarget, alLast, alSeen, alPrevious, alRate>>
          /\ UNCHANGED <<alAge, resetTerminated, resetTimeOuts, alFrame, alReward, savedStates, cacheSaved,
                         targetNotified, graspFile, graspCache, acted, holding>>
      BY <2>8 DEF alvars, alsnapshotvars, alrecorder
    <3>2. RunTypes' /\ HandTypes' /\ NotStarted' /\ SnapshotCurrent' /\ RatesOfOneLife'
      BY <1>2, <3>1 DEF AlInv, RunTypes, HandTypes, NotStarted, SnapshotCurrent, RatesOfOneLife, RateOfOneLife, Live
    <3>3. TargetsFollow' /\ AgesCount' /\ HeldOrEnded' /\ EndingHasRows'
      BY <1>2, <3>1, Zenon DEF AlInv, TargetsFollow, TargetFollows, AgesCount, AgeCounts, HeldOrEnded, Holds,
                        EndingHasRows, Live, Lasted, AlDone
    <3>4. SavedHeld' /\ SavedOnce' /\ OnlyCollectorsRecord' /\ CacheIsOlder' /\ DrawnFromCache'
      BY <1>2, <3>1, Zenon DEF AlInv, SavedHeld, HeldGrasp, SavedOnce, OnlyCollectorsRecord, CacheIsOlder,
                        DrawnFromCache, FromCache, Live
    <3>5. CacheKept'
      BY <1>2, <3>1, Zenon DEF AlInv, CacheKept, FirstRows
    <3> QED BY <3>2, <3>3, <3>4, <3>5 DEF AlInv
  <2> QED BY <1>2, <2>1, <2>2, <2>3, <2>4, <2>5, <2>6, <2>7, <2>8, Zenon DEF AlNext
<1> QED BY <1>1, <1>2

\* The invariant says what the hand is promised.
LEMMA AlTells == AlInv => AllegroSound
<1> SUFFICES ASSUME AlInv PROVE AllegroSound
  OBVIOUS
<1>1. RotationIsCurrent
  BY DEF AlInv, RunTypes, SnapshotCurrent, RotationIsCurrent, Live
<1>2. RotationOfOneLife
  <2>1. ASSUME Live, NEW e \in AlEnv
        PROVE  /\ alRate[e] # <<>> => alRate[e][2] = alWorld[e]
               /\ \A pair \in {alRate[e], alReward[e].of} \ {<<>>} :
                     pair[1].life = pair[2].life /\ pair[1].step = pair[2].step - 1
    BY <2>1 DEF AlInv, RatesOfOneLife, RateOfOneLife, OfOneStep
  <2> QED BY <2>1 DEF RotationOfOneLife, Live
<1>3. TargetOfThisLife
  <2>1. ASSUME Live, NEW e \in AlEnv
        PROVE  LET reached[n \in 0 .. Len(acted[e]) - 1] ==
                       IF n = 0 THEN acted[e][1]
                       ELSE Clip(reached[n - 1] + alConfig.scale * Clip(acted[e][n + 1], alConfig.rawClip), alConfig.range)
               IN /\ alTarget[e] = reached[Len(acted[e]) - 1]
                  /\ alFrame[e].target = alTarget[e] /\ alFrame[e].of = alWorld[e]
                  /\ alFrame[e].noisy = (alConfig.jointNoise > 0 /\ Len(acted[e]) > 1)
    <3>1. TargetFollows(e) /\ acted[e] \in Seq(Int)
      BY <2>1 DEF AlInv, TargetsFollow, HandTypes
    <3>2. PICK f \in [0 .. Len(acted[e]) - 1 -> Int] :
            Path(f, acted[e], alConfig) /\ alTarget[e] = f[Len(acted[e]) - 1]
      BY <3>1, Zenon DEF TargetFollows, PathLeadsTo
    <3> DEFINE reached == CHOOSE g : Path(g, acted[e], alConfig)
    <3>3. Path(reached, acted[e], alConfig)
      BY <3>2, Zenon
    <3>4. alTarget[e] = reached[Len(acted[e]) - 1]
      <4> HIDE DEF reached
      <4> QED BY <3>1, <3>2, <3>3, PathIsOne DEF TargetFollows
    <3>5. reached = CHOOSE g : g = [n \in 0 .. Len(acted[e]) - 1 |->
                IF n = 0 THEN acted[e][1]
                ELSE Clip(g[n - 1] + alConfig.scale * Clip(acted[e][n + 1], alConfig.rawClip), alConfig.range)]
      BY Zenon DEF Path
    <3> HIDE DEF reached
    <3> QED BY <3>1, <3>4, <3>5, Zenon DEF TargetFollows
  <2> QED BY <2>1, Zenon DEF TargetOfThisLife, Live
<1>4. GraspsWereHeld
  BY Zenon DEF AlInv, SavedHeld, HeldGrasp, GraspsWereHeld
<1>5. CollectionIsWhole
  <2>1. ASSUME NEW i \in DOMAIN savedStates, NEW k \in DOMAIN savedStates, i # k
        PROVE  <<savedStates[i].row, savedStates[i].of.life>> # <<savedStates[k].row, savedStates[k].of.life>>
    BY <2>1 DEF AlInv, SavedOnce, Apart
  <2>2. ASSUME cacheSaved
        PROVE  /\ graspFile.kind = "whole"
               /\ \A i \in DOMAIN graspFile.rows :
                     graspFile.rows[i] = [pose |-> savedStates[i].of.pose, run |-> alRuns]
               /\ targetNotified => Len(graspFile.rows) = alConfig.collectionTarget
    <3>1. graspFile = WholeFile(savedStates) /\ RunTypes /\ savedStates \in Seq(SavedRows)
      BY <2>2 DEF AlInv, CacheKept, WholeFile, RunTypes
    <3>2. targetNotified => alConfig.collectionTarget > 0 /\ Len(savedStates) >= alConfig.collectionTarget
      BY DEF AlInv, CacheKept, OnlyCollectorsRecord
    <3>3. graspFile.kind = "whole"
      BY <3>1 DEF WholeFile
    <3> QED BY <3>1, <3>2, <3>3, WholeTypes
  <2>3. alPc = "complete" => cacheSaved /\ targetNotified
    BY DEF AlInv, CacheKept
  <2> QED BY <2>1, <2>2, <2>3 DEF CollectionIsWhole
<1>6. StartsFromGrasp
  <2>1. ASSUME Live, alConfig.cached, NEW e \in AlEnv
        PROVE  \E i \in DOMAIN graspCache :
                  /\ graspCache[i].run < alRuns
                  /\ acted[e][1] = Clip(graspCache[i].pose.joint, alConfig.range)
    BY <2>1 DEF AlInv, DrawnFromCache, FromCache, CacheIsOlder
  <2> QED BY <2>1 DEF StartsFromGrasp, Live
<1> QED BY <1>1, <1>2, <1>3, <1>4, <1>5, <1>6 DEF AllegroSound

\* For any hands, configurations, poses and bounds: what the terms share of hand and ball is of
\* this control step and this life, targets are where the actions of the life lead, a recorded
\* grasp was held for its episode, a collection is whole and has each episode once, and a hand
\* that starts from a cache starts from a grasp of an earlier run.
THEOREM AllegroStaysSound == AlSpec => []AllegroSound
<1>1. AlInit => AlInv
  BY AlBegins
<1>2. AlInv /\ [AlNext]_alvars => AlInv'
  BY AlKept
<1>3. AlInv => AllegroSound
  BY AlTells
<1> QED BY <1>1, <1>2, <1>3, PTL DEF AlSpec

------------------------------------------------------------------------------
(* What the runs check of a launch.                                           *)

\* LaunchSound: what a resolver returned is there, but for a directory whose download was cut
\* short or is under way beside it, a bot is whole all the same, however many processes
\* resolve and die; and every process of a launch trains, simulates and ends where its
\* configuration says.
THEOREM LaunchStaysSound == AhSpec /\ DpSpec => []LaunchSound
<1>1. AssetsSound /\ PlacementSound => LaunchSound
  BY DEF LaunchSound
<1> QED
  BY <1>1, AssetsStaySound, PlacementStaysSound, PTL

\* PlaybackSound: the window steps and commands as its keys and its task say, and every
\* frame of a film is one captured state under its own overlay.
THEOREM PlaybackStaysSound == IpSpec /\ SnSpec => []PlaybackSound
<1>1. WindowSound /\ FramesAligned => PlaybackSound
  BY DEF PlaybackSound
<1> QED
  BY <1>1, WindowStaysSound, FramesStayAligned, PTL
=============================================================================
