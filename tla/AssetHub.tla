-------------------------------- MODULE AssetHub --------------------------------
(***************************************************************************)
(* assets/hub.py: several processes (ranks, collectors, a shell) resolve   *)
(* the assets they need under one assets root and download from the hub    *)
(* what they do not find.  A file is looked for by itself; a directory by  *)
(* one marker file in it; a native bot by its directory's marker first and *)
(* all its required files afterwards, or in a checkout the user names.     *)
(*                                                                         *)
(* A path is [base, file]: absolute under the root, absolute elsewhere, or *)
(* relative.  The hub is external: a download of a directory brings its    *)
(* missing files in any order and may fail or be killed between any two.   *)
(***************************************************************************)
EXTENDS Naturals, Sequences, FiniteSets

CONSTANTS AhProc, AhDirs,
          FilesOf,               \* the files the hub holds of a directory
          MarkerOf,
          RobotSpecs,            \* ROBOT_ASSET_SPECS: the directories of a robot, in order
          BotDirs,               \* SUPERDEX_ROBOT_ASSET_SPECS: the bots' directories
          AhMotions,             \* single files on the hub
          AhRequests,            \* what processes ask for
          MaxAhRequests          \* bound of the model

AhPaths == [base : {"root", "elsewhere", "relative"}, file : AhMotions]

\* No directory of the tables lies in another, so that a marker is a file of its own
\* directory alone; a bot that is not registered is any other directory.
ASSUME AhAssumption ==
    /\ \A d \in AhDirs : /\ MarkerOf[d] \in FilesOf[d] /\ MarkerOf[d] \notin AhMotions
                         /\ \A e \in AhDirs \ {d} : MarkerOf[d] \notin FilesOf[e]
    /\ BotDirs \subseteq AhDirs
    /\ RobotSpecs \in [DOMAIN RobotSpecs -> Seq(AhDirs)]
    /\ \A r \in AhRequests :
        \/ r.kind = "files" /\ r.paths \in Seq(AhPaths)
        \/ r.kind = "robots" /\ r.first \in Seq(STRING) /\ r.second \in Seq(STRING)
        \/ r.kind = "scene" /\ r.dir \in AhDirs
        \/ r.kind = "bot" /\ r.bot \in AhDirs /\ r.inside \in BOOLEAN

VARIABLES
    assets,                        \* the files under the assets root
    here, checkout,              \* files outside the root, the working directory's; the checkout's
    hubInstalled,
    mirror,                      \* whether HF_ENDPOINT names a mirror
    ahAt,                        \* where a process is
    ahRequest, ahTodo,           \* its request; the targets it has still to resolve
    endpoint,                    \* HF_ENDPOINT as the process has it
    ahCount,
    promised, cut, beside        \* ghosts

ahvars == <<assets, here, checkout, hubInstalled, mirror, ahAt, ahRequest, ahTodo, endpoint, ahCount, promised, cut, beside>>
ahenv == <<here, checkout, hubInstalled, mirror>>

DirTarget(d) == [kind |-> "dir", name |-> d]
FileTarget(f) == [kind |-> "file", name |-> f]
NoRequest == [kind |-> "none"]
FilesOfTarget(t) == IF t.kind = "dir" THEN FilesOf[t.name] ELSE {t.name}

------------------------------------------------------------------------------
(* What a request needs *)

Concat(a, b) == a \o b

\* _robot_name_from_path: the first robots/<name> of the path that is registered.
RobotsIn(path) == {i \in 1 .. Len(path) - 1 : path[i] = "robots" /\ path[i + 1] \in DOMAIN RobotSpecs}
RobotOf(path) == path[(CHOOSE i \in RobotsIn(path) : \A j \in RobotsIn(path) : i <= j) + 1]

\* ensure_robot_assets_for_paths: paths outside the tree and unknown robots are ignored.
DirsOfPath(path) ==
    IF RobotsIn(path) = {} THEN <<>>
    ELSE [i \in 1 .. Len(RobotSpecs[RobotOf(path)]) |-> DirTarget(RobotSpecs[RobotOf(path)][i])]

\* _resolve_single: found where the process runs, found under the root, or
\* downloaded; an absolute path elsewhere cannot be downloaded.
FoundFile(path) ==
    \/ path.base # "root" /\ path.file \in here
    \/ path.base # "elsewhere" /\ path.file \in assets
Refused(path) == path.base = "elsewhere"

ConfiguredRoot(request) == request.root # "unset"

\* _resolve_superdex_under_root: the bot must lie inside the checkout, be
\* registered and complete; nothing is downloaded.
CheckoutAccepts(request) ==
    request.inside /\ request.bot \in BotDirs /\ FilesOf[request.bot] \subseteq checkout

\* The targets of a request, in order; a bot's required files are checked after.
TargetsOf(request) ==
    CASE request.kind = "files" -> [i \in 1 .. Len(request.paths) |-> FileTarget(request.paths[i].file)]
      [] request.kind = "robots" -> Concat(DirsOfPath(request.first), DirsOfPath(request.second))
      [] request.kind = "scene" -> <<DirTarget(request.dir)>>
      [] request.kind = "bot" -> <<DirTarget(request.bot)>>

\* Refused before anything is looked for.
RefusedAtOnce(request) ==
    request.kind = "bot" /\ IF ConfiguredRoot(request) THEN ~CheckoutAccepts(request)
                            ELSE ~request.inside \/ request.bot \notin BotDirs

\* A directory is there if its marker is.
Found(t) == IF t.kind = "dir" THEN MarkerOf[t.name] \in assets ELSE t.name \in assets \cup here

PathOf(p) == ahRequest[p].paths[Len(ahRequest[p].paths) - Len(ahTodo[p]) + 1]

------------------------------------------------------------------------------
(* Resolution, one step at a time *)

AhInit ==
    /\ assets \in {{}, AhMotions} /\ here \in {{}, AhMotions} /\ hubInstalled \in BOOLEAN /\ mirror \in BOOLEAN
    /\ checkout \in {{}} \cup {FilesOf[d] : d \in BotDirs}
    /\ ahAt = [p \in AhProc |-> "idle"] /\ ahRequest = [p \in AhProc |-> NoRequest]
    /\ ahTodo = [p \in AhProc |-> <<>>]
    /\ endpoint = [p \in AhProc |-> IF mirror THEN "mirror" ELSE "unset"]
    /\ ahCount = 0
    /\ promised = [p \in AhProc |-> {}] /\ cut = {} /\ beside = [p \in AhProc |-> {}]

Ask(p, request) ==
    /\ ahAt[p] \in {"idle", "returned", "raised"} /\ ahCount < MaxAhRequests
    /\ ahCount' = ahCount + 1
    /\ ahRequest' = [ahRequest EXCEPT ![p] = request]
    /\ LET skips == request.kind = "bot" /\ ConfiguredRoot(request)
       IN /\ ahTodo' = [ahTodo EXCEPT ![p] = IF skips THEN <<>> ELSE TargetsOf(request)]
          /\ promised' = [promised EXCEPT ![p] = {}]
    /\ beside' = [beside EXCEPT ![p] = {}]
    /\ ahAt' = [ahAt EXCEPT ![p] = IF RefusedAtOnce(request) THEN "raised" ELSE "resolve"]
    /\ UNCHANGED <<assets, ahenv, endpoint, cut>>

Advance(p) ==
    /\ ahTodo' = [ahTodo EXCEPT ![p] = Tail(@)]
    /\ ahAt' = [ahAt EXCEPT ![p] = "resolve"]

\* The targets another process is downloading, or was when it was killed.
UnderWay(p) == {Head(ahTodo[q]) : q \in {r \in AhProc \ {p} : ahAt[r] \in {"download", "retry"}}}

\* Found on the fast path: the target joins what this call will have promised.
FindLocal(p) ==
    /\ ahAt[p] = "resolve" /\ ahTodo[p] # <<>>
    /\ LET t == Head(ahTodo[p])
       IN /\ IF t.kind = "file" THEN FoundFile(PathOf(p)) ELSE Found(t)
          /\ promised' = [promised EXCEPT ![p] = @ \cup {t}]
          /\ beside' = [beside EXCEPT ![p] = @ \cup ({t} \cap UnderWay(p))]
    /\ Advance(p)
    /\ UNCHANGED <<assets, ahenv, ahRequest, endpoint, ahCount, cut>>

\* Not found: an absolute path elsewhere, or a missing huggingface_hub, raises.
BeginDownload(p) ==
    /\ ahAt[p] = "resolve" /\ ahTodo[p] # <<>>
    /\ LET t == Head(ahTodo[p])
       IN /\ ~IF t.kind = "file" THEN FoundFile(PathOf(p)) ELSE Found(t)
          /\ ahAt' = [ahAt EXCEPT ![p] = IF ~hubInstalled \/ (t.kind = "file" /\ Refused(PathOf(p)))
                                          THEN "raised" ELSE "download"]
    /\ UNCHANGED <<assets, ahenv, ahRequest, ahTodo, endpoint, ahCount, promised, cut, beside>>

FileArrives(p, f) ==
    /\ ahAt[p] \in {"download", "retry"}
    /\ f \in FilesOfTarget(Head(ahTodo[p])) \ assets
    /\ assets' = assets \cup {f}
    /\ UNCHANGED <<ahenv, ahAt, ahRequest, ahTodo, endpoint, ahCount, promised, cut, beside>>

\* Mutant: the retry's endpoint stays.
EndpointKept(p) == endpoint[p]

\* The finally of a retry puts HF_ENDPOINT back.
EndpointAfter(p) == IF ahAt[p] = "retry" THEN "mirror" ELSE endpoint[p]

DownloadEnds(p) ==
    /\ ahAt[p] \in {"download", "retry"}
    /\ FilesOfTarget(Head(ahTodo[p])) \subseteq assets
    /\ promised' = [promised EXCEPT ![p] = @ \cup {Head(ahTodo[p])}]
    /\ endpoint' = [endpoint EXCEPT ![p] = EndpointAfter(p)]
    /\ Advance(p)
    /\ UNCHANGED <<assets, ahenv, ahRequest, ahCount, cut, beside>>

\* A failed mirror is followed by the official endpoint, once.
DownloadFails(p) ==
    /\ ahAt[p] \in {"download", "retry"}
    /\ LET again == ahAt[p] = "download" /\ endpoint[p] = "mirror"
       IN /\ ahAt' = [ahAt EXCEPT ![p] = IF again THEN "retry" ELSE "raised"]
          /\ endpoint' = [endpoint EXCEPT ![p] = IF again THEN "official" ELSE EndpointAfter(p)]
    /\ cut' = cut \cup {Head(ahTodo[p])}
    /\ UNCHANGED <<assets, ahenv, ahRequest, ahTodo, ahCount, promised, beside>>

\* The process is killed; one started in its place reads HF_ENDPOINT afresh.
KilledResolving(p) ==
    /\ ahAt[p] \in {"resolve", "download", "retry"}
    /\ cut' = IF ahAt[p] = "resolve" THEN cut ELSE cut \cup {Head(ahTodo[p])}
    /\ ahAt' = [ahAt EXCEPT ![p] = "idle"]
    /\ ahTodo' = [ahTodo EXCEPT ![p] = <<>>]
    /\ endpoint' = [endpoint EXCEPT ![p] = IF mirror THEN "mirror" ELSE "unset"]
    /\ promised' = [promised EXCEPT ![p] = {}] /\ beside' = [beside EXCEPT ![p] = {}]
    /\ UNCHANGED <<assets, ahenv, ahRequest, ahCount>>

\* _check_superdex_asset_completeness.
BotComplete(p) ==
    ahRequest[p].kind = "bot" /\ ~ConfiguredRoot(ahRequest[p]) => FilesOf[ahRequest[p].bot] \subseteq assets

ReturnAssets(p) ==
    /\ ahAt[p] = "resolve" /\ ahTodo[p] = <<>>
    /\ ahAt' = [ahAt EXCEPT ![p] = IF BotComplete(p) THEN "returned" ELSE "raised"]
    /\ UNCHANGED <<assets, ahenv, ahRequest, ahTodo, endpoint, ahCount, promised, cut, beside>>

AhNext ==
    \E p \in AhProc :
        \/ \E request \in AhRequests : Ask(p, request)
        \/ FindLocal(p) \/ BeginDownload(p)
        \/ \E f \in (UNION {FilesOf[d] : d \in AhDirs}) \cup AhMotions : FileArrives(p, f)
        \/ DownloadEnds(p) \/ DownloadFails(p) \/ KilledResolving(p) \/ ReturnAssets(p)

AhSpec == AhInit /\ [][AhNext]_ahvars

------------------------------------------------------------------------------
(* Properties *)

OnDisk(t) == FilesOfTarget(t) \subseteq assets \cup here

\* What a call returns is there, whole, except a directory some process failed or
\* was killed downloading, and one that another process was downloading just then:
\* the marker, one file of the directory, may be there before the others.
WholeUnlessCut ==
    \A p \in AhProc : ahAt[p] = "returned" => \A t \in promised[p] \ (cut \cup beside[p]) : OnDisk(t)

\* A native bot is never handed to physics incomplete, whatever was cut short.
BotsWhole ==
    \A p \in AhProc : ahAt[p] = "returned" /\ ahRequest[p].kind = "bot" =>
        FilesOf[ahRequest[p].bot] \subseteq IF ConfiguredRoot(ahRequest[p]) THEN checkout ELSE assets

\* A call that ends, either way, leaves HF_ENDPOINT as the user set it, and the
\* official endpoint is only tried where a mirror was configured and failed.
EndpointPutBack ==
    \A p \in AhProc : /\ endpoint[p] = "official" => ahAt[p] = "retry" /\ mirror
                      /\ ahAt[p] # "retry" => endpoint[p] = IF mirror THEN "mirror" ELSE "unset"

\* Together: _resolve_single, _resolve_snapshot_dir and their fallback.
AssetsSound == WholeUnlessCut /\ BotsWhole /\ EndpointPutBack
=============================================================================
