-------------------------------- MODULE Terrain --------------------------------
(***************************************************************************)
(* tasks/locomotion/common: the rough-terrain terms of the walking robots. *)
(* A terrain is a grid of cells, rows by difficulty; the spawn manager     *)
(* keeps a row's level and column and moves the level when an episode      *)
(* ends, the reset term places the robot on its cell, a truncation term    *)
(* ends episodes that leave the map, and the critic reads a height scan.   *)
(*                                                                         *)
(* Lengths are small integers, angles are left out (the manager's reset    *)
(* passes no support points, so a yaw turns nothing), and a robot moves    *)
(* by any of TrMoves in a control step.  A state read is cached for the rest  *)
(* of its read scope; the scanner always asks the simulator.               *)
(***************************************************************************)
EXTENDS Integers, FiniteSets

CONSTANTS TrEnv,
          TrRows, TrTypes,      \* num_rows; the number of sub-terrains
          TrCols,               \* num_cols of a terrain without a curriculum
          TrCell, TrBorder,     \* size of a cell, border_width
          TrBuffer,             \* distance_buffer of the truncation term
          TrPoses, TrMoves,     \* displacements of the rows, drawn by a reset and made by a step
          TrReach,              \* the scan's offsets
          TrRowSets,            \* the sets of rows a caller or another term may pick
          TrDraws,              \* the commands drawn: velocities and the world-frame rows
          TrMaxSteps, TrMaxResets  \* bounds of the model

TrPoint == [x : Int, y : Int]

\* The middle of a cell is a length.  The reach of the scan is checked against
\* nothing when the terms are built: that it is within distance_buffer, and on the
\* map wherever a robot is put down, is what the shipped terrain and scan have
\* (a reach of .8, a buffer of 3., cells of 8 and a border of 20).
ASSUME TrAssumption ==
    /\ TrRows \in Nat \ {0} /\ TrTypes \in Nat \ {0} /\ TrCols \in Nat \ {0}
    /\ TrCell \in Nat \ {0} /\ TrCell % 2 = 0 /\ TrBorder \in Nat /\ TrBuffer \in Nat
    /\ TrPoses \subseteq [TrEnv -> TrPoint] /\ TrMoves \subseteq [TrEnv -> TrPoint] /\ TrReach \subseteq TrPoint
    /\ TrRowSets \subseteq SUBSET TrEnv
    /\ TrDraws \subseteq [velocity : [TrEnv -> TrPoint], world : SUBSET TrEnv]
    /\ TrMaxSteps \in Nat /\ TrMaxResets \in Nat

ASSUME TrReachAssumption ==
    \A off \in TrReach :
        /\ -TrBuffer <= off.x /\ off.x <= TrBuffer /\ -TrBuffer <= off.y /\ off.y <= TrBuffer
        /\ \A p \in TrPoses, e \in TrEnv :
               /\ -(TrCell + 2 * TrBorder) <= 2 * (p[e].x + off.x) /\ 2 * (p[e].x + off.x) <= TrCell + 2 * TrBorder
               /\ -(TrCell + 2 * TrBorder) <= 2 * (p[e].y + off.y) /\ 2 * (p[e].y + off.y) <= TrCell + 2 * TrBorder

VARIABLES
    trPhase,                    \* build, idle, step, settle, spawn, observe or raised
    trCurriculum,               \* generator.curriculum
    trSteps, trResets,
    trIds, trAuto,              \* the rows under reset; whether inside a step
    level, typeCol,             \* TerrainSpawnManager.levels, .type_cols
    startAt, hasStarted,        \* _episode_start_xyz, _has_started
    trPos, trHeight,            \* the simulator's root position
    trRead,                     \* root_link_pos_w of the open read scope, by row
    trDone,                     \* env.reset_buf
    scan,                       \* the critic's observation
    command, worldCommand, worldEnv,
    spawnAt, earnedLevels, justReset, again  \* ghosts

trvars == <<trPhase, trCurriculum, trIds, trAuto, trSteps, trResets, level, typeCol, startAt, hasStarted, trPos, trHeight,
            trRead, trDone, scan, command, worldCommand, worldEnv, spawnAt, earnedLevels, justReset, again>>

Origin0 == [x |-> 0, y |-> 0]
Plus(p, q) == [x |-> p.x + q.x, y |-> p.y + q.y]
TrAbs(n) == IF n < 0 THEN -n ELSE n
TrSquare(p) == p.x * p.x + p.y * p.y
Between(lo, n, hi) == IF n < lo THEN lo ELSE IF n > hi THEN hi ELSE n

------------------------------------------------------------------------------
(* Configuration *)

\* A configured number is [kind, n]; "real" is a finite one.
RealAccepted(v, minimum, strict) ==
    v.kind = "real" /\ IF strict THEN v.n > minimum ELSE v.n >= minimum

PairAccepted(pair) == pair[1].kind = "real" /\ pair[2].kind = "real" /\ pair[1].n <= pair[2].n

PoseAxes == {"x", "y", "yaw"}
PoseAccepted(ranges) == DOMAIN ranges = PoseAxes /\ \A a \in PoseAxes : PairAccepted(ranges[a])

TerrainCols(curriculum) == IF curriculum THEN TrTypes ELSE TrCols

\* Twice _half_width and _half_height.
Width == TrRows * TrCell + 2 * TrBorder
Height(curriculum) == TerrainCols(curriculum) * TrCell + 2 * TrBorder

BufferAccepted(curriculum) == 2 * TrBuffer < Width /\ 2 * TrBuffer < Height(curriculum)

\* The event manager is built first: the curriculum term finds the context the
\* reset term has made, or raises.
CurriculumFindsContext(terms) == "curriculum" \in terms => "reset" \in terms

\* The terms' constructors, and the spawn manager's.
TermsAccepted(terms, curriculum, promote, ranges) ==
    /\ "reset" \in terms => /\ RealAccepted(promote, 0, FALSE) /\ PoseAccepted(ranges)
                            /\ curriculum => TrRows >= 2
    /\ CurriculumFindsContext(terms)
    /\ BufferAccepted(curriculum)

------------------------------------------------------------------------------
(* The grid *)

\* External: the generator centres the grid, and heights rise away from its middle.
CellOrigin(l, c) ==
    [x |-> ((2 * l - TrRows + 1) * TrCell) \div 2,
     y |-> ((2 * c - TerrainCols(trCurriculum) + 1) * TrCell) \div 2]
SurfaceHeight(p) == TrAbs(p.x)

SpawnHeightMargin == 1

\* _sample_spawn_required_base_height for the default support point, plus margin.
SpawnHeight(xy) == SurfaceHeight(xy) + SpawnHeightMargin

\* apply_spawn: the drawn displacement, on the cell of the row's level and column.
SpawnPoint(e, displacement) == Plus(CellOrigin(level[e], typeCol[e]), displacement)

OutOfBounds(p) ==
    \/ 2 * TrAbs(p.x) > Width - 2 * TrBuffer
    \/ 2 * TrAbs(p.y) > Height(trCurriculum) - 2 * TrBuffer

------------------------------------------------------------------------------
(* Levels *)

\* promote_frac and cycle_top_frac of 1/2, demote_frac of 1/4, compared squared.
Promoted(walked) == 4 * walked > TrCell * TrCell
Demoted(walked) == 16 * walked < TrCell * TrCell
CycleRows == Between(0, TrRows \div 2, TrRows - 1) .. TrRows - 1

\* The levels a settled row may have next: a row past the top is drawn again.
NextLevels(l, walked) ==
    IF Promoted(walked) THEN IF l + 1 >= TrRows THEN CycleRows ELSE {l + 1}
    ELSE IF Demoted(walked) THEN {Between(0, l - 1, TrRows - 1)}
    ELSE {l}

Walked(from, to) == TrSquare([x |-> to.x - from.x, y |-> to.y - from.y])

\* Mutant: every row under reset is settled, done or not.
SettledUnderReset == trIds \cap hasStarted

\* Settled are the rows under reset that are done and were started once.
Settled == (trIds \cap trDone) \cap hasStarted

------------------------------------------------------------------------------
(* Observations, actions and commands *)

\* A read inside a scope is the first read's value.
RootPosition(e) == IF trRead[e] = {} THEN [at |-> trPos[e], z |-> trHeight[e]]
                   ELSE CHOOSE r \in trRead[e] : TRUE

ScanAt(e, off) == SurfaceHeight(Plus(trPos[e], off))

\* vertical_offset 1, scale 5.
HeightScan(e) == [off \in TrReach |-> 5 * Between(-1, RootPosition(e).z - 1 - ScanAt(e, off), 1)]

DeadZone == 1
StillBelow(v) == IF TrSquare(v) > DeadZone * DeadZone THEN v ELSE Origin0

\* _resample_command: the base term's draw, then the dead zone.
DrawnCommand(v) == StillBelow(v)

------------------------------------------------------------------------------
(* Steps and resets of the environment, as far as the terms take part *)

TrInit ==
    /\ trPhase = "build" /\ trCurriculum \in BOOLEAN
    /\ trIds = {} /\ trAuto = FALSE /\ trSteps = 0 /\ trResets = 0
    /\ level = [e \in TrEnv |-> 0] /\ typeCol = [e \in TrEnv |-> 0]
    /\ startAt = [e \in TrEnv |-> Origin0] /\ hasStarted = {}
    /\ trPos = [e \in TrEnv |-> Origin0] /\ trHeight = [e \in TrEnv |-> 0]
    /\ trRead = [e \in TrEnv |-> {}] /\ trDone = {}
    /\ scan = [e \in TrEnv |-> [off \in TrReach |-> 0]]
    /\ command = [e \in TrEnv |-> Origin0] /\ worldCommand = [e \in TrEnv |-> Origin0] /\ worldEnv = {}
    /\ spawnAt = [e \in TrEnv |-> Origin0] /\ earnedLevels = [e \in TrEnv |-> {0}]
    /\ justReset = {} /\ again = {}

gridvars == <<level, typeCol, startAt, hasStarted>>
bodyvars == <<trPos, trHeight>>
commandvars == <<command, worldCommand, worldEnv>>
trghosts == <<spawnAt, earnedLevels, justReset, again>>

\* Construction: levels start at zero under a curriculum, anywhere without.
Build(terms, promote, ranges, levels, cols) ==
    /\ trPhase = "build"
    /\ IF TermsAccepted(terms, trCurriculum, promote, ranges) /\ terms = {"reset", "curriculum"}
       THEN /\ levels \in [TrEnv -> IF trCurriculum THEN {0} ELSE 0 .. TrRows - 1]
            /\ cols \in [TrEnv -> 0 .. TerrainCols(trCurriculum) - 1]
            /\ level' = levels /\ typeCol' = cols
            /\ earnedLevels' = [e \in TrEnv |-> {levels[e]}]
            /\ trIds' = TrEnv /\ trPhase' = "settle"
       ELSE /\ trPhase' = "raised"
            /\ UNCHANGED <<trIds, level, typeCol, earnedLevels>>
    /\ UNCHANGED <<trCurriculum, trAuto, trSteps, trResets, startAt, hasStarted, bodyvars, trRead, trDone, scan, commandvars,
                   spawnAt, justReset, again>>

\* Physics moves every row over the ground; a read scope opens.
TerrainStep(moved) ==
    /\ trPhase = "idle" /\ trSteps < TrMaxSteps
    /\ trSteps' = trSteps + 1
    /\ trPos' = [e \in TrEnv |-> Plus(trPos[e], moved[e])]
    /\ trHeight' = [e \in TrEnv |-> SpawnHeight(trPos'[e])]
    /\ trRead' = [e \in TrEnv |-> {}]
    /\ justReset' = {}
    /\ trPhase' = "terminate"
    /\ UNCHANGED <<trCurriculum, trIds, trAuto, trResets, gridvars, trDone, scan, commandvars, spawnAt, earnedLevels, again>>

\* The environment cannot see what an event changed and drops every cached read.
ReadsAfterEvents(reads) == [e \in TrEnv |-> {}]

\* The truncation term reads the root positions, other terms end any rows, and
\* interval events may lift rows.
Terminate(other, lifted) ==
    /\ trPhase = "terminate"
    /\ trDone' = other \cup {e \in TrEnv : OutOfBounds(RootPosition(e).at)}
    /\ trHeight' = [e \in TrEnv |-> IF e \in lifted THEN trHeight[e] + 1 ELSE trHeight[e]]
    /\ trRead' = ReadsAfterEvents([e \in TrEnv |-> {RootPosition(e)}])
    /\ earnedLevels' = [e \in TrEnv |-> IF e \in trDone' /\ trCurriculum
                                  THEN UNION {NextLevels(l, Walked(spawnAt[e], trPos[e])) : l \in earnedLevels[e]}
                                  ELSE earnedLevels[e]]
    /\ trPhase' = "stepObserve"
    /\ UNCHANGED <<trCurriculum, trIds, trAuto, trSteps, trResets, gridvars, trPos, scan, commandvars, spawnAt, justReset, again>>

\* A caller resets some rows; nothing clears reset_buf of a row the step has
\* reset itself.
ResetTerrainRows(rows) ==
    /\ trPhase = "idle" /\ rows # {} /\ trResets < TrMaxResets
    /\ trResets' = trResets + 1
    /\ trIds' = rows /\ trAuto' = FALSE
    /\ again' = again \cup (rows \cap trDone)
    /\ trPhase' = "settle"
    /\ UNCHANGED <<trCurriculum, trSteps, gridvars, bodyvars, trRead, trDone, scan, commandvars, spawnAt, earnedLevels, justReset>>

\* RoughTerrainCurriculum: update_on_done with the rows' present positions.
Settle(levels) ==
    /\ trPhase = "settle"
    /\ levels \in [Settled -> 0 .. TrRows - 1]
    /\ \A e \in Settled :
           levels[e] \in IF trCurriculum THEN NextLevels(level[e], Walked(startAt[e], RootPosition(e).at)) ELSE {level[e]}
    /\ level' = [e \in TrEnv |-> IF e \in Settled THEN levels[e] ELSE level[e]]
    /\ trPhase' = "spawn"
    /\ UNCHANGED <<trCurriculum, trIds, trAuto, trSteps, trResets, typeCol, startAt, hasStarted, bodyvars, trRead, trDone, scan,
                   commandvars, trghosts>>

\* RoughTerrainReset: a pose on the cell, at the surface's height there, and the
\* episode's start; a sampler that returns NaN raises after the levels have moved.
Spawn(pose, sampled) ==
    /\ trPhase = "spawn"
    /\ LET at(e) == SpawnPoint(e, pose[e])
       IN IF sampled
          THEN /\ trPos' = [e \in TrEnv |-> IF e \in trIds THEN at(e) ELSE trPos[e]]
               /\ trHeight' = [e \in TrEnv |-> IF e \in trIds THEN SpawnHeight(at(e)) ELSE trHeight[e]]
               /\ startAt' = [e \in TrEnv |-> IF e \in trIds THEN at(e) ELSE startAt[e]]
               /\ hasStarted' = hasStarted \cup trIds
               /\ spawnAt' = [e \in TrEnv |-> IF e \in trIds THEN at(e) ELSE spawnAt[e]]
               /\ justReset' = justReset \cup trIds
               /\ trPhase' = "resetObserve"
          ELSE /\ trPhase' = "raised"
               /\ UNCHANGED <<bodyvars, startAt, hasStarted, spawnAt, justReset>>
    /\ trRead' = [e \in TrEnv |-> {}]
    /\ UNCHANGED <<trCurriculum, trIds, trAuto, trSteps, trResets, level, typeCol, trDone, scan, commandvars, earnedLevels, again>>

\* Rows whose command is resampled draw one; a world-frame command is turned back
\* out of worldCommand, which the base term set before the dead zone.
Command(rows, drawn, world) ==
    /\ worldEnv' = (worldEnv \ rows) \cup (world \cap rows)
    /\ worldCommand' = [e \in TrEnv |-> IF e \in rows THEN drawn[e] ELSE worldCommand[e]]
    /\ command' = [e \in TrEnv |-> IF e \in worldEnv' THEN worldCommand'[e]
                                   ELSE IF e \in rows THEN DrawnCommand(drawn[e]) ELSE command[e]]

\* The observation of every row; the read scope ends, and rows that are done are
\* reset.  Commands are resampled when rows are reset only: their timers are
\* CommandTerms' matter.
StepObserve ==
    /\ trPhase = "stepObserve"
    /\ scan' = [e \in TrEnv |-> HeightScan(e)]
    /\ trRead' = [e \in TrEnv |-> {}]
    /\ trIds' = trDone /\ trAuto' = (trDone # {})
    /\ trPhase' = IF trDone = {} THEN "idle" ELSE "settle"
    /\ UNCHANGED <<trCurriculum, trSteps, trResets, gridvars, bodyvars, trDone, commandvars, trghosts>>

\* The commands and observations of the rows under reset.  A reset a caller asked
\* for clears their reset_buf.
ResetObserve(drawn, world) ==
    /\ trPhase = "resetObserve"
    /\ Command(trIds, drawn, world)
    /\ scan' = [e \in TrEnv |-> IF e \in trIds THEN HeightScan(e) ELSE scan[e]]
    /\ trDone' = IF trAuto THEN trDone ELSE trDone \ trIds
    /\ trIds' = {} /\ trAuto' = FALSE /\ trPhase' = "idle"
    /\ UNCHANGED <<trCurriculum, trSteps, trResets, gridvars, bodyvars, trRead, trghosts>>

Numbers == {[kind |-> "real", n |-> 1], [kind |-> "real", n |-> -1], [kind |-> "nan", n |-> 0]}
PoseRanges == {[a \in PoseAxes |-> <<p, q>>] : p \in Numbers, q \in Numbers} \cup {[a \in {"x"} |-> <<p, p>>] : p \in Numbers}

TrNext ==
    \/ \E terms \in SUBSET {"reset", "curriculum"}, promote \in Numbers, ranges \in PoseRanges,
          levels \in [TrEnv -> 0 .. TrRows - 1], cols \in [TrEnv -> 0 .. TerrainCols(trCurriculum) - 1] :
           Build(terms, promote, ranges, levels, cols)
    \/ \E moved \in TrMoves : TerrainStep(moved)
    \/ \E other \in TrRowSets, lifted \in {{}, TrEnv} : Terminate(other, lifted)
    \/ StepObserve
    \/ \E rows \in TrRowSets : ResetTerrainRows(rows)
    \/ \E levels \in [Settled -> 0 .. TrRows - 1] : Settle(levels)
    \/ \E pose \in TrPoses, sampled \in BOOLEAN : Spawn(pose, sampled)
    \/ \E draw \in TrDraws : ResetObserve(draw.velocity, draw.world)

TrSpec == TrInit /\ [][TrNext]_trvars

------------------------------------------------------------------------------
(* Properties *)

TrTypeOK ==
    /\ trPhase \in {"build", "idle", "terminate", "stepObserve", "settle", "spawn", "resetObserve", "raised"}
    /\ level \in [TrEnv -> 0 .. TrRows - 1] /\ typeCol \in [TrEnv -> 0 .. TerrainCols(trCurriculum) - 1]
    /\ hasStarted \subseteq TrEnv /\ trDone \subseteq TrEnv /\ trIds \subseteq TrEnv

\* A level is what the row's completed episodes have earned, each settled once by
\* the distance between where the robot was spawned in it and where it ended, for
\* every row no caller has reset again right after the step that reset it.
LevelsEarned ==
    trPhase = "idle" => \A e \in TrEnv \ again : level[e] \in earnedLevels[e]

\* RoughTerrainCurriculum's docstring (rough_manager_terms.py:343) has it settle
\* completed episodes: a reset asked for by a caller settles no running episode.
SettlesCompletedEpisodes ==
    trPhase = "idle" => \A e \in TrEnv : level[e] \in earnedLevels[e]

\* A robot put down by a reset is on the cell of its level as just settled, above
\* the ground where it stands, and the distance walked counts from there.
SpawnedOnItsCell ==
    trPhase = "idle" => \A e \in TrEnv :
        /\ startAt[e] = spawnAt[e]
        /\ e \in justReset => /\ \E p \in TrPoses : trPos[e] = SpawnPoint(e, p[e])
                              /\ trHeight[e] > SurfaceHeight(trPos[e])

\* No episode goes on off the map: whatever a robot did, between steps it stands
\* where every point of its scan is on the terrain.
ScanStaysOnTheMap ==
    trPhase = "idle" => \A e \in TrEnv, off \in TrReach :
        LET p == Plus(trPos[e], off)
        IN 2 * TrAbs(p.x) <= Width /\ 2 * TrAbs(p.y) <= Height(trCurriculum)

\* The scan and the height it is taken from are of one moment, through events that
\* lift the robot and resets that move it.
ScanOfThisPose ==
    trPhase = "idle" => \A e \in TrEnv, off \in TrReach :
        scan[e][off] = 5 * Between(-1, trHeight[e] - 1 - SurfaceHeight(Plus(trPos[e], off)), 1)

\* No robot is commanded to creep: a planar command is zero or beyond the dead
\* zone.  Rows commanded in the world frame are excepted: their command is turned
\* back from the sample the dead zone was not applied to.
CommandsClearDeadZone ==
    trPhase = "idle" => \A e \in TrEnv \ worldEnv : command[e] = Origin0 \/ TrSquare(command[e]) > DeadZone * DeadZone

\* All of these, of RoughTerrainReset, RoughTerrainCurriculum, RoughHeightScan and
\* RoughVelocityCommand together.
TerrainSound ==
    /\ TrTypeOK /\ LevelsEarned /\ SpawnedOnItsCell /\ ScanStaysOnTheMap /\ ScanOfThisPose /\ CommandsClearDeadZone
=============================================================================
