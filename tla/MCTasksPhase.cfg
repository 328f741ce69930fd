SPECIFICATION Spec
CONSTANTS
 e1 = e1
 e2 = e2
 MtEnv = {e1, e2}
 ClipLengths <- MCClipLengths
 Fps = 2
 MtModes = {"clip_start", "adaptive"}
 MaxMtSteps = 3
 MaxMtResets = 1
 LastFrame = 3
 RolloutSteps = 5
 HorizonSteps = 3
 ObservationSteps = 2
 TailSteps = 1
 LandingFrom = 1
 LandingFrames = 2
 AirborneSteps = 1
 Outcomes <- MCOutcomes
 FsEnv = {e1, e2}
 FsConfigs <- MCFsConfigs
 PoseBatches <- MCPoseBatches
 FsActions <- MCFsActions
 DefaultMass <- MCDefaultMass
 MaxFsSteps = 3
 MaxFsResets = 1
 GtEnv = {e1, e2}
 Feet = {1, 2}
 GtConfigs <- MCGtConfigs
 FootBatches <- MCFootBatches
 Velocities <- MCVelocities
 Cycle = 4
 LeftPhases = {0, 3}
 RowSets = {{}, {e1}, {e1, e2}}
 OriginalWeights <- MCOriginalWeights
 MaxGtSteps = 3
 MaxGtResets = 1
 TrEnv = {e1, e2}
 TrRows = 3
 TrTypes = 2
 TrCols = 1
 TrCell = 2
 TrBorder = 1
 TrBuffer = 1
 TrPoses <- MCTrPoses
 TrMoves <- MCTrMoves
 TrReach <- MCTrReach
 TrDraws <- MCTrDraws
 TrRowSets = {{}, {e1}}
 TrMaxSteps = 3
 TrMaxResets = 1
INVARIANTS PhasesInCycle
CHECK_DEADLOCK FALSE
