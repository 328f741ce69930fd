SPECIFICATION MCSpec
CONSTANTS
    Env = {e1, e2}
    MaxLen = 3
    CmdMax = 2
    PushMax = 2
    MinGap = 2
    MaxOffset = 1
    MaxSteps = 4
    MaxResets = 2
    ObEnv = {e1, e2}
    Configs <- MCConfigs
    Zero = zero
    Invalid = invalid
    NoRow = norow
    ObMaxSteps = 3
    ObMaxResets = 2
SYMMETRY MCSymmetry
CHECK_DEADLOCK FALSE
INVARIANTS EpisodeAccounting ObservationsCurrent
PROPERTIES BuffersOfThisEpisode
