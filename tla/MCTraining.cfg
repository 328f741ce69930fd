SPECIFICATION MCSpec
CONSTANTS
    s1 = s1
    s2 = s2
    Sources <- MCSources
    Uniform = 2
    MinSteps = 1
    MaxSteps = 3
    MaxChange = 1
    Interval = 2
    SaveEvery = 2
    Updates = 2
    MaxIterations = 4
    MaxDones = 1
    MaxLaunches = 2
    j1 = j1
    j2 = j2
    Jobs = {j1, j2}
    Settings <- MCSettings
    MaxSecond = 2
    JobIterations = 2
    SaveInterval = 2
SYMMETRY MCSymmetry
CHECK_DEADLOCK FALSE
INVARIANTS ResumeSound RunsSound
