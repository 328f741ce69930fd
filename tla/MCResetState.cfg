SPECIFICATION Spec
CONSTANTS
    Env = {e1, e2}
    GeomField = {geom}
    DofField = {dof}
    BodyField = {body}
    Gravity = gravity
    Gain = gain
    Local = {1, 2}
    Selections = {{1}}
    Col = {1, 2}
    ColumnOf <- MCColumnOf
    Val = {0, 1}
    Pose = {0, 1}
    Vel = {0, 1}
    DefaultRow <- MCDefaultRow
    DefaultField <- MCDefaultField
    BodyFrame <- MCBodyFrame
    MovedRow <- MCMovedRow
    Requested = {geom, dof, body, gravity}
    DrawnVal = {1}
    DrawnPose = {1}
    DrawnVel = {1}
    Garbage = garbage
    MaxScopes = 2
    MaxWrites = 3
INVARIANT StagingSound
PROPERTY ImplementsAtomicReset
SYMMETRY MCSymmetry
CHECK_DEADLOCK FALSE
