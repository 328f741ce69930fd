SPECIFICATION Spec
CONSTANTS
 e1 = e1
 e2 = e2
 arm = arm
 leg = leg
 robot = robot
 box = box
 EvEnv = {e1, e2}
 Element = {arm, leg}
 Axis = {0, 1}
 EvDefault <- MCEvDefault
 TermConfigs <- MCTermConfigs
 StageLists <- MCStageLists
 MinMass = 1
 MaxCounter = 2
 ImEnv = {e1, e2}
 Durations = {0, 1, 2}
 Cooldowns = {1, 2}
 MaxImSteps = 6
 CmEnv = {e1, e2}
 Setups <- MCSetups
 JointDefault <- MCJointDefault
 RawActions <- MCRawActions
 MaxComputes = 2
 ScEnv = {e1, e2}
 Entities = {robot, box}
 SceneConfigs <- MCSceneConfigs
 BackendJoints <- MCBackendJoints
 BackendActuators <- MCBackendActuators
 BackendBodies <- MCBackendBodies
 ActuatorJoint <- MCActuatorJoint
 Patterns <- MCPatterns
 IdLists <- MCIdLists
INVARIANTS DisturbancesSound OrdersSound
PROPERTY MassInertiaConsistent
CHECK_DEADLOCK FALSE
