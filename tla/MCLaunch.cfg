SPECIFICATION MCSpec
CONSTANTS
    AhProc = {1, 2}
    AhDirs = {"meshes", "textures", "bot"}
    FilesOf <- MCFilesOf
    MarkerOf <- MCMarkerOf
    RobotSpecs <- MCRobotSpecs
    BotDirs = {"bot"}
    AhMotions = {"walk"}
    AhRequests <- MCAhRequests
    MaxAhRequests = 2
    DpGpus = 3
    DpLaunches <- MCDpLaunches
    Classes <- MCClasses
    Callables = {"f1", "f2", "f3"}
    RgInstalls <- MCInstalls
    RgLaunches <- MCRgLaunches
    RgSupported = {"mujoco", "motrix", "isaacsim", "superdex"}
    IpLimit <- MCIpLimit
    IpProbe = 2
    IpLaunches <- MCIpLaunches
    MaxIpKeys = 3
    MaxIpSteps = 4
    SnCapabilities <- MCSnCapabilities
    MaxSnTime = 3
    e1 = e1
    e2 = e2
    AlEnv = {e1, e2}
    AlConfigs <- MCAlConfigs
    AlPoseBatches <- MCAlPoseBatches
    AlHome <- MCAlHome
    AlSensors = 2
    MaxAlSteps = 3
    MaxAlResets = 1
    MaxAlRuns = 2
CHECK_DEADLOCK FALSE
INVARIANTS LaunchSound RegistrySound PlaybackSound AllegroSound
