SPECIFICATION Spec
CONSTANTS
    a = a
    b = b
    pinned = pinned
    roaming = roaming
    own = own
    None = None
    Orch = {a, b}
    Host <- MCHosts
    Net <- MCNets
    HostName <- MCHostName
    NetName <- MCNetName
    IsDefault = 1
    CiNetwork <- MCCiNetwork
    Self <- MCSelf
    Job = {pinned, roaming, own}
    Written <- MCWritten
    RepoNet <- MCRepoNet
    InitUps <- MCUps
    InitMember <- MCMember
    Scenarios <- MCNoFaults
INVARIANTS PinnedStays

CHECK_DEADLOCK FALSE
