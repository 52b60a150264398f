SPECIFICATION FairSpec
CONSTANTS
    img = img
    j1 = j1
    j2 = j2
    j3 = j3
    Image = {img}
    Job = {j1, j2, j3}
    Wants <- MCWants
    MaxDeliver = 1
    MaxFaults <- MCFaults
INVARIANTS OneBuilder UsableImage
PROPERTIES ReadyNotUndone WaiterServed
CHECK_DEADLOCK FALSE
