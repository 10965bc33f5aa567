SPECIFICATION Spec
CONSTANTS
    Setups <- MCSetups
    NoOne = NoOne
    Reloaders = {main, admin}
    Watcher = watcher
    Watching = {TRUE, FALSE}
    NoPolls = {TRUE, FALSE}
    Ports = {0, 53}
    MaxEdits = 2
    MaxReloads = 2
INVARIANTS
 ReloadsReachLoops
SYMMETRY Symmetry
CHECK_DEADLOCK FALSE
