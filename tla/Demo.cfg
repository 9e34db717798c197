\* Three instances, six requests; high load is two.
SPECIFICATION FairDemo
CONSTANTS
    HighLoad = 2
    MaxInstances = 3
    Loads = {0, 1, 3}
    Total = 6
INVARIANTS LaunchesTotal
PROPERTIES LoadsBelongToPorts LauncherEnds
