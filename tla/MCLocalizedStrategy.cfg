SPECIFICATION Spec
CONSTANTS
    Manifests <- MCManifests
    Requests <- MCRequests
    MaxTime = 1
    MaxOverrun = 1
CHECK_DEADLOCK FALSE
INVARIANTS TargetMet FirstMatchDecides NoMatchMissed
