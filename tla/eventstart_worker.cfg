SPECIFICATION Spec
CONSTANTS
    MaxLcores = 8
    MaxPorts = 64
    MaxDevs = 1
INVARIANTS
    WorkerHasPort
\* The program exits.
CHECK_DEADLOCK FALSE
