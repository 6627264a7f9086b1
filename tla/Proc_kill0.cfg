SPECIFICATION Spec
CONSTANTS
    c1 = c1
    c2 = c2
    NPROC = 3
    CPUs <- MCTwoCPUs
    MaxPid = 4
    KillPids = {0}
SYMMETRY CPUPerms
INVARIANT
    KilledByPid
