SPECIFICATION Spec
CONSTANTS
    c1 = c1
    c2 = c2
    NPROC = 3
    CPUs <- MCTwoCPUs
    MaxPid = 3
    KillPids = {2}
SYMMETRY CPUPerms
INVARIANTS
    OneCPU
    PageTableLive
    ZombiesReapable
