CONSTANTS
    IntHalf = 128
    Threads = {owner, worker}
    Owner = owner
    Worker = worker
    Machines <- MCMachines
    Nodes <- MCNodes
    Priorities = {0, 80}
    Cores <- MCCores
    Names = {0, 16}
    MaxLoads = 2
    MaxCalls = 2
SPECIFICATION Safety
INVARIANTS
    TypeOK
    RetryEqualsFresh
    ValidatedNeverAborts
    WorkerAsConfigured
