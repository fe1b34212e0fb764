SPECIFICATION FairSpec
CONSTANTS
    p1 = p1  n1 = n1  n2 = n2  a = a  b = b
    Pods = {p1}
    Gpus <- MCGpus
    NodeOf <- MCNodeOf
    Old = {}
    Nodes = {n1, n2}
    Alloc <- MCAlloc
    Classes = {a, b}
    Label <- MCLabel
    Taints <- MCTaints
    QueueCap = 2
    MaxFaults = 2
INVARIANTS TypeOK FreeAgrees
PROPERTIES NeverBack NoGhostClaim LedgerConverges Discovered
