SPECIFICATION FairSpec
CONSTANTS
    n1 = n1
    n2 = n2
    None = None
    Pods = {1, 2}
    Nodes <- MCNodes
    Alloc <- MCScarce
    MaxGpus = 1
    Gpus <- One
    Allowed <- MCAnyNode
    BestEffort = {}
    Booked = {}
    CalendarGpus = 2
    PhysicalGpus = 1
    MaxEvents = 1
    MaxFaults = 1
INVARIANT OversoldFits
PROPERTY WaiterAdmitted
