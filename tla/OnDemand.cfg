SPECIFICATION Spec
CONSTANTS
    n1 = n1
    n2 = n2
    None = None
    Pods = {1, 2}
    Nodes <- MCNodes
    Alloc <- MCAlloc
    MaxGpus = 2
    Gpus <- MCGpus
    Allowed <- MCAllowed
    BestEffort = {2}
    Booked = {2}
    CalendarGpus = 3
    PhysicalGpus = 3
    MaxEvents = 1
    MaxFaults = 1
INVARIANTS TypeOK Startable LeaseAccounted TriggerKept CreatesOffered
