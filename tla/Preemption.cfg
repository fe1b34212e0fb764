SPECIFICATION Spec
CONSTANTS
    a = a  b = b  r1 = r1  r2 = r2  l1 = l1  p1 = p1  p2 = p2  n1 = n1
    None = None
    Bookings <- MCBookings
    Leases <- MCLeases
    Owner <- MCOwner
    Size <- MCSize
    Start <- MCStart
    End <- MCEnd
    Order <- MCOrder
    Gpus <- MCGpus
    NodeOf <- MCNodeOf
    Nodes = {n1}
    NodeGpus <- MCNodeGpus
    Lead = 1
    WarnLead = 1
    Headroom = 50
    Delegates = TRUE
    MaxTime = 3
    MaxFaults = 1
INVARIANTS TypeOK MergedAccounted
PROPERTIES GuaranteeKept OncePerPhase NoticeGiven
