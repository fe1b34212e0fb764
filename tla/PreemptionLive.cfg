SPECIFICATION FairSpec
CONSTANTS
    a = a  b = b  r1 = r1  r2 = r2  l1 = l1  p1 = p1  p2 = p2  n1 = n1
    None = None
    Bookings <- MCBookings
    Leases <- MCLeases
    Owner <- MCOwner
    Size <- MCSize
    Start <- MCStart
    End <- MCEndLive
    Order <- MCOrder
    Gpus <- MCGpus
    NodeOf <- MCNodeOf
    Nodes = {n1}
    NodeGpus <- MCNodeGpus
    Lead = 0
    WarnLead = 1
    Headroom = 0
    Delegates = TRUE
    MaxTime = 2
    MaxFaults = 1

PROPERTIES WarningsCleared MergesSettle
