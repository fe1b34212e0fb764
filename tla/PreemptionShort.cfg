SPECIFICATION Spec
CONSTANTS
    a = a  b = b  r1 = r1  r2 = r2  l1 = l1  p1 = p1  p2 = p2  n1 = n1
    None = None
    Bookings <- MCPairBookings
    Leases <- MCLeases
    Owner <- MCPairOwner
    Size <- MCPairSize
    Start <- MCPairStart
    End <- MCPairEnd
    Order <- MCPairOrder
    Gpus <- MCPairGpus
    NodeOf <- MCPairNodeOf
    Nodes = {n1}
    NodeGpus <- MCNodeGpus
    Lead = 1
    WarnLead = 1
    Headroom = 0
    Delegates = FALSE
    MaxTime = 1
    MaxFaults = 0
PROPERTIES UnclaimedCovered
