SPECIFICATION FairSpec
CONSTANTS
    a = a
    b = b
    pa = pa
    pb = pb
    r1 = r1
    r2 = r2
    l1 = l1
    h1 = h1
    None = None
    Cancelled = Cancelled
    Bookings = {r1, r2}
    Leases = {l1}
    Users = {a, b}
    Pods = {pa}
    UserOf <- MCUserOfA
    LeaseFor <- MCLeaseFor
    FirstOwner <- MCFirst2
    Start <- Zero
    End <- One
    Handlers = {h1}
    MaxTime = 1
    MaxChanges = 1
    MaxFaults = 1
INVARIANTS TypeOK HolderListedOrDoomed EvictionsJustified
PROPERTY Converges
