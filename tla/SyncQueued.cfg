SPECIFICATION Spec
CONSTANTS
    a = a
    b = b
    pa = pa
    pb = pb
    r1 = r1
    r2 = r2
    l1 = l1
    h1 = h1
    None = None
    Cancelled = Cancelled
    Bookings = {r1}
    Leases = {}
    Users = {a, b}
    Pods = {pa, pb}
    UserOf <- MCUserOf
    LeaseFor <- NoLease
    FirstOwner <- MCFirst1
    Start <- Zero
    End <- One
    Handlers = {h1}
    MaxTime = 0
    MaxChanges = 1
    MaxFaults = 0
PROPERTY OwnPodsOnly
