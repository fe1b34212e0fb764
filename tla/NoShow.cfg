SPECIFICATION FairSpec
CONSTANTS
    r1 = r1
    r2 = r2
    None = None
    Bookings <- MCBookings
    Pods = {p1}
    Start <- MCStart
    End <- MCEnd
    Owner <- MCOwner
    Size <- MCSize
    MaxTime = 2
    MaxFaults = 1
INVARIANTS TypeOK NoLimbo
PROPERTIES HoldersSpared ChainsSpared EmptyReleased
