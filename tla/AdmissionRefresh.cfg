SPECIFICATION Spec
CONSTANTS
    p1 = p1
    p2 = p2
    r1 = r1
    r2 = r2
    None = None
    Pods = {p1, p2}
    Resv = {r1, r2}
    GpuCount <- TwoBookings
    Matches <- MCMatches
    Start <- MCStart
    End <- MCEnd
    MaxGpus = 2
    Gpus <- MCGpus
    Mortal = {p1}
    Horizon = 1
    MaxTime = 1
    EventCap = 1
    MaxFaults = 0
    MaxEdits = 1
INVARIANT NeverBeforeWindow
PROPERTY SlipsOnlyByRebuildOrRollback
PROPERTY BookingsPromise
