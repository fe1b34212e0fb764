SPECIFICATION FairSpec
CONSTANTS
    p1 = p1
    p2 = p2
    r1 = r1
    r2 = r2
    None = None
    Pods = {p1, p2}
    Resv = {r1}
    GpuCount <- OneBooking
    Matches <- MCMatchesOne
    Start <- MCStartOne
    End <- MCEndOne
    MaxGpus = 2
    Gpus <- MCGpus
    Mortal = {p1}
    Horizon = 0
    MaxTime = 0
    EventCap = 1
    MaxFaults = 1
    MaxEdits = 1
INVARIANT TypeOK
INVARIANT UnslippedHoldersFit
PROPERTY NoStarvation
