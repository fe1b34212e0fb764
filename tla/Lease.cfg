SPECIFICATION FairSpec
CONSTANTS
    a = a
    b = b
    c = c
    None = None
    Instances <- MCThree
    Duration = 6
    RenewEvery = 1
    MaxCall = 1
    MaxBoot = 1
    MaxFaults = 1
    MaxCrashes = 1
INVARIANT TypeOK
INVARIANT WritesJustified
INVARIANT HeldIsHolder
PROPERTY LeasePromise
PROPERTY OneInstance
