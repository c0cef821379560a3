SPECIFICATION Spec
CONSTANTS
    r1 = r1
    r2 = r2
    r3 = r3
    d1 = d1
    d2 = d2
    Requests <- MCRequests
    Devices <- MCDevices
    NoDevice = NoDevice
    NoOne = NoOne
    Restrictions = {FALSE}
    MaxRows = 2
    MaxFamilies = 1
    Kinds <- TwoRevokersKinds
INVARIANTS
    SettledRevocationEndsFamily
