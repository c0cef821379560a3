SPECIFICATION Spec
CONSTANTS
    r1 = r1
    r2 = r2
    r3 = r3
    d1 = d1
    d2 = d2
    Requests <- MCRequests
    Devices <- MCDevices
    NoDevice = NoDevice
    NoOne = NoOne
    Restrictions = {TRUE}
    MaxRows = 4
    MaxFamilies = 2
    Kinds <- MeetKinds
SYMMETRY RefreshSymmetry
INVARIANTS
    TypeOK
    OneSuccessor
    SettledRevocationEndsFamily
    RevokedAreBlocklisted
    ReplayRevokesFamily
    ClearLiftsLockedRows
PROPERTIES
    ReplayJudgedByHolder
    RevocationIsFinal
