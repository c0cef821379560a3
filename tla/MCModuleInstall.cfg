SPECIFICATION Spec
CONSTANTS
    j1 = j1
    j2 = j2
    j3 = j3
    Installs <- ThreeInstalls
    Ver <- ThreeVer
    MaxAttempts = 2
    MaxFailures = 1
    MaxCrashes = 1
INVARIANTS
    TypeOK
    PoolsAccounted
    ReservationHeld
PROPERTIES
    LiveModuleKept
