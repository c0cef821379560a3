SPECIFICATION Spec
CONSTANTS
    j1 = j1
    j2 = j2
    j3 = j3
    Installs <- TwoInstalls
    Ver <- SameVer
    MaxAttempts = 2
    MaxFailures = 0
    MaxCrashes = 0
INVARIANTS
    LiveModuleSurvives
