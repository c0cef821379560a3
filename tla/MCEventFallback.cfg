SPECIFICATION Spec
CONSTANTS
    m1 = m1
    m2 = m2
    m3 = m3
    e1 = e1
    Emissions <- MCEmissions
    Key <- MCKey
    Mode <- MCMode
    Subs = {1, 2}
    Async = {1}
    Transactional = {1}
    MaxAttempts = 2
    MaxFailures = 0
    MaxReplays = 1
    MaxRetries = 1
INVARIANTS
    FallbackDelivers
