SPECIFICATION FairSpec
CONSTANTS
    i1 = i1
    i2 = i2
    t1 = t1
    t2 = t2
    t3 = t3
    Nobody = Nobody
    Instances <- TwoInstances
    Triggers <- ThreeTriggers
    Uploads <- MeetUploads
    Home <- MeetHome
    Want <- MeetWant
    DevMode = FALSE
    MaxFailures = 1
    MaxExpiries = 1
    MaxOthers = 1
INVARIANTS
    TypeOK
    CurrentPoolOpen
    UnpublishedCandidatesClosed
PROPERTIES
    OthersLockSurvives
    AnnouncementsConverge
