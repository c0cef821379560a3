SPECIFICATION Spec
CONSTANTS
    i1 = i1
    i2 = i2
    t1 = t1
    t2 = t2
    t3 = t3
    Nobody = Nobody
    Instances <- TwoInstances
    Triggers <- TwoTriggers
    Uploads <- Both
    Home <- CrossHome
    Want <- RisingWant
    DevMode = FALSE
    MaxFailures = 0
    MaxExpiries = 0
    MaxOthers = 0
PROPERTIES
    NoRegression
