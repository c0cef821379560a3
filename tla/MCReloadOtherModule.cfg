SPECIFICATION Spec
CONSTANTS
    i1 = i1
    i2 = i2
    t1 = t1
    t2 = t2
    t3 = t3
    Nobody = Nobody
    Instances = {i1}
    Triggers <- TwoTriggers
    Uploads <- Both
    Home <- LocalHome
    Want <- RisingWant
    DevMode = TRUE
    MaxFailures = 0
    MaxExpiries = 0
    MaxOthers = 1
INVARIANTS
    TranslationsMatchRegistry
