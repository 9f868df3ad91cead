SPECIFICATION FairBootSpec
CHECK_DEADLOCK FALSE
CONSTANTS
    k1 = k1
    k2 = k2
    secret = secret
    acme = acme
    globex = globex
    NoKey = NoKey
    Replicas = {a, b, c}
    Files = 2
    Ids = {k1, k2}
    Secrets = {secret}
    Orgs = {acme, globex}
    Bootstrap <- MCBootstrap
    MaxFailures = 2
INVARIANTS
    BootTypeOK
    MigratedOnceInOrder
    ServingReady
PROPERTIES
    RacesEnd
