SPECIFICATION Spec
SYMMETRY Symmetry
CONSTANTS
    k1 = k1
    k2 = k2
    k3 = k3
    secret = secret
    wrong = wrong
    acme = acme
    globex = globex
    NoKey = NoKey
    NoId = NoId
    Idle = Idle
    Replicas = {a, b}
    Connections = {c1, c2}
    Files = 0
    Ids = {k1, k2, k3}
    Secrets = {secret, wrong}
    Orgs = {acme, globex}
    Bootstrap <- MCBootstrap
    Tokens <- MCTokens
    MaxFailures = 1
INVARIANTS
    TypeOK
    RevokedOnce
    OrgConfined
    AdmittedByLiveKey
PROPERTIES
    RevokedForever
