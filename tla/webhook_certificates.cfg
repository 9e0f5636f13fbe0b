SPECIFICATION FairSpec
CONSTANTS
    Replicas = {r1, r2}
    NoLeader = none
    MaxGen = 2
    MaxFaults = 2
INVARIANTS TypeOK BundlesFromSecret
PROPERTIES RenewOnlyInvalid WebhooksTrusted
