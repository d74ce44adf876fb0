SPECIFICATION FairSpec

CONSTANTS
    alice = alice
    bob = bob
    s1 = s1
    s2 = s2
    Users = {alice, bob}
    Sources = {s1, s2}
    MaxAttempts = 5
    MaxTimers = 2
    None = None

INVARIANTS
    TypeOK
    OneStream
    NotStranded

PROPERTIES
    KeepsOpenStream
    ConnectsOrGivesUp
