SPECIFICATION Spec

CONSTANTS
    alice = alice
    bob = bob
    long = long
    alert = alert
    late = late
    poison = poison
    nameless = nameless
    garbled = garbled
    behind = behind
    k1 = k1
    k2 = k2
    r1 = r1
    r2 = r2
    r3 = r3
    Security = Security
    Promo = Promo
    Users = {alice, bob, long}
    Events = {poison}
    Types = {Security, Promo}
    Consumers = {k1}
    Requests = {}
    Targets <- MCTargets
    Everyone <- MCEveryone
    TypeOf <- MCTypeOf
    SeedTypes = {Promo}
    Invalid = {}
    NoId = {}
    Oversized = {}
    LongIds = {long}
    StandardTopic = {}
    CriticalTopic = {poison}
    Ahead <- MCAhead
    Unreadable = {}
    CriticalPriority = {}
    Body <- MCBody
    ViaAdmin = {}
    WantsMail <- MCWantsMail
    MaxCrashes = 0
    All = All
    Blank = Blank
    None = None

CHECK_DEADLOCK FALSE

INVARIANT PushedIsStored
