SPECIFICATION FairSpec

CONSTANTS
    alice = alice
    bob = bob
    long = long
    alert = alert
    late = late
    poison = poison
    nameless = nameless
    garbled = garbled
    behind = behind
    k1 = k1
    k2 = k2
    r1 = r1
    r2 = r2
    r3 = r3
    Security = Security
    Promo = Promo
    Users = {alice, bob, long}
    Events = {alert, poison, late, nameless, garbled, behind}
    Types = {Security, Promo}
    Consumers = {k1}
    Requests = {r1}
    Targets <- MCTargets
    Everyone <- MCEveryone
    TypeOf <- MCTypeOf
    SeedTypes = {}
    Invalid = {}
    NoId = {nameless}
    Oversized = {late}
    LongIds = {long}
    StandardTopic = {late, nameless, garbled, behind}
    CriticalTopic = {alert, poison}
    Ahead <- MCAhead
    Unreadable = {garbled}
    CriticalPriority = {alert}
    Body <- MCBody
    ViaAdmin = {}
    WantsMail <- MCWantsMail
    MaxCrashes = 1
    All = All
    Blank = Blank
    None = None

CHECK_DEADLOCK FALSE

PROPERTIES
    ImplementsStore
    CallsAdvance
    EveryRecordIsAcked
