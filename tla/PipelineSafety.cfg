SPECIFICATION Spec

CONSTANTS
    alice = alice
    bob = bob
    long = long
    alert = alert
    late = late
    poison = poison
    nameless = nameless
    garbled = garbled
    behind = behind
    k1 = k1
    k2 = k2
    r1 = r1
    r2 = r2
    r3 = r3
    Security = Security
    Promo = Promo
    Users = {alice, bob, long}
    Events = {alert, poison, nameless}
    Types = {Security, Promo}
    Consumers = {k1, k2}
    Requests = {r1, r2, r3}
    Targets <- MCTargets
    Everyone <- MCEveryone
    TypeOf <- MCTypeOf
    SeedTypes = {Security, Promo}
    Invalid = {}
    NoId = {nameless}
    Oversized = {}
    LongIds = {long}
    StandardTopic = {}
    CriticalTopic = {alert}
    Ahead <- MCAhead
    Unreadable = {}
    CriticalPriority = {alert}
    Body <- MCBody
    ViaAdmin = {r3}
    WantsMail <- MCWantsMail
    MaxCrashes = 0
    All = All
    Blank = Blank
    None = None

CHECK_DEADLOCK FALSE

INVARIANTS
    TypeOK
    OneRowPerTarget
    StoredForAllOrNone
    StoredWasPushed
    AcceptedIsStored
    OneMailPerDelivery
