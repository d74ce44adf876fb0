SPECIFICATION Spec

CONSTANTS
    alice = alice
    bob = bob
    c1 = c1
    c2 = c2
    c3 = c3
    n1 = n1
    n2 = n2
    Users = {alice, bob}
    Conns = {c1, c2}
    Notifications = {n1, n2}
    Heartbeat = Heartbeat
    User <- MCUser
    Target <- MCTarget
    SseDisabled = {}
    Greeting = Greeting
    Ping = Ping
    None = None

SYMMETRY TabSymmetry

INVARIANTS
    TypeOK
    RegisteredSinkIsOpen
    OwnNotificationsOnly
    AtMostOnce

PROPERTIES
    NoReturnToMap
    LossHasCause
    ImplementsChannel
