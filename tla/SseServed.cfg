SPECIFICATION FairSpec

CONSTANTS
    alice = alice
    bob = bob
    c1 = c1
    c2 = c2
    c3 = c3
    n1 = n1
    n2 = n2
    Users = {alice}
    Conns = {c1}
    Notifications = {n1}
    Heartbeat = Heartbeat
    User <- MCUser
    Target <- MCTarget
    SseDisabled = {}
    Greeting = Greeting
    Ping = Ping
    None = None

PROPERTY ConnectedClientIsServed
