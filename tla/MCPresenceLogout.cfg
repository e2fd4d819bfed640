\* One patient client logs in and leaves while its server is linked to its peer.
CONSTANTS
    n1 = n1
    n2 = n2
    s1 = s1
    u1 = u1
    u2 = u2
    bad = bad
    Listener = Listener
    Heartbeat = Heartbeat
    NoServer = NoServer
    NoSession = NoSession
    NoName = NoName
    Server = {n1, n2}
    Session = {s1}
    Name = {u1, bad}
    Worker = {w1, w2}
    Home <- HomesApart
    MayUse <- OwnNames
    Invalid = {bad}
    MaxLogins = 1
    MaxBreaks = 0
    MaxDials = 1
    Patient = TRUE
    StartLinked = TRUE
SPECIFICATION Safety
INVARIANT LogoutReachesPeers
CHECK_DEADLOCK FALSE
