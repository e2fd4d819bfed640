\* The link breaks and is dialled again around the login and logout of a client.
CONSTANTS
    n1 = n1
    n2 = n2
    s1 = s1
    u1 = u1
    u2 = u2
    bad = bad
    Listener = Listener
    Heartbeat = Heartbeat
    NoServer = NoServer
    NoSession = NoSession
    NoName = NoName
    Server = {n1, n2}
    Session = {s1}
    Name = {u1, bad}
    Worker = {w1}
    Home <- HomesApart
    MayUse <- OwnNames
    Invalid = {bad}
    MaxLogins = 1
    MaxBreaks = 1
    MaxDials = 2
    Patient = TRUE
    StartLinked = FALSE
SPECIFICATION Spec
INVARIANTS TypeOK LocationHasCause
PROPERTIES LossIsNoticed DisconnectCompletes LoginLands
CHECK_DEADLOCK FALSE
