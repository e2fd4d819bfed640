\* Two impatient clients of one server that log in twice and share a name.
CONSTANTS
    n1 = n1
    n2 = n2
    s1 = s1
    u1 = u1
    u2 = u2
    bad = bad
    Listener = Listener
    Heartbeat = Heartbeat
    NoServer = NoServer
    NoSession = NoSession
    NoName = NoName
    Server = {n1}
    Session = {s1, s2}
    Name = {u1, u2, bad}
    Worker = {w1, w2}
    Home <- HomesTogether
    MayUse <- OneShared
    Invalid = {bad}
    MaxLogins = 2
    MaxBreaks = 0
    MaxDials = 0
    Patient = FALSE
    StartLinked = FALSE
SPECIFICATION Safety
SYMMETRY AnyWorker
INVARIANTS WelcomedIsReachable IndexSound LoginAccounted
CHECK_DEADLOCK FALSE
