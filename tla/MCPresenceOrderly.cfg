\* Two clients of two linked servers that log in twice and wait for their answers.
CONSTANTS
    n1 = n1
    n2 = n2
    s1 = s1
    u1 = u1
    u2 = u2
    bad = bad
    Listener = Listener
    Heartbeat = Heartbeat
    NoServer = NoServer
    NoSession = NoSession
    NoName = NoName
    Server = {n1, n2}
    Session = {s1, s2}
    Name = {u1, u2, bad}
    Worker = {w1, w2}
    Home <- HomesApart
    MayUse <- OwnNames
    Invalid = {bad}
    MaxLogins = 2
    MaxBreaks = 0
    MaxDials = 0
    Patient = TRUE
    StartLinked = TRUE
SPECIFICATION Spec
INVARIANT GoneIsGone
PROPERTY LoginAnswered
CHECK_DEADLOCK FALSE
