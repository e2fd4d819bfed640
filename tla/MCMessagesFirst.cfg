\* Two clients of one server enter and leave a room.
CONSTANTS
    n1 = n1
    n2 = n2
    c1 = c1
    c2 = c2
    c3 = c3
    Listener = Listener
    None = None
    Server = {n1, n2}
    Client = {c1, c2}
    Room = {r1}
    Worker = {w1, w2}
    Home <- TwoAndOne
    Will <- Guests
    MaxAsks <- TwoEach
    MaxBreaks = 0
    Patient = TRUE
SPECIFICATION Spec
INVARIANTS FirstMemberIsAnnounced
CHECK_DEADLOCK FALSE
