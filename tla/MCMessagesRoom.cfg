\* One client speaks to all or in a room that another joins and leaves, on two linked servers.
CONSTANTS
    n1 = n1
    n2 = n2
    c1 = c1
    c2 = c2
    c3 = c3
    Listener = Listener
    None = None
    Server = {n1, n2}
    Client = {c1, c3}
    Room = {r1}
    Worker = {w1, w2}
    Home <- TwoAndOne
    Will <- SpeakerAndGuest
    MaxAsks <- TwoEach
    MaxBreaks = 0
    Patient = TRUE
SPECIFICATION Spec
INVARIANTS OneCopyEach RoomsAgree
PROPERTIES AcceptedIsHeard
CHECK_DEADLOCK FALSE
