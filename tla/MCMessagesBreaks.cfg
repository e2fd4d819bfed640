\* Private and room messages while a client leaves and the link may break.
CONSTANTS
    n1 = n1
    n2 = n2
    c1 = c1
    c2 = c2
    c3 = c3
    Listener = Listener
    None = None
    Server = {n1, n2}
    Client = {c1, c2, c3}
    Room = {r1}
    Worker = {w1}
    Home <- TwoAndOne
    Will <- TalkerAndOthers
    MaxAsks <- TwoAndOneAsk
    MaxBreaks = 1
    Patient = TRUE
SPECIFICATION Spec
INVARIANTS TypeOK ReadsOnlyItsOwn AnswersAreTrue
CHECK_DEADLOCK FALSE
