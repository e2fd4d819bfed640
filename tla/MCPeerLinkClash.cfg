\* Two servers whose connectors dial at the same moments.
CONSTANTS
    a = a
    b = b
    Server = {a, b}
    Other <- Pair
    Conn = {c1, c2, c3, c4}
    Worker = {w1}
    Listener = Listener
    Heartbeat = Heartbeat
    Connector = Connector
    Starts <- Clashing
    Unlimited = Unlimited
    Prompt = TRUE
    NoConn = NoConn
SPECIFICATION Spec
PROPERTY LinkComesUp
CHECK_DEADLOCK FALSE
