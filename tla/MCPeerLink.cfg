\* Two servers whose connectors take turns.
CONSTANTS
    a = a
    b = b
    Server = {a, b}
    Other <- Pair
    Conn = {c1, c2, c3}
    Worker = {w1}
    Listener = Listener
    Heartbeat = Heartbeat
    Connector = Connector
    Starts <- TurnsOrOneClash
    Unlimited = Unlimited
    Prompt = TRUE
    NoConn = NoConn
SPECIFICATION Spec
INVARIANTS TypeOK SocketsAgree DeathIsReal
PROPERTIES ZombiesHeal LinkComesUpApart
CHECK_DEADLOCK TRUE
