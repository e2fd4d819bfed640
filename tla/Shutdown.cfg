\* A server with a client, a peer, and perhaps one more client, that may be stopped.
CONSTANTS
    Client = {c1}
    Peer = {p1}
    Worker = {w1}
    Listener = Listener
    Heartbeat = Heartbeat
    Connector = Connector
    Early = {}
    MaxFrames = 1
    MaxTrouble = 1
    None = None
SPECIFICATION Spec
INVARIANTS TypeOK MembersOutliveThreads
PROPERTIES ThreadsComeBack StopReturnsUnlessStuck
CHECK_DEADLOCK FALSE
