\* Two writers share a connection, under the mutex of a session or without one.
CONSTANTS
    v = v
    w = w
    p1 = p1
    p2 = p2
    p3 = p3
    p4 = p4
    Writer = {v, w}
    Packet = {p1, p2, p3, p4}
    Size <- Sizes
    Header = 4
    MaxLen = 3
    Capacity = 3
    Garbled = {0, 2, 4}
    Garbage = Garbage
    Jobs <- TwoAndOne
    Rereader = {v}
    Modes = {"client", "peer"}
    MaxRenewals = 1
SPECIFICATION Spec
INVARIANTS TypeOK DamageHasCause
PROPERTIES ImplementsPacketChannel
CHECK_DEADLOCK FALSE
