SPECIFICATION Spec
CONSTANTS
    p1 = p1
    p2 = p2
    p3 = p3
    p4 = p4
    c1 = c1
    c2 = c2
    Peers <- MCPeers
    Channels <- MCChannels
    IdleTicks = 1
INVARIANT
    ExchangedMeansBoth
SYMMETRY Symmetry
CHECK_DEADLOCK FALSE
