SPECIFICATION FairSpec
CONSTANTS
    p1 = p1
    p2 = p2
    p3 = p3
    p4 = p4
    c1 = c1
    c2 = c2
    Peers <- MCPeers
    Channels <- MCChannels
    IdleTicks = 1
INVARIANTS
    MapsAgree
    NoFault
    ReadyReachesBoth
    TimerArmed
PROPERTY SilentPeersDropped
\* A server that was shut down stops.
CHECK_DEADLOCK FALSE
