CONSTANTS
    IO = IO
    Senders = {s1, s2}
    MaxSends = 1
    MaxReads = 2
    MaxFrames = 1
SPECIFICATION FairSpec
INVARIANTS AtMostOneWrite NoLostWakeup ToldOnce
PROPERTIES ChannelSafe ChannelLive PeerAnswered
CHECK_DEADLOCK FALSE
