CONSTANTS
    W = 3
    P = 2
    RCs <- MCRCs
    LinkMsgs <- MCLinkMsgs
    PathMsgs <- MCPathMsgs
    Records <- MCRecords
    MaxAddrs = 2
SPECIFICATION Spec
INVARIANTS
    VerifiedIsSigned
PROPERTIES
    RoundTrip
VIEW MCView
CHECK_DEADLOCK FALSE
