SPECIFICATION FaultySpec
CONSTANTS
    Servers = {1, 2}
    FirstMembers <- TwoServers
    FirstLeader = 1
    Content <- AllQuotes
    Ids = {q1, q2}
    q1 = q1
    q2 = q2
    Threads = {"content"}
    Candidates = {}
    Mortal = {1}
    MaxLost = 1
    MaxCopied = 1
    MaxDoubted = 2
    Latest = 2
SYMMETRY IdSymmetry
PROPERTIES FifoSafety OnlyCopiesDropped ForgottenHasArrived
CHECK_DEADLOCK FALSE
