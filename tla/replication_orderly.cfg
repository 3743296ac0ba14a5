SPECIFICATION OrderlySpec
CONSTANTS
    Servers = {1, 2}
    FirstMembers <- TwoServers
    FirstLeader = 1
    Content <- AllQuotes
    Ids = {q1, q2}
    q1 = q1
    q2 = q2
    Threads = {"content"}
    Candidates = {2}
    Mortal = {}
    MaxLost = 0
    MaxCopied = 0
    MaxDoubted = 0
    Latest = 2
PROPERTIES FifoDelivery
CHECK_DEADLOCK FALSE
