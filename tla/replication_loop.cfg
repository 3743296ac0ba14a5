SPECIFICATION PacedSpec
CONSTANTS
    Servers = {1, 2}
    FirstMembers <- TwoServers
    FirstLeader = 1
    Content <- AllQuotes
    Ids = {q1}
    q1 = q1
    Threads = {"content"}
    Candidates = {}
    Mortal = {}
    MaxLost = 0
    MaxCopied = 0
    MaxDoubted = 0
    Latest = 2
PROPERTIES EveryoneDelivers
CHECK_DEADLOCK FALSE
