SPECIFICATION FailoverSpec
CONSTANTS
    Servers = {1, 2, 3}
    Founders = {2, 3}
    Hasty = {}
    Mortal = {3}
    Losable = {"SE"}
    MaxLost = 1
INVARIANTS ElectedOutranksFounders
CHECK_DEADLOCK FALSE
