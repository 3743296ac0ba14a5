SPECIFICATION FairSpec
CONSTANTS
    Servers = {1, 2, 3}
    Founders = {1, 2, 3}
    Hasty = {}
    Mortal = {}
    Losable = {}
    MaxLost = 0
INVARIANTS ElectedOutranksFounders IInv
PROPERTIES EventuallyAgreement
CHECK_DEADLOCK FALSE
