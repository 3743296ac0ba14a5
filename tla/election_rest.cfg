SPECIFICATION SettledSpec
CONSTANTS
    Servers = {1, 2, 3, 4, 5}
    Founders = {1, 3, 5}
    Hasty = {}
    Mortal = {1, 3, 5}
    Losable = {}
    MaxLost = 0
PROPERTIES EventuallyAgreement EventuallyLed
CHECK_DEADLOCK FALSE
