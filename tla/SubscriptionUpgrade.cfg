SPECIFICATION SubSpec
CONSTANTS
    Admin = {a1}
    Delivery = {}
    Reference = {}
    Patches <- MCPatches
    Extensions = {1}
    TrialDays = 0
    Grace = 1
    LastDay = 2
    LastEnd = 1
    NoEnd = NoEnd
    Keep = Keep
PROPERTIES
    NeverGatesPaid
