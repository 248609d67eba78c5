SPECIFICATION Spec
CONSTANTS
    Row = {1, 2}
    Parent = {1, 2}
    Replica = {w1, w2}
    Desk = {d1}
    Nobody = Nobody
    Fees = Fees
    Audience <- MCAudience
    Channel <- MCChannel
    Phone = {1}
    Poison = {1}
    BATCH_SIZE = 2
    SMS_DAILY_LIMIT = 1
    MaxFaults = 1
INVARIANTS
    NoticesTypeOK
    RepeatsAreFaults
    TextsWithinLimit
PROPERTY
    ImplementsDelivery
