SPECIFICATION SubFairSpec
CONSTANTS
    Admin = {a1}
    Delivery = {d1, d2}
    Reference = {ref1}
    Patches <- MCPatches
    Extensions = {1}
    TrialDays = 0
    Grace = 1
    LastDay = 2
    LastEnd = 1
    NoEnd = NoEnd
    Keep = Keep
PROPERTIES
    SettledForGood
    RestoredByItsPayment
    StagesFollowCalendar
    LapsedIsGated
    PaidIsHealed
    CapturedIsSettled
