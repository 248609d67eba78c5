SPECIFICATION Spec
CONSTANTS
    r1 = r1
    r2 = r2
    Request = {r1, r2}
    Challenge = {c1}
    MaxSecrets = 3
    MaxStep = 1
    MaxSets = 2
    MaxRequests = 4
    SetSize = 1
    TOTP_WINDOW = 0
    TOTP_LOCK_AFTER = 1
    CHALLENGE_MAX_ATTEMPTS = 1
    Wrong = Wrong
    NoChallenge = NoChallenge
SYMMETRY Symmetry
INVARIANTS
    FactorTypeOK
    CodesWorkOnce
    OneSessionPerChallenge
PROPERTIES
    MovesAreConfirmed
    RequiredStaysOn
