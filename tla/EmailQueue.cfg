SPECIFICATION MailSpec
CONSTANTS
    Email = {1, 2}
    Replica = {w1, w2}
    Nobody = Nobody
    MAX_ATTEMPTS = 3
    MaxFaults = 2
INVARIANTS
    MailTypeOK
    ResendsAreFaults
PROPERTY
    EveryMailSettles
