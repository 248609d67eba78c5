SPECIFICATION TxFairSpec
CONSTANTS
    s1 = s1
    s2 = s2
    i1 = i1
    i2 = i2
    Session = {s1, s2}
    Invoice = {i1, i2}
    Reference = {ref1}
    NoRef = NoRef
    NoInvoice = NoInvoice
    Nobody = Nobody
    Method = {"cash", "paystack"}
    Kobo = {1}
    Time <- MCTime
    Window = 1
    MaxPayments = 1
PROPERTY
    RequestsEnd
