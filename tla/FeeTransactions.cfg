SPECIFICATION TxSpec
CONSTANTS
    s1 = s1
    s2 = s2
    i1 = i1
    i2 = i2
    Session = {s1, s2}
    Invoice = {i1, i2}
    Reference = {ref1}
    NoRef = NoRef
    NoInvoice = NoInvoice
    Nobody = Nobody
    Method = {"cash", "paystack", "waiver"}
    Kobo = {1, 2}
    Time <- MCTime
    Window = 1
    MaxPayments = 2
SYMMETRY Symmetry
INVARIANTS
    TypeOK
    BooksBalance
    OnePaymentPerReference
    TendersSpaced
PROPERTIES
    ImplementsLedger
