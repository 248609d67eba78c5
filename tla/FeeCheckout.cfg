SPECIFICATION CheckoutFairSpec
CONSTANTS
    Worker = {w1, w2}
    Invoice = {i1}
    Reference = {ref1}
    NoRef = NoRef
    NoInvoice = NoInvoice
    NoCheckout = NoCheckout
    Method = {"cash", "paystack"}
    Kobo = {1, 2}
    Extra <- MCExtra
    MinPart = 1
    Time <- MCTime
    Window = 1
    MaxPayments = 2
INVARIANTS
    CheckoutTypeOK
    CreditedAsStarted
    CreditedOnlyIfCaptured
    AuditedAtMostOnce
PROPERTIES
    ConsumedForGood
    CapturedIsConsumed
