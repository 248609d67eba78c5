------------------------------ MODULE FeeLedger ------------------------------
(***************************************************************************)
(* What the school fee ledger promises: invoices, payments and refunds as  *)
(* three tables on which a payment, a refund and a billing run each take   *)
(* effect in one indivisible step.  FeeTransactions models the SQL         *)
(* statements that carry those operations out under concurrency and        *)
(* implements this module; FeeCheckout builds the online payment flow on   *)
(* top of it.                                                              *)
(*                                                                         *)
(* Money is whole kobo.  fee_refunds is kept as the sum per payment, which *)
(* is the only thing any statement reads back from that table.             *)
(***************************************************************************)
EXTENDS Integers, Sequences, FiniteSetsExt

CONSTANTS
    Invoice,     \* one per student and term: UNIQUE (student_id, term_id)
    Reference,   \* Paystack transaction references
    NoRef,       \* payments.paystack_reference IS NULL
    NoInvoice,   \* the student has no fee_invoices row yet
    Method,      \* the payment methods in use
    Kobo,        \* the amounts people tender and fee lines add up to
    Time,        \* transaction start times (the NOW() of a transaction)
    Window       \* length of the repeated-tender guard (5 minutes)

InvoiceRow == [total: Kobo, paid: Int, balance: Int, status: {"unpaid", "partial", "paid"}]

ASSUME MethodAssumption == Method \subseteq {"cash", "bank_transfer", "paystack", "waiver"}
ASSUME KoboAssumption == Kobo \subseteq Nat \ {0}
ASSUME TimeAssumption == Time \subseteq Nat /\ 0 \in Time /\ Window \in Nat \ {0}
ASSUME NullAssumption == NoRef \notin Reference /\ NoInvoice \notin InvoiceRow

StaffTender == {"cash", "bank_transfer"}

Status(total, paid) ==
    IF paid <= 0 THEN "unpaid" ELSE IF paid >= total THEN "paid" ELSE "partial"

\* The row every writer of fee_invoices leaves behind.
Row(total, paid) ==
    [total |-> total, paid |-> paid, balance |-> total - paid, status |-> Status(total, paid)]

Payment == [invoice: Invoice, kobo: Kobo, method: Method, ref: Reference \cup {NoRef},
            at: Time, refunded: Nat]

NewPayment(i, kobo, method, ref, at) ==
    [invoice |-> i, kobo |-> kobo, method |-> method, ref |-> ref, at |-> at, refunded |-> 0]

VARIABLES
    invoices,    \* fee_invoices by student and term
    payments     \* payments in the order they were committed

ledger == <<invoices, payments>>

Raised(i) == invoices[i] # NoInvoice

\* payments.paystack_reference is UNIQUE.
Recorded(ref) == \E k \in DOMAIN payments : payments[k].ref = ref

\* The same cash or transfer was recorded on this invoice less than Window before p.
Repeated(p) ==
    \E k \in DOMAIN payments :
        /\ payments[k].invoice = p.invoice
        /\ payments[k].method = p.method
        /\ payments[k].kobo = p.kobo
        /\ payments[k].at > p.at - Window

\* What recordPayment asks of a payment before it is written.
Acceptable(p) ==
    /\ p.method = "paystack" => p.ref \in Reference /\ ~Recorded(p.ref)
    /\ p.method # "paystack" => p.ref = NoRef /\ p.kobo <= invoices[p.invoice].total - invoices[p.invoice].paid
    /\ p.method \in StaffTender => ~Repeated(p)

-----------------------------------------------------------------------------
Init ==
    /\ invoices = [i \in Invoice |-> NoInvoice]
    /\ payments = <<>>

Pay(p) ==
    /\ Raised(p.invoice)
    /\ Acceptable(p)
    /\ payments' = Append(payments, p)
    /\ invoices' = [invoices EXCEPT ![p.invoice] = Row(@.total, @.paid + p.kobo)]

Refund(k, kobo) ==
    /\ payments[k].method # "waiver"
    /\ payments[k].refunded + kobo <= payments[k].kobo
    /\ payments' = [payments EXCEPT ![k].refunded = @ + kobo]
    /\ invoices' = [invoices EXCEPT ![payments[k].invoice] = Row(@.total, @.paid - kobo)]

Bill(students, total) ==
    /\ invoices' = [i \in Invoice |->
                      IF i \notin students THEN invoices[i]
                      ELSE Row(total, IF Raised(i) THEN invoices[i].paid ELSE 0)]
    /\ UNCHANGED payments

Next ==
    \/ \E i \in Invoice, kobo \in Kobo, method \in Method, ref \in Reference \cup {NoRef}, at \in Time :
          Pay(NewPayment(i, kobo, method, ref, at))
    \/ \E k \in DOMAIN payments, kobo \in Kobo : Refund(k, kobo)
    \/ \E students \in SUBSET Invoice, total \in Kobo : Bill(students, total)

Spec == Init /\ [][Next]_ledger

-----------------------------------------------------------------------------
LedgerTypeOK ==
    /\ invoices \in [Invoice -> InvoiceRow \cup {NoInvoice}]
    /\ payments \in Seq(Payment)

\* Kobo a set of the payments brought in, refunds taken off.
Received(ks) == MapThenSumSet(LAMBDA k : payments[k].kobo - payments[k].refunded, ks)

(***************************************************************************)
(* Every invoice says exactly what its payments and refunds add up to      *)
(* (migration 063: "recomputed from payments minus refunds"), its balance  *)
(* is what is left, and its status is the one deriveStatus gives.  A lost  *)
(* update by two overlapping transactions breaks it.                       *)
(***************************************************************************)
BooksBalance ==
    \A i \in Invoice :
        IF Raised(i)
        THEN invoices[i] = Row(invoices[i].total,
                               Received({k \in DOMAIN payments : payments[k].invoice = i}))
        ELSE \A k \in DOMAIN payments : payments[k].invoice # i

\* Refunds of one payment never exceed it, and a waiver is never refunded (migration 063).
RefundsWithinPayment ==
    \A k \in DOMAIN payments :
        /\ payments[k].refunded <= payments[k].kobo
        /\ payments[k].method = "waiver" => payments[k].refunded = 0

\* One Paystack transaction is one payment, whoever reports it and however often.
OnePaymentPerReference ==
    \A j, k \in DOMAIN payments :
        payments[j].ref # NoRef /\ payments[j].ref = payments[k].ref => j = k

\* Two equal cash or transfer tenders on one invoice are at least Window apart,
\* even when both clerks press the button before either transaction commits.
TendersSpaced ==
    \A j, k \in DOMAIN payments :
        /\ j < k
        /\ payments[j].method \in StaffTender
        /\ payments[j].invoice = payments[k].invoice
        /\ payments[j].method = payments[k].method
        /\ payments[j].kobo = payments[k].kobo
        => payments[j].at <= payments[k].at - Window
=============================================================================
