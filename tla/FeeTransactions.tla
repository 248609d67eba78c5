--------------------------- MODULE FeeTransactions ---------------------------
(***************************************************************************)
(* The fee ledger as the API carries it out: each request is a PostgreSQL  *)
(* transaction of several statements (READ COMMITTED), requests of several *)
(* clerks, parents and webhooks run at once, and a request may die between *)
(* any two statements.  What a transaction has written is seen by others   *)
(* only after its COMMIT; a row it has locked or written stays locked      *)
(* until it ends.                                                          *)
(*                                                                         *)
(* recordPayment:    lock the invoice, check, insert and update, commit    *)
(* recordRefund:     read the payment, lock its invoice, check, commit     *)
(* generateInvoices: add up the fee lines, upsert one row per student in   *)
(*                   the order the student query gave, commit              *)
(***************************************************************************)
EXTENDS FeeLedger

CONSTANTS
    Session,      \* database sessions (one request in flight on each)
    Nobody,       \* the holder of a free row lock
    MaxPayments   \* bound: payments recorded or in flight

ASSUME SessionAssumption == Nobody \notin Session
ASSUME ClassAssumption == IsFiniteSet(Invoice)

VARIABLES
    now,          \* the clock
    lock,         \* per fee_invoices row, the session whose transaction holds it
    pc,           \* per session, the statement its transaction has reached
    req,          \* per session, the request and what it has read
    seen          \* per session, the invoice rows it read when it locked them

sessions == <<lock, pc, req, seen>>
vars == <<invoices, payments, now, lock, pc, req, seen>>

NoRequest == [kind |-> "none"]
PayRequest(p) == [kind |-> "pay", payment |-> p]
RefundRequest(k, kobo) == [kind |-> "refund", k |-> k, kobo |-> kobo]
BillRequest(total, todo) == [kind |-> "bill", total |-> total, todo |-> todo]

\* The student query of generateInvoices has no ORDER BY: any order of the class.
Orders == {o \in [1..Cardinality(Invoice) -> Invoice] : \A i \in Invoice : \E n \in DOMAIN o : o[n] = i}

Held(s) == {i \in Invoice : lock[i] = s}

TxInit ==
    /\ Init
    /\ now = 0
    /\ lock = [i \in Invoice |-> Nobody]
    /\ pc = [s \in Session |-> "idle"]
    /\ req = [s \in Session |-> NoRequest]
    /\ seen = [s \in Session |-> [i \in Invoice |-> NoInvoice]]

-----------------------------------------------------------------------------
Begin(s, request, first) ==
    /\ pc[s] = "idle"
    /\ pc' = [pc EXCEPT ![s] = first]
    /\ req' = [req EXCEPT ![s] = request]
    /\ UNCHANGED <<invoices, payments, now, lock, seen>>

\* Mutant: the connection goes back to the pool with its request.
FinishKeepsRequest(s) ==
    /\ pc' = [pc EXCEPT ![s] = "idle"]
    /\ seen' = [seen EXCEPT ![s] = [i \in Invoice |-> NoInvoice]]
    /\ lock' = [i \in Invoice |-> IF lock[i] = s THEN Nobody ELSE lock[i]]
    /\ UNCHANGED <<now, req>>

\* COMMIT or ROLLBACK: every row lock of the session is released.
Finish(s) ==
    /\ pc' = [pc EXCEPT ![s] = "idle"]
    /\ req' = [req EXCEPT ![s] = NoRequest]
    /\ seen' = [seen EXCEPT ![s] = [i \in Invoice |-> NoInvoice]]
    /\ lock' = [i \in Invoice |-> IF lock[i] = s THEN Nobody ELSE lock[i]]
    /\ UNCHANGED now

\* Mutant: an early return that forgets its ROLLBACK.
RollbackKeepsLocks(s) ==
    /\ pc' = [pc EXCEPT ![s] = "idle"]
    /\ req' = [req EXCEPT ![s] = NoRequest]
    /\ UNCHANGED <<invoices, payments, now, lock, seen>>

Rollback(s) == Finish(s) /\ UNCHANGED ledger

\* Mutant: SELECT without FOR UPDATE.
LockNoWait(s, i, next) ==
    /\ seen' = [seen EXCEPT ![s][i] = invoices[i]]
    /\ pc' = [pc EXCEPT ![s] = next]
    /\ UNCHANGED <<invoices, payments, now, lock, req>>

\* SELECT ... FOR UPDATE of row i: waits while another transaction holds it, then reads
\* the committed row.
Lock(s, i, next) ==
    /\ lock[i] = Nobody
    /\ lock' = [lock EXCEPT ![i] = s]
    /\ seen' = [seen EXCEPT ![s][i] = invoices[i]]
    /\ pc' = [pc EXCEPT ![s] = next]
    /\ UNCHANGED <<invoices, payments, now, req>>

-----------------------------------------------------------------------------
\* recordPayment

BeginPay(s, p) ==
    /\ Len(payments) + Cardinality({t \in Session : req[t].kind = "pay"}) < MaxPayments
    /\ p.ref = NoRef <=> p.method # "paystack"
    /\ Begin(s, PayRequest(p), "payLock")

PayLock(s) ==
    /\ pc[s] = "payLock"
    /\ LET i == req[s].payment.invoice
       IN  IF Raised(i) THEN Lock(s, i, "payCheck")
           ELSE Rollback(s)                            \* null: no such invoice

\* Mutant: no guard against the same tender twice.
RefusedNoWindow(s) ==
    LET p == req[s].payment
        outstanding == seen[s][p.invoice].total - seen[s][p.invoice].paid
    IN  \/ p.method = "paystack" /\ Recorded(p.ref)
        \/ p.method # "paystack" /\ p.kobo > outstanding

\* Already recorded, an overpayment, or the same tender again within Window.
Refused(s) ==
    LET p == req[s].payment
        outstanding == seen[s][p.invoice].total - seen[s][p.invoice].paid
    IN  \/ p.method = "paystack" /\ Recorded(p.ref)
        \/ p.method # "paystack" /\ p.kobo > outstanding
        \/ p.method \in StaffTender /\ Repeated(p)

PayCheck(s) ==
    /\ pc[s] = "payCheck"
    /\ \/ Refused(s) /\ Rollback(s)
       \/ /\ ~Refused(s)
          /\ pc' = [pc EXCEPT ![s] = "payWrite"]
          /\ UNCHANGED <<invoices, payments, now, lock, req, seen>>

\* Mutant: payments.paystack_reference without its UNIQUE constraint.
PayWriteNotUnique(s) ==
    /\ pc[s] = "payWrite"
    /\ LET p == req[s].payment
           row == seen[s][p.invoice]
       IN  /\ payments' = Append(payments, p)
           /\ invoices' = [invoices EXCEPT ![p.invoice] = Row(row.total, row.paid + p.kobo)]
           /\ Finish(s)

\* INSERT the payment, UPDATE the invoice from the row read under the lock, COMMIT.
\* A reference another transaction has recorded meanwhile is SQLSTATE 23505.
PayWrite(s) ==
    /\ pc[s] = "payWrite"
    /\ LET p == req[s].payment
           row == seen[s][p.invoice]
       IN  IF p.ref # NoRef /\ Recorded(p.ref) THEN Rollback(s)
           ELSE /\ payments' = Append(payments, p)
                /\ invoices' = [invoices EXCEPT ![p.invoice] = Row(row.total, row.paid + p.kobo)]
                /\ Finish(s)

-----------------------------------------------------------------------------
\* recordRefund

BeginRefund(s, k, kobo) == Begin(s, RefundRequest(k, kobo), "refundLock")

RefundLock(s) ==
    /\ pc[s] = "refundLock"
    /\ IF payments[req[s].k].method = "waiver" THEN Rollback(s)
       ELSE Lock(s, payments[req[s].k].invoice, "refundCheck")

RefundCheck(s) ==
    /\ pc[s] = "refundCheck"
    /\ LET p == payments[req[s].k]
       IN  IF req[s].kobo > p.kobo - p.refunded THEN Rollback(s)
           ELSE /\ pc' = [pc EXCEPT ![s] = "refundWrite"]
                /\ UNCHANGED <<invoices, payments, now, lock, req, seen>>

RefundWrite(s) ==
    /\ pc[s] = "refundWrite"
    /\ LET k == req[s].k
           i == payments[k].invoice
           row == seen[s][i]
       IN  /\ payments' = [payments EXCEPT ![k].refunded = @ + req[s].kobo]
           /\ invoices' = [invoices EXCEPT ![i] = Row(row.total, row.paid - req[s].kobo)]
           /\ Finish(s)

-----------------------------------------------------------------------------
\* generateInvoices

\* The term, the total of its mandatory lines, the class.  The lines are edited at any time
\* between two billing runs, so the total is any; with none (NO_FEE_LINES) nothing begins.
BeginBill(s, total, order) == Begin(s, BillRequest(total, order), "bill")

\* INSERT ... ON CONFLICT DO UPDATE: waits for, and then holds, the row of the next student.
BillUpsert(s) ==
    /\ pc[s] = "bill"
    /\ req[s].todo # <<>>
    /\ LET i == Head(req[s].todo)
       IN  /\ lock[i] = Nobody
           /\ lock' = [lock EXCEPT ![i] = s]
           /\ seen' = [seen EXCEPT ![s][i] = invoices[i]]
           /\ req' = [req EXCEPT ![s].todo = Tail(@)]
           /\ UNCHANGED <<invoices, payments, now, pc>>

\* Mutant: regenerating an invoice starts it afresh, what was paid forgotten.
BillCommitForgetsPaid(s) ==
    /\ pc[s] = "bill"
    /\ req[s].todo = <<>>
    /\ invoices' = [i \in Invoice |-> IF lock[i] # s THEN invoices[i] ELSE Row(req[s].total, 0)]
    /\ UNCHANGED payments
    /\ Finish(s)

BillCommit(s) ==
    /\ pc[s] = "bill"
    /\ req[s].todo = <<>>
    /\ invoices' = [i \in Invoice |->
                      IF lock[i] # s THEN invoices[i]
                      ELSE Row(req[s].total, IF seen[s][i] = NoInvoice THEN 0 ELSE seen[s][i].paid)]
    /\ UNCHANGED payments
    /\ Finish(s)

-----------------------------------------------------------------------------
\* A session waits for a row that another session of the same group holds.
Blocked(s, group) ==
    /\ pc[s] = "bill"
    /\ req[s].todo # <<>>
    /\ lock[Head(req[s].todo)] \in group \ {s}

\* Two billing runs that lock the class in different orders: PostgreSQL rolls one back.
DeadlockVictim(s) ==
    /\ \E group \in SUBSET Session : s \in group /\ \A t \in group : Blocked(t, group)
    /\ Rollback(s)

\* The API process or its connection dies: PostgreSQL rolls the transaction back.
Crash(s) == pc[s] # "idle" /\ Rollback(s)

Tick ==
    /\ now + 1 \in Time
    /\ now' = now + 1
    /\ UNCHANGED <<invoices, payments, lock, pc, req, seen>>

BeginSome(s) ==
    \/ \E i \in Invoice, kobo \in Kobo, method \in Method, ref \in Reference \cup {NoRef} :
          BeginPay(s, NewPayment(i, kobo, method, ref, now))
    \/ \E k \in DOMAIN payments, kobo \in Kobo : BeginRefund(s, k, kobo)
    \/ \E total \in Kobo, order \in Orders : BeginBill(s, total, order)

Statement(s) ==
    \/ PayLock(s) \/ PayCheck(s) \/ PayWrite(s)
    \/ RefundLock(s) \/ RefundCheck(s) \/ RefundWrite(s)
    \/ BillUpsert(s) \/ BillCommit(s)
    \/ DeadlockVictim(s)

TxNext ==
    \/ \E s \in Session : BeginSome(s) \/ Statement(s) \/ Crash(s)
    \/ Tick

TxSpec == TxInit /\ [][TxNext]_vars

\* PostgreSQL serves the waiters of a row lock in turn, and the API never leaves a
\* transaction open while it waits for anything but the database.
TxFairSpec == TxSpec /\ \A s \in Session : SF_vars(Statement(s))

-----------------------------------------------------------------------------
PayStep == {"payLock", "payCheck", "payWrite"}
RefundStep == {"refundLock", "refundCheck", "refundWrite"}

RequestOK(s) ==
    /\ pc[s] \in {"idle", "bill"} \cup PayStep \cup RefundStep
    /\ pc[s] = "idle" => req[s] = NoRequest
    /\ pc[s] \in PayStep => req[s] \in [kind: {"pay"}, payment: Payment]
    /\ pc[s] \in RefundStep => req[s] \in [kind: {"refund"}, k: DOMAIN payments, kobo: Kobo]
    /\ pc[s] = "bill" => req[s] \in [kind: {"bill"}, total: Kobo, todo: Seq(Invoice)]

TypeOK ==
    /\ LedgerTypeOK
    /\ now \in Time
    /\ lock \in [Invoice -> Session \cup {Nobody}]
    /\ DOMAIN pc = Session /\ DOMAIN req = Session
    /\ seen \in [Session -> [Invoice -> InvoiceRow \cup {NoInvoice}]]
    /\ \A s \in Session : RequestOK(s)

SnapshotOf(s) == \A i \in Invoice : lock[i] = s => seen[s][i] = invoices[i]

\* A transaction past its SELECT ... FOR UPDATE holds the row it is about to write.
HoldsItsRow(s) ==
    /\ pc[s] \in {"payCheck", "payWrite"} => lock[req[s].payment.invoice] = s
    /\ pc[s] \in {"refundCheck", "refundWrite"} => lock[payments[req[s].k].invoice] = s

ChecksOf(s) ==
    /\ pc[s] \in PayStep =>
          /\ req[s].payment.refunded = 0
          /\ req[s].payment.ref = NoRef <=> req[s].payment.method # "paystack"
    /\ pc[s] \in {"payCheck", "payWrite"} => Raised(req[s].payment.invoice)
    /\ pc[s] = "payWrite" =>
          LET p == req[s].payment
          IN  /\ p.method # "paystack" => p.kobo <= invoices[p.invoice].total - invoices[p.invoice].paid
              /\ p.method \in StaffTender => ~Repeated(p)
    /\ pc[s] \in {"refundCheck", "refundWrite"} => payments[req[s].k].method # "waiver"
    /\ pc[s] = "refundWrite" => payments[req[s].k].refunded + req[s].kobo <= payments[req[s].k].kobo

(***************************************************************************)
(* A row read under its lock stays the committed row until the transaction *)
(* ends: what recordPayment, recordRefund and generateInvoices compute the *)
(* new amount_paid from is never stale.                                    *)
(***************************************************************************)
SnapshotCurrent == \A s \in Session : SnapshotOf(s) /\ HoldsItsRow(s)

(***************************************************************************)
(* What recordPayment and recordRefund checked before their INSERT (room   *)
(* in the balance, no equal tender within Window, room in the payment) is  *)
(* still true when they write, whatever committed in between.              *)
(***************************************************************************)
ChecksStillHold == \A s \in Session : ChecksOf(s)

(***************************************************************************)
(* An invoice is driven below zero (a credit) only by money Paystack has   *)
(* already captured or by a cheaper bill, never by a tender or a waiver a  *)
(* clerk typed in: two clerks cannot both be told the balance is open.     *)
(***************************************************************************)
CreditOnlyFromPaystack ==
    [][\A i \in Invoice :
          /\ Raised(i)
          /\ invoices'[i].balance < 0
          /\ invoices'[i].balance < invoices[i].balance
          => \/ invoices'[i].total < invoices[i].total
             \/ payments' # payments /\ payments'[Len(payments')].method = "paystack"]_vars

\* The statements, run by many sessions, with crashes, implement the indivisible operations.
ImplementsLedger == Spec

\* Every request ends: no lock is left behind and billing runs that block each other are broken up.
RequestsEnd == \A s \in Session : pc[s] # "idle" ~> pc[s] = "idle"
=============================================================================
