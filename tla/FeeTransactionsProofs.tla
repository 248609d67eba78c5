------------------------ MODULE FeeTransactionsProofs ------------------------
(***************************************************************************)
(* The transactions of the API implement the indivisible ledger of         *)
(* FeeLedger, for any number of sessions, invoices and amounts.            *)
(*                                                                         *)
(* The argument: a transaction writes a row only while it holds the row's  *)
(* lock (HoldsItsRow), so what it read (SnapshotOf) and what it checked    *)
(* (ChecksOf) under the lock still hold when it writes.  Its write is then *)
(* exactly one operation of FeeLedger, every other statement leaves the    *)
(* ledger as it is, and FeeLedger's own invariant carries over.            *)
(*                                                                         *)
(* The last part is about waiting: a row lock is held only by a            *)
(* transaction past its SELECT ... FOR UPDATE or by a billing run, and a   *)
(* billing run never comes back to a row (LocksFit), so only billing runs  *)
(* can wait for each other in a circle.                                    *)
(***************************************************************************)
EXTENDS FeeTransactions, FeeLedgerProofs, FiniteSetTheorems

SessionOK(s) == RequestOK(s) /\ SnapshotOf(s) /\ HoldsItsRow(s) /\ ChecksOf(s)

TxInv ==
    /\ TypeOK
    /\ LedgerInv
    /\ \A s \in Session : SessionOK(s)

-----------------------------------------------------------------------------
\* Every step of a transaction is an operation of the ledger or leaves it as it is.

\* Recording a payment is the ledger's Pay.
LEMMA PayWriteRefines ==
    ASSUME TxInv, NEW s \in Session, PayWrite(s)
    PROVE  [Next]_ledger
<1> DEFINE p == req[s].payment
<1>1. /\ p \in Payment
      /\ p.refunded = 0
      /\ p.invoice \in Invoice
      /\ p.ref = NoRef <=> p.method # "paystack"
      /\ Raised(p.invoice)
      /\ seen[s][p.invoice] = invoices[p.invoice]
      /\ p.method # "paystack" => p.kobo <= invoices[p.invoice].total - invoices[p.invoice].paid
      /\ p.method \in StaffTender => ~Repeated(p)
  BY DEF TxInv, SessionOK, RequestOK, SnapshotOf, HoldsItsRow, ChecksOf, PayWrite, PayStep, Payment
<1>2. CASE p.ref # NoRef /\ Recorded(p.ref)
  BY <1>2 DEF PayWrite, Rollback, ledger
<1>3. CASE ~(p.ref # NoRef /\ Recorded(p.ref))
  <2>1. /\ payments' = Append(payments, p)
        /\ invoices' = [invoices EXCEPT ![p.invoice] = Row(@.total, @.paid + p.kobo)]
    BY <1>1, <1>3 DEF PayWrite
  <2>2. Acceptable(p)
    BY <1>1, <1>3 DEF Acceptable, Payment
  <2>3. Pay(p)
    BY <1>1, <2>1, <2>2 DEF Pay
  <2>4. p = NewPayment(p.invoice, p.kobo, p.method, p.ref, p.at)
    BY <1>1 DEF NewPayment, Payment
  <2>5. /\ p.kobo \in Kobo /\ p.method \in Method
        /\ p.ref \in Reference \cup {NoRef} /\ p.at \in Time
    BY <1>1 DEF Payment
  <2> QED
    BY <1>1, <2>3, <2>4, <2>5 DEF Next
<1> QED
  BY <1>2, <1>3

\* Recording a refund is the ledger's Refund.
LEMMA RefundWriteRefines ==
    ASSUME TxInv, NEW s \in Session, RefundWrite(s)
    PROVE  [Next]_ledger
<1> DEFINE k == req[s].k
<1> DEFINE i == payments[k].invoice
<1>1. /\ k \in DOMAIN payments
      /\ req[s].kobo \in Kobo
      /\ lock[i] = s
      /\ payments[k].method # "waiver"
      /\ payments[k].refunded + req[s].kobo <= payments[k].kobo
  BY DEF TxInv, SessionOK, RequestOK, HoldsItsRow, ChecksOf, RefundWrite, RefundStep
<1>2. i \in Invoice
  <2>1. payments[k] \in Payment
    BY <1>1 DEF TxInv, LedgerInv, LedgerTypeOK
  <2> QED
    BY <2>1 DEF Payment
<1>3. seen[s][i] = invoices[i]
  BY <1>1, <1>2 DEF TxInv, SessionOK, SnapshotOf
<1>4. Refund(k, req[s].kobo)
  BY <1>1, <1>3 DEF Refund, RefundWrite
<1> QED
  BY <1>1, <1>4 DEF Next

\* Committing a billing run is the ledger's Bill on the rows it holds.
LEMMA BillCommitRefines ==
    ASSUME TxInv, NEW s \in Session, BillCommit(s)
    PROVE  [Next]_ledger
<1>1. req[s].total \in Kobo
  BY DEF TxInv, SessionOK, RequestOK, BillCommit
<1>2. \A i \in Invoice : lock[i] = s => seen[s][i] = invoices[i]
  BY DEF TxInv, SessionOK, SnapshotOf
<1>3. Bill(Held(s), req[s].total)
  BY <1>2 DEF Bill, BillCommit, Held, Raised
<1>4. Held(s) \in SUBSET Invoice
  BY DEF Held
<1> QED
  BY <1>1, <1>3, <1>4 DEF Next

\* Statements that write nothing.
LEMMA OtherStepsRefine ==
    ASSUME NEW s \in Session,
           \/ BeginSome(s) \/ Crash(s) \/ DeadlockVictim(s) \/ BillUpsert(s)
           \/ PayLock(s) \/ PayCheck(s) \/ RefundLock(s) \/ RefundCheck(s)
    PROVE  UNCHANGED ledger
BY DEF BeginSome, BeginPay, BeginRefund, BeginBill, Begin, Crash, DeadlockVictim, Rollback,
       BillUpsert, PayLock, PayCheck, RefundLock, RefundCheck, Lock, ledger

LEMMA StepRefines == TxInv /\ [TxNext]_vars => [Next]_ledger
<1> SUFFICES ASSUME TxInv, [TxNext]_vars PROVE [Next]_ledger
  OBVIOUS
<1>1. CASE UNCHANGED vars \/ Tick
  BY <1>1 DEF vars, ledger, Tick
<1>2. ASSUME NEW s \in Session, BeginSome(s) \/ Statement(s) \/ Crash(s)
      PROVE  [Next]_ledger
  BY <1>2, PayWriteRefines, RefundWriteRefines, BillCommitRefines, OtherStepsRefine DEF Statement
<1> QED
  BY <1>1, <1>2 DEF TxNext

-----------------------------------------------------------------------------
\* Every step keeps the invariant of every session.

\* A step of another session that t does not notice: t's variables, its locks, the rows it
\* has locked and the payments of those rows are as they were.
Undisturbed(t) ==
    /\ pc'[t] = pc[t] /\ req'[t] = req[t] /\ seen'[t] = seen[t]
    /\ \A i \in Invoice : lock'[i] = t <=> lock[i] = t
    /\ \A i \in Invoice : lock[i] = t => invoices'[i] = invoices[i]
    /\ DOMAIN payments \subseteq DOMAIN payments'
    /\ \A k \in DOMAIN payments :
          /\ payments'[k].invoice = payments[k].invoice
          /\ payments'[k].method = payments[k].method
          /\ lock[payments[k].invoice] = t => payments'[k] = payments[k]
    /\ \A k \in DOMAIN payments' \ DOMAIN payments : lock[payments'[k].invoice] # t

LEMMA UndisturbedOK ==
    ASSUME TxInv, NEW t \in Session, Undisturbed(t)
    PROVE  SessionOK(t)'
<1> USE DEF Undisturbed
<1>1. SessionOK(t) /\ \A k \in DOMAIN payments : payments[k] \in Payment
  BY DEF TxInv, LedgerInv, LedgerTypeOK
<1>2. RequestOK(t)'
  BY <1>1 DEF SessionOK, RequestOK, RefundStep
<1>3. SnapshotOf(t)'
  BY <1>1 DEF SessionOK, SnapshotOf
<1>4. pc[t] \in {"refundCheck", "refundWrite"} =>
        /\ req[t].k \in DOMAIN payments
        /\ lock[payments[req[t].k].invoice] = t
        /\ payments[req[t].k].invoice \in Invoice
        /\ payments'[req[t].k] = payments[req[t].k]
  BY <1>1 DEF SessionOK, RequestOK, HoldsItsRow, RefundStep, Payment
<1>5. pc[t] \in {"payCheck", "payWrite"} =>
        /\ req[t].payment.invoice \in Invoice
        /\ lock[req[t].payment.invoice] = t
        /\ invoices'[req[t].payment.invoice] = invoices[req[t].payment.invoice]
  BY <1>1 DEF SessionOK, RequestOK, HoldsItsRow, PayStep, Payment
<1>6. HoldsItsRow(t)'
  BY <1>1, <1>4, <1>5 DEF SessionOK, HoldsItsRow
<1>7. pc[t] = "payWrite" => (Repeated(req[t].payment)' => Repeated(req[t].payment))
  BY <1>5 DEF Repeated
<1>8. ChecksOf(t)'
  BY <1>1, <1>4, <1>5, <1>7 DEF SessionOK, ChecksOf, Raised, Repeated
<1> QED
  BY <1>2, <1>3, <1>6, <1>8 DEF SessionOK

\* Ending a transaction leaves the session idle, holding nothing.
LEMMA FinishOK ==
    ASSUME TxInv, NEW s \in Session, Finish(s)
    PROVE  /\ SessionOK(s)'
           /\ lock' \in [Invoice -> Session \cup {Nobody}]
           /\ \A i \in Invoice, t \in Session : t # s => (lock'[i] = t <=> lock[i] = t)
           /\ \A t \in Session : t # s => pc'[t] = pc[t] /\ req'[t] = req[t] /\ seen'[t] = seen[t]
           /\ DOMAIN pc' = Session /\ DOMAIN req' = Session
           /\ seen' \in [Session -> [Invoice -> InvoiceRow \cup {NoInvoice}]]
           /\ now' \in Time
<1>1. /\ pc'[s] = "idle" /\ req'[s] = NoRequest
      /\ lock \in [Invoice -> Session \cup {Nobody}]
      /\ \A i \in Invoice : lock'[i] = IF lock[i] = s THEN Nobody ELSE lock[i]
      /\ s # Nobody
  BY SessionAssumption DEF TxInv, TypeOK, Finish
<1>2. SessionOK(s)'
  BY <1>1 DEF SessionOK, RequestOK, SnapshotOf, HoldsItsRow, ChecksOf, PayStep, RefundStep
<1>3. \A i \in Invoice, t \in Session : t # s => (lock'[i] = t <=> lock[i] = t)
  BY <1>1, SessionAssumption
<1> QED
  BY <1>1, <1>2, <1>3 DEF Finish, TxInv, TypeOK

\* A rollback keeps the invariant.
LEMMA RollbackOK ==
    ASSUME TxInv, LedgerInv', NEW s \in Session, Rollback(s)
    PROVE  TxInv'
<1>1. Finish(s) /\ UNCHANGED ledger
  BY DEF Rollback
<1>2. \A t \in Session : t # s => Undisturbed(t)
  BY <1>1, FinishOK DEF Undisturbed, ledger
<1>3. \A t \in Session : SessionOK(t)'
  BY <1>1, <1>2, FinishOK, UndisturbedOK
<1> QED
  BY <1>1, <1>3, FinishOK DEF TxInv, TypeOK, LedgerInv, SessionOK

\* Beginning a request keeps the invariant.
LEMMA BeginOK ==
    ASSUME TxInv, LedgerInv', NEW s \in Session, BeginSome(s)
    PROVE  TxInv'
<1>1. /\ UNCHANGED <<invoices, payments, now, lock, seen>>
      /\ pc[s] = "idle"
      /\ DOMAIN pc' = Session /\ DOMAIN req' = Session
      /\ \A t \in Session : t # s => pc'[t] = pc[t] /\ req'[t] = req[t]
  BY DEF BeginSome, BeginPay, BeginRefund, BeginBill, Begin, TxInv, TypeOK
<1>2. \A t \in Session : t # s => Undisturbed(t)
  BY <1>1 DEF Undisturbed
<1>3. SnapshotOf(s)'
  BY <1>1 DEF SnapshotOf, TxInv, SessionOK
<1>4. pc'[s] \in {"payLock", "refundLock", "bill"}
  BY DEF BeginSome, BeginPay, BeginRefund, BeginBill, Begin, TxInv, TypeOK
<1>5. RequestOK(s)' /\ ChecksOf(s)'
  <2>1. ASSUME NEW i \in Invoice, NEW kobo \in Kobo, NEW method \in Method,
               NEW ref \in Reference \cup {NoRef}, BeginPay(s, NewPayment(i, kobo, method, ref, now))
        PROVE  RequestOK(s)' /\ ChecksOf(s)'
    <3> DEFINE p == NewPayment(i, kobo, method, ref, now)
    <3>1. p \in Payment /\ p.refunded = 0 /\ (p.ref = NoRef <=> p.method # "paystack")
      BY <2>1 DEF NewPayment, Payment, TxInv, TypeOK, BeginPay
    <3>2. pc'[s] = "payLock" /\ req'[s] = PayRequest(p)
      BY <2>1 DEF BeginPay, Begin, TxInv, TypeOK
    <3> HIDE DEF p
    <3> QED
      BY <3>1, <3>2 DEF RequestOK, ChecksOf, PayRequest, PayStep, RefundStep
  <2>2. ASSUME NEW k \in DOMAIN payments, NEW kobo \in Kobo, BeginRefund(s, k, kobo)
        PROVE  RequestOK(s)' /\ ChecksOf(s)'
    <3>1. pc'[s] = "refundLock" /\ req'[s] = RefundRequest(k, kobo)
      BY <2>2 DEF BeginRefund, Begin, TxInv, TypeOK
    <3> QED
      BY <1>1, <3>1 DEF RequestOK, ChecksOf, RefundRequest, PayStep, RefundStep
  <2>3. ASSUME NEW total \in Kobo, NEW order \in Orders, BeginBill(s, total, order)
        PROVE  RequestOK(s)' /\ ChecksOf(s)'
    <3>1. pc'[s] = "bill" /\ req'[s] = BillRequest(total, order)
      BY <2>3 DEF BeginBill, Begin, TxInv, TypeOK
    <3>2. order \in Seq(Invoice)
      <4>1. Cardinality(Invoice) \in Nat
        BY ClassAssumption, FS_CardinalityType
      <4> QED
        BY <4>1 DEF Orders
    <3> QED
      BY <3>1, <3>2 DEF RequestOK, ChecksOf, BillRequest, PayStep, RefundStep
  <2> QED
    BY <2>1, <2>2, <2>3 DEF BeginSome
<1>6. SessionOK(s)'
  BY <1>3, <1>4, <1>5 DEF SessionOK, HoldsItsRow
<1>7. \A t \in Session : SessionOK(t)'
  BY <1>2, <1>6, UndisturbedOK
<1> QED
  BY <1>1, <1>7 DEF TxInv, TypeOK, LedgerInv, SessionOK

LEMMA KoboInt == \A n \in Kobo : n \in Int
BY KoboAssumption

LEMMA PaymentTypes ==
    ASSUME NEW p \in Payment
    PROVE  p.invoice \in Invoice /\ p.kobo \in Int /\ p.refunded \in Int
<1>1. p.invoice \in Invoice /\ p.kobo \in Kobo /\ p.refunded \in Nat
  BY DEF Payment
<1> QED
  BY <1>1, KoboInt

\* Taking a row lock keeps the invariant: the row read is the committed one.
LEMMA LockOK ==
    ASSUME TxInv, LedgerInv', NEW s \in Session, NEW i \in Invoice,
           NEW next \in {"payCheck", "refundCheck"},
           pc[s] \in {"payLock", "refundLock"},
           Lock(s, i, next)
    PROVE  /\ \A t \in Session : t # s => SessionOK(t)'
           /\ SnapshotOf(s)'
           /\ TypeOK' <=> RequestOK(s)'
           /\ lock'[i] = s /\ pc'[s] = next /\ req'[s] = req[s]
<1>1. /\ UNCHANGED <<invoices, payments, now, req>>
      /\ pc' = [pc EXCEPT ![s] = next]
      /\ lock[i] = Nobody
      /\ lock' = [lock EXCEPT ![i] = s]
      /\ seen' = [seen EXCEPT ![s][i] = invoices[i]]
      /\ lock \in [Invoice -> Session \cup {Nobody}]
      /\ seen \in [Session -> [Invoice -> InvoiceRow \cup {NoInvoice}]]
      /\ DOMAIN pc = Session
      /\ invoices[i] \in InvoiceRow \cup {NoInvoice}
  BY DEF Lock, TxInv, TypeOK, LedgerTypeOK
<1>2. \A t \in Session : t # s => Undisturbed(t)
  BY <1>1, SessionAssumption DEF Undisturbed
<1>3. \A t \in Session : t # s => SessionOK(t)'
  BY <1>2, UndisturbedOK
<1>4. SnapshotOf(s)'
  BY <1>1 DEF SnapshotOf, TxInv, SessionOK
<1>5. /\ lock' \in [Invoice -> Session \cup {Nobody}]
      /\ seen' \in [Session -> [Invoice -> InvoiceRow \cup {NoInvoice}]]
  BY <1>1
<1> QED
  BY <1>1, <1>3, <1>4, <1>5 DEF TypeOK, TxInv, SessionOK, LedgerInv

LEMMA PayLockOK ==
    ASSUME TxInv, LedgerInv', NEW s \in Session, PayLock(s)
    PROVE  TxInv'
<1> DEFINE p == req[s].payment
<1>1. p \in Payment /\ p.invoice \in Invoice /\ pc[s] = "payLock" /\ RequestOK(s) /\ ChecksOf(s)
  BY DEF TxInv, SessionOK, RequestOK, PayLock, PayStep, Payment
<1>2. CASE ~Raised(p.invoice)
  BY <1>2, RollbackOK DEF PayLock
<1>3. CASE Raised(p.invoice)
  <2>1. Lock(s, p.invoice, "payCheck")
    BY <1>3 DEF PayLock
  <2>2. UNCHANGED <<invoices, payments>>
    BY <2>1 DEF Lock
  <2>3. RequestOK(s)' /\ HoldsItsRow(s)' /\ ChecksOf(s)'
    BY <1>1, <1>3, <2>1, <2>2, LockOK DEF RequestOK, HoldsItsRow, ChecksOf, PayStep, RefundStep, Raised
  <2>4. TypeOK' /\ \A t \in Session : SessionOK(t)'
    BY <1>1, <2>1, <2>3, LockOK DEF SessionOK
  <2> QED
    BY <2>4 DEF TxInv
<1> QED
  BY <1>2, <1>3

LEMMA RefundLockOK ==
    ASSUME TxInv, LedgerInv', NEW s \in Session, RefundLock(s)
    PROVE  TxInv'
<1> DEFINE q == payments[req[s].k]
<1>1. /\ req[s].k \in DOMAIN payments /\ pc[s] = "refundLock" /\ RequestOK(s)
      /\ payments \in Seq(Payment)
  BY DEF TxInv, SessionOK, RequestOK, RefundLock, RefundStep, LedgerInv, LedgerTypeOK
<1>2. q \in Payment /\ q.invoice \in Invoice
  <2>1. q \in Payment
    BY <1>1
  <2> QED
    BY <2>1 DEF Payment
<1>3. CASE q.method = "waiver"
  BY <1>3, RollbackOK DEF RefundLock
<1>4. CASE q.method # "waiver"
  <2>1. Lock(s, q.invoice, "refundCheck")
    BY <1>4 DEF RefundLock
  <2>2. UNCHANGED <<invoices, payments>>
    BY <2>1 DEF Lock
  <2>3. RequestOK(s)' /\ HoldsItsRow(s)' /\ ChecksOf(s)'
    BY <1>1, <1>2, <1>4, <2>1, <2>2, LockOK DEF RequestOK, HoldsItsRow, ChecksOf, PayStep, RefundStep
  <2>4. TypeOK' /\ \A t \in Session : SessionOK(t)'
    BY <1>1, <1>2, <2>1, <2>3, LockOK DEF SessionOK
  <2> QED
    BY <2>4 DEF TxInv
<1> QED
  BY <1>3, <1>4

\* A check that passes: the session moves on to its write and nothing else changes.
LEMMA CheckOK ==
    ASSUME TxInv, LedgerInv', NEW s \in Session, NEW next, pc' = [pc EXCEPT ![s] = next],
           UNCHANGED <<invoices, payments, now, lock, req, seen>>,
           RequestOK(s)', HoldsItsRow(s)', ChecksOf(s)'
    PROVE  TxInv'
<1>1. DOMAIN pc' = Session /\ \A t \in Session : t # s => pc'[t] = pc[t]
  BY DEF TxInv, TypeOK
<1>2. \A t \in Session : t # s => SessionOK(t)'
  BY <1>1, UndisturbedOK DEF Undisturbed
<1>3. SnapshotOf(s)'
  BY DEF SnapshotOf, TxInv, SessionOK
<1>4. \A t \in Session : SessionOK(t)'
  BY <1>2, <1>3 DEF SessionOK
<1> QED
  BY <1>1, <1>4 DEF TxInv, TypeOK, LedgerInv, SessionOK

LEMMA PayCheckOK ==
    ASSUME TxInv, LedgerInv', NEW s \in Session, PayCheck(s)
    PROVE  TxInv'
<1> DEFINE p == req[s].payment
<1>1. /\ pc[s] = "payCheck" /\ DOMAIN pc = Session
      /\ RequestOK(s) /\ HoldsItsRow(s) /\ ChecksOf(s)
      /\ p \in Payment /\ p.invoice \in Invoice
      /\ seen[s][p.invoice] = invoices[p.invoice]
  BY DEF TxInv, TypeOK, SessionOK, SnapshotOf, HoldsItsRow, RequestOK, PayCheck, PayStep, Payment
<1>2. CASE Refused(s) /\ Rollback(s)
  BY <1>2, RollbackOK
<1>3. CASE /\ ~Refused(s)
           /\ pc' = [pc EXCEPT ![s] = "payWrite"]
           /\ UNCHANGED <<invoices, payments, now, lock, req, seen>>
  <2>1. /\ p.method # "paystack" => ~(p.kobo > invoices[p.invoice].total - invoices[p.invoice].paid)
        /\ p.method \in StaffTender => ~Repeated(p)
    BY <1>1, <1>3 DEF Refused
  <2>2. p.kobo \in Int /\ invoices[p.invoice].total \in Int /\ invoices[p.invoice].paid \in Int
    <3>1. p.kobo \in Int
      BY <1>1, PaymentTypes
    <3>2. Raised(p.invoice) /\ LedgerTypeOK
      BY <1>1 DEF ChecksOf, TxInv, LedgerInv
    <3> QED
      BY <1>1, <3>1, <3>2, RaisedRow, KoboInt
  <2>3. p.method # "paystack" => p.kobo <= invoices[p.invoice].total - invoices[p.invoice].paid
    BY <2>1, <2>2
  <2>4. pc'[s] = "payWrite"
    BY <1>1, <1>3
  <2>5. RequestOK(s)' /\ HoldsItsRow(s)' /\ ChecksOf(s)'
    BY <1>1, <1>3, <2>1, <2>3, <2>4
    DEF RequestOK, HoldsItsRow, ChecksOf, PayStep, RefundStep, Raised, Repeated
  <2> QED
    BY <1>3, <2>5, CheckOK
<1> QED
  BY <1>2, <1>3 DEF PayCheck

LEMMA RefundCheckOK ==
    ASSUME TxInv, LedgerInv', NEW s \in Session, RefundCheck(s)
    PROVE  TxInv'
<1> DEFINE q == payments[req[s].k]
<1>1. /\ pc[s] = "refundCheck" /\ DOMAIN pc = Session
      /\ RequestOK(s) /\ HoldsItsRow(s) /\ ChecksOf(s)
      /\ req[s].k \in DOMAIN payments /\ req[s].kobo \in Kobo
      /\ payments \in Seq(Payment)
  BY DEF TxInv, TypeOK, LedgerTypeOK, SessionOK, RequestOK, RefundCheck, RefundStep
<1>2. q.kobo \in Int /\ q.refunded \in Int /\ req[s].kobo \in Int
  <2>1. q \in Payment
    BY <1>1
  <2> QED
    BY <1>1, <2>1, PaymentTypes, KoboInt
<1>3. CASE req[s].kobo > q.kobo - q.refunded
  BY <1>3, RollbackOK DEF RefundCheck
<1>4. CASE ~(req[s].kobo > q.kobo - q.refunded)
  <2>1. /\ pc' = [pc EXCEPT ![s] = "refundWrite"]
        /\ UNCHANGED <<invoices, payments, now, lock, req, seen>>
    BY <1>4 DEF RefundCheck
  <2>2. pc'[s] = "refundWrite" /\ q.refunded + req[s].kobo <= q.kobo
    BY <1>1, <1>2, <1>4, <2>1
  <2>3. RequestOK(s)' /\ HoldsItsRow(s)' /\ ChecksOf(s)'
    BY <1>1, <2>1, <2>2 DEF RequestOK, HoldsItsRow, ChecksOf, PayStep, RefundStep
  <2> QED
    BY <2>1, <2>3, CheckOK
<1> QED
  BY <1>3, <1>4

\* The three statements that commit.
LEMMA PayWriteOK ==
    ASSUME TxInv, LedgerInv', NEW s \in Session, PayWrite(s)
    PROVE  TxInv'
<1> DEFINE p == req[s].payment
<1>1. CASE p.ref # NoRef /\ Recorded(p.ref)
  BY <1>1, RollbackOK DEF PayWrite
<1>2. CASE ~(p.ref # NoRef /\ Recorded(p.ref))
  <2>1. /\ payments' = Append(payments, p)
        /\ \A i \in Invoice : i # p.invoice => invoices'[i] = invoices[i]
        /\ Finish(s)
    BY <1>2 DEF PayWrite, TxInv, LedgerInv, LedgerTypeOK
  <2>2. lock[p.invoice] = s /\ p \in Payment /\ payments \in Seq(Payment)
    BY DEF TxInv, SessionOK, HoldsItsRow, RequestOK, PayWrite, PayStep, LedgerInv, LedgerTypeOK
  <2>3. /\ DOMAIN payments \subseteq DOMAIN payments'
        /\ \A k \in DOMAIN payments : payments'[k] = payments[k]
        /\ \A k \in DOMAIN payments' \ DOMAIN payments : payments'[k] = p
    BY <2>1, <2>2
  <2>4. \A t \in Session : t # s => Undisturbed(t)
    BY <2>1, <2>2, <2>3, FinishOK DEF Undisturbed
  <2>5. \A t \in Session : SessionOK(t)'
    BY <2>1, <2>4, FinishOK, UndisturbedOK
  <2> QED
    BY <2>1, <2>5, FinishOK DEF TxInv, TypeOK, LedgerInv, SessionOK
<1> QED
  BY <1>1, <1>2

LEMMA RefundWriteOK ==
    ASSUME TxInv, LedgerInv', NEW s \in Session, RefundWrite(s)
    PROVE  TxInv'
<1> DEFINE k == req[s].k
<1> DEFINE i == payments[k].invoice
<1>1. /\ payments' = [payments EXCEPT ![k].refunded = @ + req[s].kobo]
      /\ \A j \in Invoice : j # i => invoices'[j] = invoices[j]
      /\ Finish(s)
  BY DEF RefundWrite, TxInv, LedgerInv, LedgerTypeOK
<1>2. lock[i] = s /\ k \in DOMAIN payments /\ payments \in Seq(Payment)
  BY DEF TxInv, SessionOK, HoldsItsRow, RequestOK, RefundWrite, RefundStep, LedgerInv, LedgerTypeOK
<1>3. payments[k] \in Payment
  BY <1>2
<1>4. /\ DOMAIN payments' = DOMAIN payments
      /\ \A j \in DOMAIN payments : j # k => payments'[j] = payments[j]
      /\ payments'[k].invoice = payments[k].invoice
      /\ payments'[k].method = payments[k].method
  BY <1>1, <1>2, <1>3 DEF Payment
<1>5. \A t \in Session : t # s => Undisturbed(t)
  BY <1>1, <1>2, <1>4, FinishOK DEF Undisturbed
<1>6. \A t \in Session : SessionOK(t)'
  BY <1>1, <1>5, FinishOK, UndisturbedOK
<1> QED
  BY <1>1, <1>6, FinishOK DEF TxInv, TypeOK, LedgerInv, SessionOK

LEMMA BillCommitOK ==
    ASSUME TxInv, LedgerInv', NEW s \in Session, BillCommit(s)
    PROVE  TxInv'
<1>1. Finish(s) /\ UNCHANGED payments /\ \A i \in Invoice : lock[i] # s => invoices'[i] = invoices[i]
  BY DEF BillCommit
<1>2. \A t \in Session : t # s => Undisturbed(t)
  BY <1>1, FinishOK DEF Undisturbed
<1>3. \A t \in Session : SessionOK(t)'
  BY <1>1, <1>2, FinishOK, UndisturbedOK
<1> QED
  BY <1>1, <1>3, FinishOK DEF TxInv, TypeOK, LedgerInv, SessionOK

\* A billing run takes the row of its next student.
LEMMA BillUpsertOK ==
    ASSUME TxInv, LedgerInv', NEW s \in Session, BillUpsert(s)
    PROVE  TxInv'
<1> DEFINE i == Head(req[s].todo)
<1>1. /\ pc[s] = "bill" /\ req[s] \in [kind: {"bill"}, total: Kobo, todo: Seq(Invoice)]
      /\ req[s].todo # <<>>
      /\ lock \in [Invoice -> Session \cup {Nobody}]
      /\ seen \in [Session -> [Invoice -> InvoiceRow \cup {NoInvoice}]]
      /\ invoices \in [Invoice -> InvoiceRow \cup {NoInvoice}]
      /\ DOMAIN req = Session
      /\ SnapshotOf(s)
  BY DEF BillUpsert, TxInv, TypeOK, LedgerTypeOK, SessionOK, RequestOK
<1>2. i \in Invoice /\ Tail(req[s].todo) \in Seq(Invoice)
  <2>1. req[s].todo \in Seq(Invoice)
    BY <1>1
  <2> QED
    BY <1>1, <2>1
<1>3. /\ UNCHANGED <<invoices, payments, now, pc>>
      /\ lock[i] = Nobody
      /\ lock' = [lock EXCEPT ![i] = s]
      /\ seen' = [seen EXCEPT ![s][i] = invoices[i]]
      /\ req' = [req EXCEPT ![s].todo = Tail(@)]
  BY DEF BillUpsert
<1>4. /\ lock' \in [Invoice -> Session \cup {Nobody}]
      /\ seen' \in [Session -> [Invoice -> InvoiceRow \cup {NoInvoice}]]
      /\ DOMAIN req' = Session
  BY <1>1, <1>2, <1>3
<1>5. \A t \in Session : t # s => Undisturbed(t)
  BY <1>1, <1>3, SessionAssumption DEF Undisturbed
<1>6. req'[s] \in [kind: {"bill"}, total: Kobo, todo: Seq(Invoice)]
  BY <1>1, <1>2, <1>3
<1>7. SnapshotOf(s)'
  BY <1>1, <1>2, <1>3 DEF SnapshotOf
<1>8. SessionOK(s)'
  BY <1>1, <1>3, <1>6, <1>7 DEF SessionOK, RequestOK, HoldsItsRow, ChecksOf, PayStep, RefundStep
<1>9. \A t \in Session : SessionOK(t)'
  BY <1>5, <1>8, UndisturbedOK
<1> QED
  BY <1>3, <1>4, <1>9 DEF TxInv, TypeOK, LedgerInv, SessionOK, TxInv

\* Every step keeps the invariant.
LEMMA TxStep == TxInv /\ [TxNext]_vars => TxInv'
<1> SUFFICES ASSUME TxInv, [TxNext]_vars PROVE TxInv'
  OBVIOUS
<1>1. LedgerInv'
  BY StepRefines, LedgerStep DEF TxInv
<1>2. CASE UNCHANGED vars \/ Tick
  <2>1. UNCHANGED <<invoices, payments, lock, pc, req, seen>> /\ now' \in Time
    BY <1>2 DEF vars, Tick, TxInv, TypeOK
  <2>2. \A t \in Session : SessionOK(t)'
    BY <2>1, UndisturbedOK DEF Undisturbed
  <2> QED
    BY <1>1, <2>1, <2>2 DEF TxInv, TypeOK, LedgerInv, SessionOK
<1>3. ASSUME NEW s \in Session, BeginSome(s) \/ Statement(s) \/ Crash(s)
      PROVE  TxInv'
  <2>1. CASE Crash(s) \/ DeadlockVictim(s)
    BY <1>1, <2>1, RollbackOK DEF Crash, DeadlockVictim
  <2>2. CASE BeginSome(s)
    BY <1>1, <2>2, BeginOK
  <2>3. CASE PayLock(s) \/ PayCheck(s) \/ PayWrite(s)
    BY <1>1, <2>3, PayLockOK, PayCheckOK, PayWriteOK
  <2>4. CASE RefundLock(s) \/ RefundCheck(s) \/ RefundWrite(s)
    BY <1>1, <2>4, RefundLockOK, RefundCheckOK, RefundWriteOK
  <2>5. CASE BillUpsert(s) \/ BillCommit(s)
    BY <1>1, <2>5, BillUpsertOK, BillCommitOK
  <2> QED
    BY <1>3, <2>1, <2>2, <2>3, <2>4, <2>5 DEF Statement
<1> QED
  BY <1>2, <1>3 DEF TxNext

LEMMA TxStart == TxInit => TxInv
<1> SUFFICES ASSUME TxInit PROVE TxInv
  OBVIOUS
<1>1. LedgerInv
  BY DEF TxInit, Init, LedgerInv, LedgerTypeOK, PaymentsOnInvoices, RowsDerived, Raised, RefundsWithinPayment,
         OnePaymentPerReference, TendersSpaced
<1>2. \A s \in Session : SessionOK(s)
  BY SessionAssumption DEF TxInit, SessionOK, RequestOK, SnapshotOf, HoldsItsRow, ChecksOf, PayStep, RefundStep
<1> QED
  BY <1>1, <1>2, TimeAssumption DEF TxInit, TxInv, TypeOK, LedgerInv, SessionOK

LEMMA TxInvariant == TxSpec => []TxInv
BY TxStart, TxStep, PTL DEF TxSpec

-----------------------------------------------------------------------------
(***************************************************************************)
(* The state of the transactions is well formed.                           *)
(***************************************************************************)
THEOREM TypeCorrect == TxSpec => []TypeOK
<1>1. TxInv => TypeOK
  BY DEF TxInv
<1> QED
  BY <1>1, TxInvariant, PTL

(***************************************************************************)
(* No transaction ever computes an invoice from a stale row.               *)
(***************************************************************************)
THEOREM NeverStale == TxSpec => []SnapshotCurrent
<1>1. TxInv => SnapshotCurrent
  BY DEF TxInv, SessionOK, SnapshotCurrent
<1> QED
  BY <1>1, TxInvariant, PTL

(***************************************************************************)
(* What a transaction checked still holds when it writes.                  *)
(***************************************************************************)
THEOREM ChecksHold == TxSpec => []ChecksStillHold
<1>1. TxInv => ChecksStillHold
  BY DEF TxInv, SessionOK, ChecksStillHold
<1> QED
  BY <1>1, TxInvariant, PTL

(***************************************************************************)
(* The interleaved, crashing transactions implement the indivisible ledger.*)
(***************************************************************************)
THEOREM TransactionsImplementLedger == TxSpec => ImplementsLedger
<1>1. TxInit => Init
  BY DEF TxInit
<1>2. TxSpec => [][Next]_ledger
  BY TxInvariant, StepRefines, PTL DEF TxSpec
<1> QED
  BY <1>1, <1>2, PTL DEF TxSpec, ImplementsLedger, Spec

(***************************************************************************)
(* However transactions overlap or die, every invoice says what its        *)
(* payments and refunds add up to: no update is lost.                      *)
(***************************************************************************)
THEOREM NoUpdateLost == TxSpec => []BooksBalance
<1>1. ImplementsLedger => Spec
  BY DEF ImplementsLedger
<1> QED
  BY <1>1, TransactionsImplementLedger, BooksAlwaysBalance

(***************************************************************************)
(* Refunds of a payment never exceed it and a waiver is never refunded.    *)
(***************************************************************************)
THEOREM RefundsNeverExceed == TxSpec => []RefundsWithinPayment
<1>1. TxInv => RefundsWithinPayment
  BY DEF TxInv, LedgerInv
<1> QED
  BY <1>1, TxInvariant, PTL

(***************************************************************************)
(* A Paystack reference is recorded at most once.                          *)
(***************************************************************************)
THEOREM ReferencesUnique == TxSpec => []OnePaymentPerReference
<1>1. TxInv => OnePaymentPerReference
  BY DEF TxInv, LedgerInv
<1> QED
  BY <1>1, TxInvariant, PTL

(***************************************************************************)
(* Equal cash or transfer tenders are at least Window apart.               *)
(***************************************************************************)
THEOREM TendersApart == TxSpec => []TendersSpaced
<1>1. TxInv => TendersSpaced
  BY DEF TxInv, LedgerInv
<1> QED
  BY <1>1, TxInvariant, PTL

(***************************************************************************)
(* A tender or waiver a clerk typed in never drives an invoice below zero. *)
(***************************************************************************)
THEOREM CreditNeedsPaystack == TxSpec => CreditOnlyFromPaystack
<1> DEFINE A == \A i \in Invoice :
                   /\ Raised(i)
                   /\ invoices'[i].balance < 0
                   /\ invoices'[i].balance < invoices[i].balance
                   => \/ invoices'[i].total < invoices[i].total
                      \/ payments' # payments /\ payments'[Len(payments')].method = "paystack"
<1>1. TxInv /\ [TxNext]_vars => A
  BY StepRefines, CreditStep DEF TxInv
<1>2. CreditOnlyFromPaystack <=> [][A]_vars
  BY DEF CreditOnlyFromPaystack
<1> HIDE DEF A
<1>3. TxSpec => [][A]_vars
  BY <1>1, TxInvariant, PTL DEF TxSpec
<1> QED
  BY <1>2, <1>3

-----------------------------------------------------------------------------
\* Where a transaction may hold a row lock: past its SELECT ... FOR UPDATE, or billing.
Holding == {"payCheck", "payWrite", "refundCheck", "refundWrite", "bill"}

\* A billing run comes to every row once, and never to one it has already locked.
EachOnce(s) ==
    LET todo == req[s].todo
    IN  /\ \A m, n \in 1..Len(todo) : todo[m] = todo[n] => m = n
        /\ \A n \in 1..Len(todo) : lock[todo[n]] # s

BillsOnce == \A s \in Session : pc[s] = "bill" => EachOnce(s)

LocksFit == (\A i \in Invoice : lock[i] # Nobody => pc[lock[i]] \in Holding) /\ BillsOnce

LockInv == TxInv /\ LocksFit

\* The row whose lock the next statement of s asks for.
Wanted(s) ==
    CASE pc[s] = "payLock" -> {i \in {req[s].payment.invoice} : Raised(i)}
      [] pc[s] = "refundLock" -> {i \in {payments[req[s].k].invoice} : payments[req[s].k].method # "waiver"}
      [] pc[s] = "bill" -> {i \in Invoice : req[s].todo # <<>> /\ i = Head(req[s].todo)}
      [] OTHER -> {}

\* Whatever s is doing, it waits for a row that another session of the group holds.
Waits(s, group) == \E i \in Wanted(s) : lock[i] \in group \ {s}

\* The sessions with a request, and whether nobody holds what one of them asks for.
Busy == {s \in Session : pc[s] # "idle"}
CanGoOn(s) == \A i \in Wanted(s) : lock[i] = Nobody

-----------------------------------------------------------------------------
\* An order of the class names every invoice once.
LEMMA OrdersOnce ==
    ASSUME NEW order \in Orders
    PROVE  /\ Len(order) = Cardinality(Invoice) /\ Len(order) \in Nat
           /\ \A m, n \in 1..Len(order) : order[m] = order[n] => m = n
<1> DEFINE S == 1..Cardinality(Invoice)
<1>1. Cardinality(Invoice) \in Nat
  BY ClassAssumption, FS_CardinalityType
<1>2. IsFiniteSet(S) /\ Cardinality(S) = Cardinality(Invoice)
  BY <1>1, FS_Interval
<1>3. order \in [S -> Invoice] /\ \A i \in Invoice : \E n \in S : order[n] = i
  BY DEF Orders
<1>4. order \in Surjection(S, Invoice)
  BY <1>3 DEF Surjection
<1>5. order \in Injection(S, Invoice)
  <2> HIDE DEF S
  <2> QED
    BY <1>2, <1>4, FS_Surjection
<1>6. \A m, n \in S : order[m] = order[n] => m = n
  BY <1>5 DEF Injection, IsInjective
<1>7. Len(order) = Cardinality(Invoice)
  BY <1>1, <1>3
<1> QED
  BY <1>1, <1>6, <1>7

\* A step of s alone keeps the lock table in order when s stands where its own locks may be held.
LEMMA OneMoves ==
    ASSUME LockInv, TxInv', NEW s \in Session,
           \A t \in Session : t # s => pc'[t] = pc[t] /\ req'[t] = req[t],
           \A i \in Invoice : lock'[i] = lock[i] \/ lock'[i] = s \/ lock'[i] = Nobody,
           \A i \in Invoice : lock'[i] = s => pc'[s] \in Holding,
           pc'[s] = "bill" => EachOnce(s)'
    PROVE  LocksFit'
<1>1. /\ lock \in [Invoice -> Session \cup {Nobody}]
      /\ lock' \in [Invoice -> Session \cup {Nobody}]
  BY DEF LockInv, TxInv, TypeOK
<1>2. ASSUME NEW i \in Invoice, lock'[i] # Nobody
      PROVE  pc'[lock'[i]] \in Holding
  <2>1. CASE lock'[i] = s
    BY <2>1
  <2>2. CASE lock'[i] # s
    <3>1. lock'[i] = lock[i] /\ lock[i] \in Session
      BY <1>1, <1>2, <2>2
    <3> QED
      BY <1>2, <2>2, <3>1 DEF LockInv, LocksFit
  <2> QED
    BY <2>1, <2>2
<1>3. ASSUME NEW t \in Session, t # s, pc'[t] = "bill"
      PROVE  EachOnce(t)'
  <2>1. pc[t] = "bill" /\ req'[t] = req[t] /\ EachOnce(t)
    BY <1>3 DEF LockInv, LocksFit, BillsOnce
  <2>2. req[t].todo \in Seq(Invoice)
    BY <2>1 DEF LockInv, TxInv, SessionOK, RequestOK, PayStep, RefundStep
  <2>3. \A n \in 1..Len(req[t].todo) : req[t].todo[n] \in Invoice
    BY <2>2
  <2>4. \A i \in Invoice : lock[i] # t => lock'[i] # t
    BY <1>3, SessionAssumption
  <2> QED
    BY <2>1, <2>3, <2>4 DEF EachOnce
<1>4. BillsOnce'
  BY <1>3 DEF BillsOnce
<1> QED
  BY <1>2, <1>4 DEF LocksFit

\* A transaction that ends holds nothing.
LEMMA FinishFits ==
    ASSUME LockInv, TxInv', NEW s \in Session, Finish(s)
    PROVE  LocksFit'
<1>1. /\ pc' = [pc EXCEPT ![s] = "idle"] /\ req' = [req EXCEPT ![s] = NoRequest]
      /\ lock' = [i \in Invoice |-> IF lock[i] = s THEN Nobody ELSE lock[i]]
      /\ DOMAIN pc = Session /\ DOMAIN req = Session
  BY DEF Finish, LockInv, TxInv, TypeOK
<1>2. pc'[s] = "idle" /\ \A t \in Session : t # s => pc'[t] = pc[t] /\ req'[t] = req[t]
  BY <1>1
<1>3. \A i \in Invoice : lock'[i] # s /\ (lock'[i] = lock[i] \/ lock'[i] = Nobody)
  BY <1>1, SessionAssumption
<1> QED
  BY <1>2, <1>3, OneMoves

\* A statement that takes no lock, or one row's, and stays or goes where a lock may be held.
LEMMA PlaceFits ==
    ASSUME LockInv, TxInv', NEW s \in Session, NEW next \in Holding \ {"bill"},
           pc' = [pc EXCEPT ![s] = next], UNCHANGED req,
           \A i \in Invoice : lock'[i] = lock[i] \/ lock'[i] = s
    PROVE  LocksFit'
<1>1. DOMAIN pc = Session
  BY DEF LockInv, TxInv, TypeOK
<1>2. pc'[s] = next /\ next # "bill" /\ next \in Holding /\ \A t \in Session : t # s => pc'[t] = pc[t]
  BY <1>1
<1> QED
  BY <1>2, OneMoves

\* A request begins without a lock; a billing run with every row still ahead of it.
LEMMA BeginFits ==
    ASSUME LockInv, TxInv', NEW s \in Session, BeginSome(s)
    PROVE  LocksFit'
<1>1. /\ lock' = lock /\ pc[s] = "idle"
      /\ \A t \in Session : t # s => pc'[t] = pc[t] /\ req'[t] = req[t]
  BY DEF BeginSome, BeginPay, BeginRefund, BeginBill, Begin, LockInv, TxInv, TypeOK
<1>2. \A i \in Invoice : lock[i] # s
  BY <1>1, SessionAssumption DEF LockInv, LocksFit, Holding
<1>3. ASSUME pc'[s] = "bill"
      PROVE  EachOnce(s)'
  <2>1. PICK total \in Kobo, order \in Orders : BeginBill(s, total, order)
    BY <1>3 DEF BeginSome, BeginPay, BeginRefund, Begin, LockInv, TxInv, TypeOK
  <2>2. req'[s].todo = order
    BY <2>1 DEF BeginBill, Begin, BillRequest, LockInv, TxInv, TypeOK
  <2>3. \A n \in 1..Len(order) : order[n] \in Invoice
    BY OrdersOnce DEF Orders
  <2> QED
    BY <1>1, <1>2, <2>2, <2>3, OrdersOnce DEF EachOnce
<1> QED
  BY <1>1, <1>2, <1>3, OneMoves

\* A billing run locks the row it comes to and has it no longer ahead.
LEMMA UpsertFits ==
    ASSUME LockInv, TxInv', NEW s \in Session, BillUpsert(s)
    PROVE  LocksFit'
<1> DEFINE todo == req[s].todo
<1>1. /\ pc[s] = "bill" /\ pc' = pc /\ todo \in Seq(Invoice) /\ todo # <<>> /\ EachOnce(s)
      /\ lock \in [Invoice -> Session \cup {Nobody}]
      /\ lock' = [lock EXCEPT ![Head(todo)] = s]
      /\ req' = [req EXCEPT ![s].todo = Tail(todo)] /\ DOMAIN req = Session
  BY DEF BillUpsert, LockInv, LocksFit, BillsOnce, TxInv, TypeOK, SessionOK, RequestOK, PayStep, RefundStep
<1>2. req'[s].todo = Tail(todo) /\ \A t \in Session : t # s => req'[t] = req[t]
  <2>1. req[s] \in [kind: {"bill"}, total: Kobo, todo: Seq(Invoice)]
    BY <1>1 DEF LockInv, TxInv, SessionOK, RequestOK
  <2> QED
    BY <1>1, <2>1
<1> HIDE DEF todo
<1>3. /\ Len(Tail(todo)) = Len(todo) - 1 /\ Len(todo) \in Nat
      /\ \A n \in 1..Len(Tail(todo)) : n + 1 \in 1..Len(todo) /\ Tail(todo)[n] = todo[n + 1]
      /\ Head(todo) = todo[1] /\ 1 \in 1..Len(todo) /\ Head(todo) \in Invoice
  BY <1>1
<1>4. /\ \A m, n \in 1..Len(todo) : todo[m] = todo[n] => m = n
      /\ \A n \in 1..Len(todo) : todo[n] \in Invoice /\ lock[todo[n]] # s
  BY <1>1 DEF EachOnce, todo
<1>5. \A i \in Invoice : i # Head(todo) => lock'[i] = lock[i]
  BY <1>1
<1>6. \A n \in 1..Len(Tail(todo)) :
          Tail(todo)[n] # Head(todo) /\ Tail(todo)[n] \in Invoice /\ lock[Tail(todo)[n]] # s
  BY <1>3, <1>4
<1>7. \A m, n \in 1..Len(Tail(todo)) : Tail(todo)[m] = Tail(todo)[n] => m = n
  BY <1>3, <1>4
<1>8. EachOnce(s)'
  BY <1>2, <1>5, <1>6, <1>7 DEF EachOnce
<1>9. \A i \in Invoice : lock'[i] = lock[i] \/ lock'[i] = s
  BY <1>1, <1>3
<1> QED
  BY <1>1, <1>2, <1>8, <1>9, OneMoves DEF Holding

\* Every step keeps the lock table in order.
LEMMA LockStep == LockInv /\ [TxNext]_vars => LockInv'
<1> SUFFICES ASSUME LockInv, [TxNext]_vars PROVE LockInv'
  OBVIOUS
<1>1. TxInv'
  BY TxStep DEF LockInv
<1>2. CASE UNCHANGED <<lock, pc, req>>
  <2>1. \A s : EachOnce(s)' <=> EachOnce(s)
    BY <1>2 DEF EachOnce
  <2>2. LocksFit'
    BY <1>2, <2>1 DEF LocksFit, BillsOnce, LockInv
  <2> QED
    BY <1>1, <2>2 DEF LockInv
<1>3. ASSUME NEW s \in Session, BeginSome(s) \/ Statement(s) \/ Crash(s)
      PROVE  LocksFit'
  <2>1. CASE Finish(s)
    BY <1>1, <2>1, FinishFits
  <2>2. CASE \E next \in Holding \ {"bill"} : /\ pc' = [pc EXCEPT ![s] = next] /\ UNCHANGED req
                                              /\ \A i \in Invoice : lock'[i] = lock[i] \/ lock'[i] = s
    BY <1>1, <2>2, PlaceFits
  <2>3. CASE Crash(s) \/ DeadlockVictim(s)
    BY <2>1, <2>3 DEF Crash, DeadlockVictim, Rollback
  <2>4. CASE BeginSome(s)
    BY <1>1, <2>4, BeginFits
  <2>5. CASE PayWrite(s) \/ RefundWrite(s) \/ BillCommit(s)
    BY <2>1, <2>5 DEF PayWrite, RefundWrite, BillCommit, Rollback
  <2>6. CASE BillUpsert(s)
    BY <1>1, <2>6, UpsertFits
  <2>7. CASE PayLock(s) \/ RefundLock(s)
    <3>1. \A i, next : Lock(s, i, next) =>
            /\ pc' = [pc EXCEPT ![s] = next] /\ UNCHANGED req
            /\ \A j \in Invoice : lock'[j] = lock[j] \/ lock'[j] = s
      BY DEF Lock, LockInv, TxInv, TypeOK
    <3>2. Finish(s) \/ \E i : Lock(s, i, "payCheck") \/ Lock(s, i, "refundCheck")
      BY <2>7 DEF PayLock, RefundLock, Rollback
    <3> QED
      BY <2>1, <2>2, <3>1, <3>2 DEF Holding
  <2>8. CASE PayCheck(s) \/ RefundCheck(s)
    BY <2>1, <2>2, <2>8 DEF PayCheck, RefundCheck, Rollback, Holding
  <2> QED
    BY <1>3, <2>3, <2>4, <2>5, <2>6, <2>7, <2>8 DEF Statement
<1>4. CASE \E s \in Session : BeginSome(s) \/ Statement(s) \/ Crash(s)
  BY <1>1, <1>3, <1>4 DEF LockInv
<1> QED
  BY <1>2, <1>4 DEF TxNext, Tick, vars

\* The lock table matches what its holders are doing.
LEMMA LocksFollow == TxSpec => []LockInv
<1>1. TxInit => LocksFit
  BY DEF TxInit, LocksFit, BillsOnce
<1> QED
  BY <1>1, TxStart, LockStep, PTL DEF TxSpec, LockInv

\* The billing runs among them.
Billing(group) == {s \in group : pc[s] = "bill"}

\* A transaction waits only where it asks for a lock; only a billing run holds one there.
LEMMA HoldersBill ==
    ASSUME LockInv, NEW s \in Session, NEW i \in Wanted(s), lock[i] # Nobody
    PROVE  /\ i \in Invoice /\ lock[i] \in Session /\ lock[i] # s /\ lock[i] \in Busy
           /\ pc[lock[i]] \in {"payLock", "refundLock", "bill"} => pc[lock[i]] = "bill"
           /\ pc[s] \in {"payLock", "refundLock", "bill"}
<1>1. /\ lock \in [Invoice -> Session \cup {Nobody}] /\ payments \in Seq(Payment)
      /\ RequestOK(s) /\ LocksFit
  BY DEF LockInv, TxInv, TypeOK, LedgerTypeOK
<1>2. pc[s] \in {"payLock", "refundLock", "bill"}
  BY DEF Wanted
<1>3. CASE pc[s] = "payLock"
  <2>1. i = req[s].payment.invoice /\ req[s].payment \in Payment
    BY <1>1, <1>3 DEF Wanted, RequestOK, PayStep
  <2>2. i \in Invoice
    BY <2>1 DEF Payment
  <2> QED
    BY <1>1, <1>3, <2>2 DEF LocksFit, Holding, Busy
<1>4. CASE pc[s] = "refundLock"
  <2>1. i = payments[req[s].k].invoice /\ req[s].k \in DOMAIN payments
    BY <1>1, <1>4 DEF Wanted, RequestOK, RefundStep
  <2>2. payments[req[s].k] \in Payment
    BY <1>1, <2>1
  <2>3. i \in Invoice
    BY <2>1, <2>2 DEF Payment
  <2> QED
    BY <1>1, <1>4, <2>3 DEF LocksFit, Holding, Busy
<1>5. CASE pc[s] = "bill"
  <2>1. i \in Invoice /\ req[s].todo # <<>> /\ i = Head(req[s].todo)
    BY <1>5 DEF Wanted
  <2>2. req[s].todo \in Seq(Invoice) /\ EachOnce(s)
    BY <1>1, <1>5 DEF RequestOK, LocksFit, BillsOnce
  <2>3. lock[i] # s
    BY <2>1, <2>2 DEF EachOnce
  <2> QED
    BY <1>1, <1>5, <2>1, <2>3 DEF LocksFit, Holding, Busy
<1> QED
  BY <1>2, <1>3, <1>4, <1>5

\* In a circle of waiting transactions the rows waited for are held by billing runs.
LEMMA WaitsAreBillings ==
    ASSUME LockInv, NEW group \in SUBSET Session, \A s \in group : Waits(s, group), NEW s \in group
    PROVE  /\ Billing(group) # {}
           /\ s \in Billing(group) => Blocked(s, Billing(group))
<1>1. PICK i \in Wanted(s) : lock[i] \in group \ {s}
  BY DEF Waits
<1>2. lock[i] # Nobody
  BY <1>1, SessionAssumption
<1>3. pc[lock[i]] \in {"payLock", "refundLock", "bill"}
  BY <1>1 DEF Waits, Wanted
<1>4. pc[lock[i]] = "bill" /\ lock[i] # s
  BY <1>1, <1>2, <1>3, HoldersBill
<1>5. lock[i] \in Billing(group) \ {s}
  BY <1>1, <1>4 DEF Billing
<1>6. ASSUME s \in Billing(group)
      PROVE  Blocked(s, Billing(group))
  <2>1. pc[s] = "bill"
    BY <1>6 DEF Billing
  <2>2. req[s].todo # <<>> /\ i = Head(req[s].todo)
    BY <1>1, <2>1 DEF Wanted
  <2> QED
    BY <1>5, <2>1, <2>2 DEF Blocked
<1> QED
  BY <1>5, <1>6

(***************************************************************************)
(* A payment or a refund never takes part in a deadlock: in every circle   *)
(* of waiting transactions there are billing runs that wait for each other *)
(* in a circle of their own, where PostgreSQL finds its victim.            *)
(***************************************************************************)
THEOREM DeadlocksAreBillings ==
    TxSpec => [](\A group \in SUBSET Session :
                    group # {} /\ (\A s \in group : Waits(s, group)) =>
                        /\ Billing(group) # {}
                        /\ \A s \in Billing(group) : Blocked(s, Billing(group)))
<1> DEFINE Circles == \A group \in SUBSET Session :
                          group # {} /\ (\A s \in group : Waits(s, group)) =>
                              /\ Billing(group) # {}
                              /\ \A s \in Billing(group) : Blocked(s, Billing(group))
<1>1. LockInv => Circles
  <2> SUFFICES ASSUME LockInv, NEW group \in SUBSET Session, group # {}, \A s \in group : Waits(s, group)
               PROVE  /\ Billing(group) # {}
                      /\ \A s \in Billing(group) : Blocked(s, Billing(group))
    OBVIOUS
  <2>1. \A s \in group : Billing(group) # {} /\ (s \in Billing(group) => Blocked(s, Billing(group)))
    BY WaitsAreBillings
  <2>2. Billing(group) \subseteq group
    BY DEF Billing
  <2> QED
    BY <2>1, <2>2
<1>2. TxSpec => []Circles
  BY <1>1, LocksFollow, PTL
<1> QED
  BY <1>2

(***************************************************************************)
(* The database never stands still on its row locks: while a request is    *)
(* under way, some transaction asks for no row that is held, or some are   *)
(* billing runs in a circle, one of which PostgreSQL rolls back.           *)
(***************************************************************************)
THEOREM LocksNeverStick ==
    TxSpec => [](Busy # {} =>
                    \/ \E s \in Busy : CanGoOn(s)
                    \/ \E group \in SUBSET Busy : group # {} /\ \A s \in group : Blocked(s, group))
<1> DEFINE Moves == Busy # {} =>
                       \/ \E s \in Busy : CanGoOn(s)
                       \/ \E group \in SUBSET Busy : group # {} /\ \A s \in group : Blocked(s, group)
<1>1. LockInv => Moves
  <2> SUFFICES ASSUME LockInv, Busy # {}, ~ \E s \in Busy : CanGoOn(s)
               PROVE  \E group \in SUBSET Busy : group # {} /\ \A s \in group : Blocked(s, group)
    OBVIOUS
  <2>1. Busy \in SUBSET Session /\ Billing(Busy) \in SUBSET Busy
    BY DEF Busy, Billing
  <2>2. ASSUME NEW s \in Busy
        PROVE  Waits(s, Busy)
    <3>1. PICK i \in Wanted(s) : lock[i] # Nobody
      BY DEF CanGoOn
    <3> QED
      BY <2>1, <3>1, HoldersBill DEF Waits
  <2>3. Billing(Busy) # {} /\ \A s \in Billing(Busy) : Blocked(s, Billing(Busy))
    BY <2>1, <2>2, WaitsAreBillings
  <2> QED
    BY <2>1, <2>3
<1>2. TxSpec => []Moves
  BY <1>1, LocksFollow, PTL
<1> QED
  BY <1>2
=============================================================================
