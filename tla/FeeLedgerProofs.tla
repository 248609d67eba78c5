--------------------------- MODULE FeeLedgerProofs ---------------------------
(***************************************************************************)
(* The safety of the fee ledger's indivisible operations, for any set of   *)
(* invoices, amounts, references and times.                                *)
(*                                                                         *)
(* The second half is about the books.  Received is a fold over a finite   *)
(* set: its lemmas say that it exists, takes any member off first and      *)
(* moves with one member.  The library's induction theorems have an        *)
(* operator as a parameter, so the inductions on the size of a set go by   *)
(* the least size at which the claim fails (FirstFailure, from WFMin).     *)
(***************************************************************************)
EXTENDS FeeLedger, FiniteSetTheorems, WellFoundedInduction, TLAPS

\* A payment is only ever on an invoice that was raised.
PaymentsOnInvoices == \A k \in DOMAIN payments : Raised(payments[k].invoice)

\* Balance and status are those of the row's own total and amount paid.
RowsDerived == \A i \in Invoice : Raised(i) => invoices[i] = Row(invoices[i].total, invoices[i].paid)

LedgerInv ==
    /\ LedgerTypeOK
    /\ PaymentsOnInvoices
    /\ RowsDerived
    /\ RefundsWithinPayment
    /\ OnePaymentPerReference
    /\ TendersSpaced

\* Whatever total is billed and whatever was paid, the row written is a well-formed invoice.
LEMMA RowType ==
    ASSUME NEW total \in Kobo, NEW paid \in Int
    PROVE  /\ Row(total, paid) \in InvoiceRow
           /\ Row(total, paid) # NoInvoice
           /\ Row(total, paid).total = total
           /\ Row(total, paid).paid = paid
<1>1. Row(total, paid) \in InvoiceRow
  BY KoboAssumption DEF Row, InvoiceRow, Status
<1>2. Row(total, paid) # NoInvoice
  BY <1>1, NullAssumption
<1> QED
  BY <1>1, <1>2 DEF Row

\* A raised invoice is a well-formed row.
LEMMA RaisedRow ==
    ASSUME LedgerTypeOK, NEW i \in Invoice, Raised(i)
    PROVE  invoices[i] \in InvoiceRow /\ invoices[i].total \in Kobo /\ invoices[i].paid \in Int
BY DEF LedgerTypeOK, Raised, InvoiceRow

\* Recording a payment keeps the ledger safe.
LEMMA PayKeepsInv ==
    ASSUME LedgerInv, NEW p \in Payment, p.refunded = 0, Pay(p)
    PROVE  LedgerInv'
<1> DEFINE i == p.invoice
<1>1. i \in Invoice /\ p.kobo \in Kobo /\ p.kobo \in Nat /\ p.at \in Nat
  BY KoboAssumption, TimeAssumption DEF Payment
<1>2. /\ payments \in Seq(Payment)
      /\ payments' = Append(payments, p)
      /\ Raised(i)
      /\ Acceptable(p)
  BY DEF LedgerInv, LedgerTypeOK, Pay
<1>3. /\ payments' \in Seq(Payment)
      /\ Len(payments') = Len(payments) + 1
      /\ \A k \in 1..Len(payments) : payments'[k] = payments[k]
      /\ payments'[Len(payments) + 1] = p
      /\ DOMAIN payments = 1..Len(payments)
      /\ DOMAIN payments' = 1..(Len(payments) + 1)
      /\ Len(payments) \in Nat
      /\ \A k \in DOMAIN payments : payments[k] \in Payment
  BY <1>2
<1>4. \A k \in DOMAIN payments' : k \in DOMAIN payments \/ k = Len(payments) + 1
  BY <1>3
<1>5. LedgerTypeOK'
  <2>1. invoices[i].total \in Kobo /\ invoices[i].paid + p.kobo \in Int
    BY <1>1, <1>2, RaisedRow DEF LedgerInv
  <2>2. invoices' = [invoices EXCEPT ![i] = Row(invoices[i].total, invoices[i].paid + p.kobo)]
    BY DEF Pay
  <2>3. invoices' \in [Invoice -> InvoiceRow \cup {NoInvoice}]
    BY <1>1, <2>1, <2>2, RowType DEF LedgerInv, LedgerTypeOK
  <2> QED
    BY <1>3, <2>3 DEF LedgerTypeOK
<1>6. PaymentsOnInvoices'
  <2>1. \A j \in Invoice : Raised(j) => invoices'[j] # NoInvoice
    <3>1. invoices[i].total \in Kobo /\ invoices[i].paid + p.kobo \in Int
      BY <1>1, <1>2, RaisedRow DEF LedgerInv
    <3> QED
      BY <1>1, <3>1, RowType DEF Pay, Raised, LedgerInv, LedgerTypeOK
  <2>2. \A k \in DOMAIN payments : payments[k].invoice \in Invoice
    BY <1>3 DEF Payment
  <2> QED
    BY <1>1, <1>2, <1>3, <1>4, <2>1, <2>2 DEF PaymentsOnInvoices, Raised, LedgerInv
<1>7. RefundsWithinPayment'
  BY <1>1, <1>3, <1>4 DEF RefundsWithinPayment, LedgerInv
<1>8. OnePaymentPerReference'
  <2>1. p.ref # NoRef => \A k \in DOMAIN payments : payments[k].ref # p.ref
    BY <1>2 DEF Acceptable, Recorded
  <2> QED
    BY <1>3, <1>4, <2>1 DEF OnePaymentPerReference, LedgerInv
<1>9. TendersSpaced'
  <2> SUFFICES ASSUME NEW j \in DOMAIN payments', NEW k \in DOMAIN payments', j < k,
                      payments'[j].method \in StaffTender,
                      payments'[j].invoice = payments'[k].invoice,
                      payments'[j].method = payments'[k].method,
                      payments'[j].kobo = payments'[k].kobo
               PROVE  payments'[j].at <= payments'[k].at - Window
    BY DEF TendersSpaced
  <2>1. CASE k \in DOMAIN payments
    BY <1>3, <2>1 DEF TendersSpaced, LedgerInv
  <2>2. CASE k = Len(payments) + 1
    <3>1. j \in DOMAIN payments /\ payments'[j] = payments[j] /\ payments'[k] = p
      BY <1>3, <2>2
    <3>2. ~(payments[j].at > p.at - Window)
      BY <1>2, <3>1 DEF Acceptable, Repeated
    <3>3. payments[j].at \in Nat
      BY <1>3, <3>1, TimeAssumption DEF Payment
    <3> QED
      BY <1>1, <3>1, <3>2, <3>3, TimeAssumption
  <2> QED
    BY <1>4, <2>1, <2>2
<1>10. RowsDerived'
  <2>1. invoices[i].total \in Kobo /\ invoices[i].paid + p.kobo \in Int
    BY <1>1, <1>2, RaisedRow DEF LedgerInv
  <2> QED
    BY <1>1, <2>1, RowType DEF Pay, RowsDerived, Raised, LedgerInv, LedgerTypeOK
<1> QED
  BY <1>5, <1>6, <1>7, <1>8, <1>9, <1>10 DEF LedgerInv

\* A payment stays one when another sum of it is refunded.
LEMMA RefundedTyped ==
    ASSUME NEW p \in Payment, NEW n \in Nat
    PROVE  [p EXCEPT !.refunded = n] \in Payment
  BY DEF Payment

\* Recording a refund keeps the ledger safe.
LEMMA RefundKeepsInv ==
    ASSUME LedgerInv, NEW k \in DOMAIN payments, NEW kobo \in Kobo, Refund(k, kobo)
    PROVE  LedgerInv'
<1> DEFINE q == payments[k]
<1> DEFINE i == q.invoice
<1>1. /\ payments \in Seq(Payment)
      /\ q \in Payment
      /\ kobo \in Nat
      /\ Raised(i)
      /\ q.method # "waiver"
      /\ q.refunded + kobo <= q.kobo
      /\ payments' = [payments EXCEPT ![k].refunded = @ + kobo]
  BY KoboAssumption DEF LedgerInv, LedgerTypeOK, PaymentsOnInvoices, Refund
<1>2. i \in Invoice /\ q.kobo \in Nat /\ q.refunded \in Nat
  BY <1>1, KoboAssumption DEF Payment
<1>3. [q EXCEPT !.refunded = @ + kobo] \in Payment
  <2>1. q.refunded + kobo \in Nat
    BY <1>1, <1>2
  <2> QED BY <1>1, <2>1, RefundedTyped
<1>4. /\ payments' \in Seq(Payment)
      /\ DOMAIN payments' = DOMAIN payments
      /\ payments'[k] = [q EXCEPT !.refunded = @ + kobo]
      /\ \A j \in DOMAIN payments : j # k => payments'[j] = payments[j]
  BY <1>1, <1>3
<1>5. \A j \in DOMAIN payments :
         /\ payments'[j].invoice = payments[j].invoice
         /\ payments'[j].kobo = payments[j].kobo
         /\ payments'[j].method = payments[j].method
         /\ payments'[j].ref = payments[j].ref
         /\ payments'[j].at = payments[j].at
         /\ payments'[j].refunded = IF j = k THEN q.refunded + kobo ELSE payments[j].refunded
  BY <1>1, <1>4 DEF Payment
<1>6. invoices[i].total \in Kobo /\ invoices[i].paid - kobo \in Int
  BY <1>1, <1>2, RaisedRow DEF LedgerInv
<1>7. invoices' = [invoices EXCEPT ![i] = Row(invoices[i].total, invoices[i].paid - kobo)]
  BY DEF Refund
<1>8. LedgerTypeOK'
  BY <1>2, <1>4, <1>6, <1>7, RowType DEF LedgerInv, LedgerTypeOK
<1>9. PaymentsOnInvoices'
  <2>1. \A j \in Invoice : Raised(j) => invoices'[j] # NoInvoice
    BY <1>2, <1>6, <1>7, RowType DEF Raised, LedgerInv, LedgerTypeOK
  <2>2. \A j \in DOMAIN payments : payments[j].invoice \in Invoice
    <3>1. \A j \in DOMAIN payments : payments[j] \in Payment
      BY <1>1
    <3> QED
      BY <3>1 DEF Payment
  <2> QED
    BY <1>4, <1>5, <2>1, <2>2 DEF PaymentsOnInvoices, Raised, LedgerInv
<1>10. RefundsWithinPayment'
  BY <1>1, <1>2, <1>4, <1>5 DEF RefundsWithinPayment, LedgerInv
<1>11. OnePaymentPerReference'
  BY <1>4, <1>5 DEF OnePaymentPerReference, LedgerInv
<1>12. TendersSpaced'
  BY <1>4, <1>5 DEF TendersSpaced, LedgerInv
<1>13. RowsDerived'
  BY <1>2, <1>6, <1>7, RowType DEF RowsDerived, Raised, LedgerInv, LedgerTypeOK
<1> QED
  BY <1>8, <1>9, <1>10, <1>11, <1>12, <1>13 DEF LedgerInv

\* A billing run keeps the ledger safe.
LEMMA BillKeepsInv ==
    ASSUME LedgerInv, NEW students \in SUBSET Invoice, NEW total \in Kobo, Bill(students, total)
    PROVE  LedgerInv'
<1>1. \A i \in Invoice :
         /\ Row(total, IF Raised(i) THEN invoices[i].paid ELSE 0) \in InvoiceRow
         /\ Row(total, IF Raised(i) THEN invoices[i].paid ELSE 0) # NoInvoice
  BY RowType, RaisedRow DEF LedgerInv
<1>2. LedgerTypeOK'
  BY <1>1 DEF Bill, LedgerInv, LedgerTypeOK
<1>3. PaymentsOnInvoices'
  <2>1. \A k \in DOMAIN payments : payments[k].invoice \in Invoice
    <3>1. \A k \in DOMAIN payments : payments[k] \in Payment
      BY DEF LedgerInv, LedgerTypeOK
    <3> QED
      BY <3>1 DEF Payment
  <2>2. \A i \in Invoice : Raised(i) => invoices'[i] # NoInvoice
    BY <1>1 DEF Bill, Raised
  <2> QED
    BY <2>1, <2>2 DEF Bill, PaymentsOnInvoices, Raised, LedgerInv
<1>4. RefundsWithinPayment' /\ OnePaymentPerReference' /\ TendersSpaced'
  BY DEF Bill, RefundsWithinPayment, OnePaymentPerReference, TendersSpaced, LedgerInv
<1>5. RowsDerived'
  <2>1. \A i \in Invoice : Raised(i) => invoices[i].paid \in Int
    BY RaisedRow DEF LedgerInv
  <2> QED
    BY <2>1, RowType DEF Bill, RowsDerived, Raised, LedgerInv
<1> QED
  BY <1>2, <1>3, <1>4, <1>5 DEF LedgerInv

\* Every step of the ledger keeps it safe.
LEMMA LedgerStep == LedgerInv /\ [Next]_ledger => LedgerInv'
<1> SUFFICES ASSUME LedgerInv, [Next]_ledger PROVE LedgerInv'
  OBVIOUS
<1>1. CASE UNCHANGED ledger
  BY <1>1 DEF ledger, LedgerInv, LedgerTypeOK, PaymentsOnInvoices, RowsDerived, Raised, RefundsWithinPayment,
              OnePaymentPerReference, TendersSpaced
<1>2. ASSUME NEW i \in Invoice, NEW kobo \in Kobo, NEW method \in Method,
             NEW ref \in Reference \cup {NoRef}, NEW at \in Time,
             Pay(NewPayment(i, kobo, method, ref, at))
      PROVE  LedgerInv'
  <2>1. /\ NewPayment(i, kobo, method, ref, at) \in Payment
        /\ NewPayment(i, kobo, method, ref, at).refunded = 0
    BY DEF NewPayment, Payment
  <2> QED
    BY <1>2, <2>1, PayKeepsInv
<1>3. ASSUME NEW k \in DOMAIN payments, NEW kobo \in Kobo, Refund(k, kobo)
      PROVE  LedgerInv'
  BY <1>3, RefundKeepsInv
<1>4. ASSUME NEW students \in SUBSET Invoice, NEW total \in Kobo, Bill(students, total)
      PROVE  LedgerInv'
  BY <1>4, BillKeepsInv
<1> QED
  BY <1>1, <1>2, <1>3, <1>4 DEF Next

\* No step but a Paystack payment or a cheaper bill drives an invoice further below zero.
LEMMA CreditStep ==
    ASSUME LedgerInv, [Next]_ledger, NEW i \in Invoice, Raised(i),
           invoices'[i].balance < 0, invoices'[i].balance < invoices[i].balance
    PROVE  \/ invoices'[i].total < invoices[i].total
           \/ payments' # payments /\ payments'[Len(payments')].method = "paystack"
<1>1. /\ invoices[i].total \in Int /\ invoices[i].paid \in Int
      /\ invoices[i].balance = invoices[i].total - invoices[i].paid
  <2>1. invoices[i].total \in Kobo /\ invoices[i].paid \in Int
    BY RaisedRow DEF LedgerInv
  <2>2. invoices[i] = Row(invoices[i].total, invoices[i].paid)
    BY DEF LedgerInv, RowsDerived
  <2>3. Row(invoices[i].total, invoices[i].paid).balance = invoices[i].total - invoices[i].paid
    BY DEF Row
  <2>4. \A n \in Kobo : n \in Int
    BY KoboAssumption
  <2> QED
    BY <2>1, <2>2, <2>3, <2>4
<1>2. CASE UNCHANGED ledger
  BY <1>1, <1>2 DEF ledger
<1>3. ASSUME NEW j \in Invoice, NEW kobo \in Kobo, NEW method \in Method,
             NEW ref \in Reference \cup {NoRef}, NEW at \in Time,
             Pay(NewPayment(j, kobo, method, ref, at))
      PROVE  payments' # payments /\ payments'[Len(payments')].method = "paystack"
  <2> DEFINE p == NewPayment(j, kobo, method, ref, at)
  <2>1. p.invoice = j /\ p.kobo = kobo /\ p.method = method
    BY DEF NewPayment
  <2>2. /\ payments \in Seq(Payment) /\ p \in Payment
        /\ payments' = Append(payments, p)
        /\ invoices' = [invoices EXCEPT ![j] = Row(invoices[j].total, invoices[j].paid + kobo)]
        /\ Acceptable(p)
    BY <1>3, <2>1 DEF Pay, LedgerInv, LedgerTypeOK, NewPayment, Payment
  <2> HIDE DEF p
  <2>3. payments' # payments /\ payments'[Len(payments')] = p
    BY <2>2
  <2>4. i = j
    BY <1>1, <2>2 DEF LedgerInv, LedgerTypeOK
  <2>5. invoices'[i].balance = invoices[i].total - (invoices[i].paid + kobo)
    BY <2>2, <2>4 DEF Row, LedgerInv, LedgerTypeOK
  <2>6. kobo \in Int
    BY KoboAssumption
  <2>7. ~(kobo <= invoices[i].total - invoices[i].paid)
    BY <1>1, <2>5, <2>6
  <2>8. method = "paystack"
    BY <2>1, <2>2, <2>4, <2>7 DEF Acceptable
  <2> QED
    BY <2>1, <2>3, <2>8
<1>4. ASSUME NEW k \in DOMAIN payments, NEW kobo \in Kobo, Refund(k, kobo)
      PROVE  FALSE
  <2>1. payments[k].invoice # i => invoices'[i] = invoices[i]
    BY <1>4 DEF Refund, LedgerInv, LedgerTypeOK
  <2>2. payments[k].invoice = i => invoices'[i].balance = invoices[i].total - (invoices[i].paid - kobo)
    BY <1>4 DEF Refund, Row, LedgerInv, LedgerTypeOK
  <2>3. kobo \in Nat
    BY KoboAssumption
  <2> QED
    BY <1>1, <2>1, <2>2, <2>3
<1>5. ASSUME NEW students \in SUBSET Invoice, NEW total \in Kobo, Bill(students, total)
      PROVE  invoices'[i].total < invoices[i].total
  <2>1. i \notin students => invoices'[i] = invoices[i]
    BY <1>5 DEF Bill
  <2>2. i \in students => /\ invoices'[i].balance = total - invoices[i].paid
                          /\ invoices'[i].total = total
    BY <1>5 DEF Bill, Row
  <2>3. total \in Int
    BY KoboAssumption
  <2> QED
    BY <1>1, <2>1, <2>2, <2>3
<1> QED
  BY <1>2, <1>3, <1>4, <1>5 DEF Next

(***************************************************************************)
(* The ledger is safe for every set of invoices, amounts and references:   *)
(* refunds stay within their payment, a reference is recorded once, equal  *)
(* tenders are a window apart.                                             *)
(***************************************************************************)
THEOREM LedgerSafe == Spec => []LedgerInv
<1>1. Init => LedgerInv
  BY DEF Init, LedgerInv, LedgerTypeOK, PaymentsOnInvoices, RowsDerived, Raised, RefundsWithinPayment,
         OnePaymentPerReference, TendersSpaced
<1> QED
  BY <1>1, LedgerStep, PTL DEF Spec

-----------------------------------------------------------------------------
\* Received, with the payments a parameter: what those numbered in ks brought in.
Sum(ps, ks) == MapThenSumSet(LAMBDA k : ps[k].kobo - ps[k].refunded, ks)

\* One payment, its refunds taken off.
Net(ps, k) == ps[k].kobo - ps[k].refunded

\* The member of s the fold takes next.
Chosen(s) == CHOOSE k \in s : TRUE

\* One turn of the fold over s, given the sums f of smaller sets.
Turn(ps, f, s) == IF s = {} THEN 0 ELSE Net(ps, Chosen(s)) + f[s \ {Chosen(s)}]

\* f sums every subset of ks of at most n members.
Sums(ps, ks, n, f) ==
    /\ DOMAIN f = SUBSET ks
    /\ \A s \in SUBSET ks : Cardinality(s) <= n => f[s] = Turn(ps, f, s)

\* MapThenSumSet, read as the recursive function it is.
LEMMA SumUnfolds ==
    ASSUME NEW ps, NEW ks
    PROVE  Sum(ps, ks) = (CHOOSE f : f = [s \in SUBSET ks |-> Turn(ps, f, s)])[ks]
BY DEF Sum, Turn, Net, Chosen, MapThenSumSet, MapThenFoldSet

\* What fails somewhere fails somewhere for the first time.
LEMMA FirstFailure ==
    ASSUME NEW Good, NEW m \in Nat, m \notin Good
    PROVE  \E n \in Nat : n \notin Good /\ \A j \in Nat : j < n => j \in Good
<1> DEFINE Bad == {n \in Nat : n \notin Good}
<1>1. IsWellFoundedOn(OpToRel(<, Nat), Nat)
  BY NatLessThanWellFounded
<1>2. Bad \subseteq Nat /\ Bad # {}
  OBVIOUS
<1> HIDE DEF Bad
<1>3. \E n \in Bad : \A j \in Bad : ~ (<<j, n>> \in OpToRel(<, Nat))
  BY <1>1, <1>2, WFMin
<1>4. \A j, n \in Nat : <<j, n>> \in OpToRel(<, Nat) <=> j < n
  BY DEF OpToRel
<1>5. PICK n \in Bad : \A j \in Bad : ~ (j < n)
  BY <1>2, <1>3, <1>4
<1> QED
  BY <1>5 DEF Bad

\* Without one member a finite set is smaller by one.
LEMMA Smaller ==
    ASSUME NEW s, IsFiniteSet(s), NEW k \in s
    PROVE  /\ IsFiniteSet(s \ {k}) /\ Cardinality(s) \in Nat
           /\ Cardinality(s \ {k}) = Cardinality(s) - 1
           /\ Cardinality(s \ {k}) \in Nat
BY FS_RemoveElement, FS_CardinalityType

\* The fold takes a member of the set.
LEMMA NextIsIn == ASSUME NEW s, s # {} PROVE Chosen(s) \in s
BY DEF Chosen

\* There are sums of all the subsets of ks up to any size: one turn adds the next size.
LEMMA SumsExist ==
    ASSUME NEW ps, NEW ks, IsFiniteSet(ks), NEW m \in Nat
    PROVE  \E f : Sums(ps, ks, m, f)
<1> DEFINE Good == {n \in Nat : \E f : Sums(ps, ks, n, f)}
<1>1. \A s \in SUBSET ks : IsFiniteSet(s) /\ Cardinality(s) \in Nat
  BY FS_Subset, FS_CardinalityType
<1>2. 0 \in Good
  <2> DEFINE f == [s \in SUBSET ks |-> 0]
  <2>1. \A s \in SUBSET ks : Cardinality(s) <= 0 => s = {}
    BY <1>1, FS_EmptySet
  <2>2. Sums(ps, ks, 0, f)
    BY <2>1 DEF Sums, Turn
  <2> QED
    BY <2>2
<1>3. ASSUME NEW n \in Nat, n \in Good
      PROVE  n + 1 \in Good
  <2>1. PICK f : Sums(ps, ks, n, f)
    BY <1>3
  <2> DEFINE g == [s \in SUBSET ks |-> Turn(ps, f, s)]
  <2>2. ASSUME NEW s \in SUBSET ks, Cardinality(s) <= n
        PROVE  g[s] = f[s]
    BY <2>1, <2>2 DEF Sums
  <2>3. ASSUME NEW s \in SUBSET ks, Cardinality(s) <= n + 1
        PROVE  g[s] = Turn(ps, g, s)
    <3>1. CASE s = {}
      BY <3>1 DEF Turn
    <3>2. CASE s # {}
      <4>1. Chosen(s) \in s /\ s \ {Chosen(s)} \in SUBSET ks
        BY <3>2, NextIsIn
      <4>2. Cardinality(s \ {Chosen(s)}) <= n
        BY <1>1, <2>3, <4>1, Smaller
      <4>3. g[s \ {Chosen(s)}] = f[s \ {Chosen(s)}]
        BY <2>2, <4>1, <4>2
      <4> HIDE DEF g
      <4>4. Turn(ps, g, s) = Turn(ps, f, s)
        BY <4>3 DEF Turn
      <4> QED
        BY <4>4 DEF g
    <3> QED
      BY <3>1, <3>2
  <2>4. Sums(ps, ks, n + 1, g)
    BY <2>3 DEF Sums
  <2> QED
    BY <2>4
<1> HIDE DEF Good
<1>4. SUFFICES ASSUME m \notin Good PROVE FALSE
  BY DEF Good
<1>5. PICK n \in Nat : n \notin Good /\ \A j \in Nat : j < n => j \in Good
  BY <1>4, FirstFailure
<1>6. n # 0 /\ n - 1 \in Nat
  BY <1>2, <1>5
<1>7. n - 1 \in Good /\ n = (n - 1) + 1
  BY <1>5, <1>6
<1> QED
  BY <1>3, <1>5, <1>6, <1>7

\* The fold over ks computes sums of all its subsets.
Fold(ps, ks) == CHOOSE f : f = [s \in SUBSET ks |-> Turn(ps, f, s)]

\* The fold exists, and each of its values is one turn from a smaller one.
LEMMA FoldTurns ==
    ASSUME NEW ps, NEW ks, IsFiniteSet(ks)
    PROVE  /\ Sum(ps, ks) = Fold(ps, ks)[ks]
           /\ \A s \in SUBSET ks : Fold(ps, ks)[s] = Turn(ps, Fold(ps, ks), s)
<1>1. Cardinality(ks) \in Nat
  BY FS_CardinalityType
<1>2. PICK f : Sums(ps, ks, Cardinality(ks), f)
  BY <1>1, SumsExist
<1>3. \A s \in SUBSET ks : Cardinality(s) <= Cardinality(ks)
  BY FS_Subset
<1> DEFINE g == [s \in SUBSET ks |-> Turn(ps, f, s)]
<1>4. \A s \in SUBSET ks : g[s] = f[s]
  BY <1>2, <1>3 DEF Sums
<1>5. \A s \in SUBSET ks : s # {} => s \ {Chosen(s)} \in SUBSET ks
  OBVIOUS
<1>6. \A s \in SUBSET ks : Turn(ps, g, s) = Turn(ps, f, s)
  <2> HIDE DEF g
  <2> QED
    BY <1>4, <1>5 DEF Turn
<1>7. g = [s \in SUBSET ks |-> Turn(ps, g, s)]
  BY <1>6
<1> HIDE DEF g
<1>8. Fold(ps, ks) = [s \in SUBSET ks |-> Turn(ps, Fold(ps, ks), s)]
  BY <1>7 DEF Fold
<1>9. Sum(ps, ks) = Fold(ps, ks)[ks]
  BY SumUnfolds DEF Fold
<1> DEFINE fold == Fold(ps, ks)
<1>10. fold = [s \in SUBSET ks |-> Turn(ps, fold, s)]
  BY <1>8
<1> HIDE DEF fold
<1>11. \A s \in SUBSET ks : fold[s] = Turn(ps, fold, s)
  <2>1. TAKE s \in SUBSET ks
  <2> DEFINE turned == [t \in SUBSET ks |-> Turn(ps, fold, t)]
  <2>2. turned[s] = Turn(ps, fold, s)
    OBVIOUS
  <2>3. fold = turned
    BY <1>10
  <2> HIDE DEF turned
  <2> QED
    BY <2>2, <2>3
<1> QED
  BY <1>9, <1>11 DEF fold

\* Two folds agree on a set both cover when the payments numbered in it agree.
LEMMA FoldsAgree ==
    ASSUME NEW ps, NEW qs, NEW ks, IsFiniteSet(ks), NEW js, IsFiniteSet(js),
           NEW s, s \subseteq ks, s \subseteq js,
           \A k \in s : Net(ps, k) = Net(qs, k)
    PROVE  Fold(ps, ks)[s] = Fold(qs, js)[s]
<1> DEFINE Good == {n \in Nat : \A t \in SUBSET s : Cardinality(t) = n => Fold(ps, ks)[t] = Fold(qs, js)[t]}
<1>1. ASSUME NEW n \in Nat, \A j \in Nat : j < n => j \in Good
      PROVE  n \in Good
  <2>1. SUFFICES ASSUME NEW t \in SUBSET s, Cardinality(t) = n
                 PROVE  Fold(ps, ks)[t] = Fold(qs, js)[t]
    OBVIOUS
  <2>2. /\ t \in SUBSET ks /\ t \in SUBSET js /\ IsFiniteSet(t)
        /\ Fold(ps, ks)[t] = Turn(ps, Fold(ps, ks), t)
        /\ Fold(qs, js)[t] = Turn(qs, Fold(qs, js), t)
    BY FoldTurns, FS_Subset
  <2>3. CASE t = {}
    BY <2>2, <2>3 DEF Turn
  <2>4. CASE t # {}
    <3>1. /\ Chosen(t) \in t /\ t \ {Chosen(t)} \in SUBSET s
          /\ Cardinality(t \ {Chosen(t)}) \in Nat /\ Cardinality(t \ {Chosen(t)}) < n
      BY <2>1, <2>2, <2>4, NextIsIn, Smaller
    <3>2. Fold(ps, ks)[t \ {Chosen(t)}] = Fold(qs, js)[t \ {Chosen(t)}]
      BY <1>1, <3>1
    <3>3. Net(ps, Chosen(t)) = Net(qs, Chosen(t))
      BY <3>1
    <3> QED
      BY <2>2, <2>4, <3>2, <3>3 DEF Turn
  <2> QED
    BY <2>3, <2>4
<1>2. Cardinality(s) \in Nat
  BY FS_Subset, FS_CardinalityType
<1>3. Cardinality(s) \in Good
  <2> HIDE DEF Good
  <2>1. SUFFICES ASSUME Cardinality(s) \notin Good PROVE FALSE
    OBVIOUS
  <2>2. PICK n \in Nat : n \notin Good /\ \A j \in Nat : j < n => j \in Good
    BY <1>2, <2>1, FirstFailure
  <2> QED
    BY <1>1, <2>2
<1> QED
  BY <1>3

\* The sum depends on what the summed payments brought in and on nothing else.
LEMMA SumsAgree ==
    ASSUME NEW ps, NEW qs, NEW ks, IsFiniteSet(ks), \A k \in ks : Net(ps, k) = Net(qs, k)
    PROVE  Sum(ps, ks) = Sum(qs, ks)
BY FoldTurns, FoldsAgree

\* Nothing adds up to zero.
LEMMA SumOfNone == ASSUME NEW ps PROVE Sum(ps, {}) = 0
<1>1. IsFiniteSet({}) /\ {} \in SUBSET {}
  BY FS_EmptySet
<1>2. Sum(ps, {}) = Turn(ps, Fold(ps, {}), {})
  BY <1>1, FoldTurns
<1> QED
  BY <1>2 DEF Turn

\* The fold takes its own pick off first.
LEMMA SumTakesNext ==
    ASSUME NEW ps, NEW ks, IsFiniteSet(ks), ks # {}
    PROVE  Sum(ps, ks) = Net(ps, Chosen(ks)) + Sum(ps, ks \ {Chosen(ks)})
<1> DEFINE js == ks \ {Chosen(ks)}
<1>1. ks \in SUBSET ks /\ IsFiniteSet(js) /\ js \subseteq ks
  BY FS_Subset
<1>2. Sum(ps, ks) = Turn(ps, Fold(ps, ks), ks)
  BY <1>1, FoldTurns
<1>3. Fold(ps, ks)[js] = Fold(ps, js)[js]
  <2> HIDE DEF js
  <2> QED
    BY <1>1, FoldsAgree
<1>4. Sum(ps, js) = Fold(ps, js)[js]
  <2> HIDE DEF js
  <2> QED
    BY <1>1, FoldTurns
<1> QED
  BY <1>2, <1>3, <1>4 DEF Turn

\* Whole kobo add up to whole kobo, and any member may be taken off first.
LEMMA SumTakes ==
    ASSUME NEW ps, NEW ks, IsFiniteSet(ks), \A k \in ks : Net(ps, k) \in Int
    PROVE  /\ Sum(ps, ks) \in Int
           /\ \A k \in ks : Sum(ps, ks) = Net(ps, k) + Sum(ps, ks \ {k})
<1> DEFINE Holds(s) == /\ Sum(ps, s) \in Int
                       /\ \A k \in s : Sum(ps, s) = Net(ps, k) + Sum(ps, s \ {k})
           Good == {n \in Nat : \A s \in SUBSET ks : Cardinality(s) = n => Holds(s)}
<1>1. ASSUME NEW n \in Nat, \A j \in Nat : j < n => j \in Good
      PROVE  n \in Good
  <2>1. SUFFICES ASSUME NEW s \in SUBSET ks, Cardinality(s) = n
                 PROVE  Holds(s)
    OBVIOUS
  <2>2. IsFiniteSet(s) /\ \A k \in s : Net(ps, k) \in Int
    BY FS_Subset
  <2>3. \A t \in SUBSET ks : Cardinality(t) \in Nat /\ Cardinality(t) < n => Holds(t)
    BY <1>1
  <2>4. CASE s = {}
    BY <2>4, SumOfNone
  <2>5. CASE s # {}
    <3> DEFINE h == Chosen(s)
    <3>1. /\ h \in s /\ s \ {h} \in SUBSET ks /\ IsFiniteSet(s \ {h})
          /\ Cardinality(s \ {h}) \in Nat /\ Cardinality(s \ {h}) < n
      BY <2>1, <2>2, <2>5, NextIsIn, Smaller
    <3>2. Sum(ps, s) = Net(ps, h) + Sum(ps, s \ {h})
      BY <2>2, <2>5, SumTakesNext
    <3>3. Holds(s \ {h}) /\ Net(ps, h) \in Int
      BY <2>2, <2>3, <3>1
    <3> HIDE DEF h
    <3>4. ASSUME NEW k \in s, k # h
          PROVE  Sum(ps, s) = Net(ps, k) + Sum(ps, s \ {k})
      <4> DEFINE both == (s \ {h}) \ {k}
      <4>1. /\ IsFiniteSet(s \ {k}) /\ s \ {k} \in SUBSET ks
            /\ Cardinality(s \ {k}) \in Nat /\ Cardinality(s \ {k}) < n
        BY <2>1, <2>2, Smaller
      <4>2. Holds(s \ {k}) /\ Net(ps, k) \in Int
        BY <2>2, <2>3, <4>1
      <4>3. (s \ {k}) \ {h} = both /\ k \in s \ {h} /\ h \in s \ {k}
        BY <3>1, <3>4
      <4>4. /\ IsFiniteSet(both) /\ both \in SUBSET ks
            /\ Cardinality(both) \in Nat /\ Cardinality(both) < n
        BY <3>1, <4>3, Smaller
      <4>5. Sum(ps, both) \in Int
        BY <2>3, <4>4
      <4>6. Sum(ps, s \ {k}) = Net(ps, h) + Sum(ps, both)
        BY <4>2, <4>3
      <4>7. Sum(ps, s \ {h}) = Net(ps, k) + Sum(ps, both)
        BY <3>3, <4>3
      <4> HIDE DEF both, Holds
      <4> QED
        BY <3>2, <3>3, <4>2, <4>5, <4>6, <4>7
    <3>5. Sum(ps, s) \in Int
      BY <3>2, <3>3
    <3> QED
      BY <3>2, <3>4, <3>5
  <2> QED
    BY <2>4, <2>5
<1>2. Cardinality(ks) \in Nat
  BY FS_CardinalityType
<1>3. Cardinality(ks) \in Good
  <2> HIDE DEF Good
  <2>1. SUFFICES ASSUME Cardinality(ks) \notin Good PROVE FALSE
    OBVIOUS
  <2>2. PICK n \in Nat : n \notin Good /\ \A j \in Nat : j < n => j \in Good
    BY <1>2, <2>1, FirstFailure
  <2> QED
    BY <1>1, <2>2
<1> QED
  BY <1>3

\* One member's amount changes the sum by as much.
LEMMA SumMoves ==
    ASSUME NEW ps, NEW qs, NEW ks, IsFiniteSet(ks), NEW k \in ks, NEW d \in Int,
           \A j \in ks : Net(ps, j) \in Int,
           \A j \in ks \ {k} : Net(qs, j) = Net(ps, j),
           Net(qs, k) = Net(ps, k) + d
    PROVE  Sum(qs, ks) = Sum(ps, ks) + d
<1>1. IsFiniteSet(ks \ {k}) /\ \A j \in ks : Net(qs, j) \in Int
  BY FS_Subset
<1>2. Sum(qs, ks) = Net(qs, k) + Sum(qs, ks \ {k})
  BY <1>1, SumTakes
<1>3. Sum(ps, ks) = Net(ps, k) + Sum(ps, ks \ {k})
  BY <1>1, SumTakes
<1>4. Sum(qs, ks \ {k}) = Sum(ps, ks \ {k})
  BY <1>1, SumsAgree
<1>5. Sum(ps, ks \ {k}) \in Int
  BY <1>1, SumTakes
<1> QED
  BY <1>2, <1>3, <1>4, <1>5

\* A member more adds its amount.
LEMMA SumGrows ==
    ASSUME NEW ps, NEW qs, NEW ks, IsFiniteSet(ks), NEW k, k \notin ks,
           \A j \in ks : Net(ps, j) \in Int,
           \A j \in ks : Net(qs, j) = Net(ps, j),
           Net(qs, k) \in Int
    PROVE  Sum(qs, ks \cup {k}) = Sum(ps, ks) + Net(qs, k)
<1>1. IsFiniteSet(ks \cup {k}) /\ \A j \in ks \cup {k} : Net(qs, j) \in Int
  BY FS_AddElement
<1>2. (ks \cup {k}) \ {k} = ks
  OBVIOUS
<1>3. Sum(qs, ks \cup {k}) = Net(qs, k) + Sum(qs, ks)
  BY <1>1, <1>2, SumTakes
<1>4. Sum(qs, ks) = Sum(ps, ks)
  BY SumsAgree
<1>5. Sum(ps, ks) \in Int
  BY SumTakes
<1> QED
  BY <1>3, <1>4, <1>5

-----------------------------------------------------------------------------
\* The payments of one invoice, by their number.
Ours(i) == {k \in DOMAIN payments : payments[k].invoice = i}

\* What an invoice says was paid is what its payments brought in.
PaidAddsUp == \A i \in Invoice : Raised(i) => invoices[i].paid = Sum(payments, Ours(i))

BooksInv == LedgerInv /\ PaidAddsUp

\* Amounts are whole numbers.
LEMMA AmountsWhole ==
    /\ \A kobo \in Kobo : kobo \in Int
    /\ \A p \in Payment : p.invoice \in Invoice /\ p.kobo \in Int /\ p.refunded \in Int
<1>1. \A kobo \in Kobo : kobo \in Int
  BY KoboAssumption
<1>2. \A p \in Payment : p.invoice \in Invoice /\ p.kobo \in Kobo /\ p.refunded \in Nat
  BY DEF Payment
<1> QED
  BY <1>1, <1>2

\* An invoice has finitely many payments, each of a whole amount.
LEMMA OursFinite ==
    ASSUME LedgerTypeOK, NEW i
    PROVE  /\ IsFiniteSet(Ours(i)) /\ Ours(i) \subseteq DOMAIN payments
           /\ \A k \in Ours(i) : Net(payments, k) \in Int
<1>1. payments \in Seq(Payment) /\ DOMAIN payments = 1..Len(payments) /\ Len(payments) \in Nat
  BY DEF LedgerTypeOK
<1>2. IsFiniteSet(DOMAIN payments)
  BY <1>1, FS_Interval
<1>3. Ours(i) \subseteq DOMAIN payments
  BY DEF Ours
<1>4. IsFiniteSet(Ours(i))
  BY <1>2, <1>3, FS_Subset
<1>5. \A k \in DOMAIN payments : payments[k].kobo \in Int /\ payments[k].refunded \in Int
  <2>1. \A k \in DOMAIN payments : payments[k] \in Payment
    BY <1>1
  <2> QED
    BY <2>1, AmountsWhole
<1> QED
  BY <1>3, <1>4, <1>5 DEF Net

\* The invariant, read as the property.
LEMMA BooksAre ==
    ASSUME BooksInv
    PROVE  BooksBalance
<1>1. ASSUME NEW i \in Invoice
      PROVE  Received({k \in DOMAIN payments : payments[k].invoice = i}) = Sum(payments, Ours(i))
  BY DEF Received, Sum, Ours
<1>2. \A i \in Invoice : Raised(i) => invoices[i] = Row(invoices[i].total, Sum(payments, Ours(i)))
  BY DEF BooksInv, LedgerInv, RowsDerived, PaidAddsUp
<1>3. \A i \in Invoice : ~Raised(i) => \A k \in DOMAIN payments : payments[k].invoice # i
  BY DEF BooksInv, LedgerInv, PaymentsOnInvoices
<1> QED
  BY <1>1, <1>2, <1>3 DEF BooksBalance

\* The sum after a step is the sum of the payments after it.
LEMMA SumPrimed ==
    ASSUME NEW i
    PROVE  Sum(payments, Ours(i))' = Sum(payments', Ours(i)')
BY DEF Sum, MapThenSumSet, MapThenFoldSet, Ours

\* A payment adds its amount to both sides.
LEMMA PayAddsUp ==
    ASSUME BooksInv, NEW p \in Payment, p.refunded = 0, Pay(p)
    PROVE  PaidAddsUp'
<1>1. /\ payments \in Seq(Payment) /\ payments' = Append(payments, p)
      /\ p.invoice \in Invoice /\ p.kobo \in Int /\ Raised(p.invoice)
      /\ invoices' = [invoices EXCEPT ![p.invoice] =
                        Row(invoices[p.invoice].total, invoices[p.invoice].paid + p.kobo)]
  <2>1. payments \in Seq(Payment)
    BY DEF BooksInv, LedgerInv, LedgerTypeOK
  <2>2. p.invoice \in Invoice /\ p.kobo \in Int
    BY AmountsWhole
  <2> QED
    BY <2>1, <2>2 DEF Pay
<1> DEFINE n == Len(payments) + 1
<1>2. /\ DOMAIN payments' = DOMAIN payments \cup {n} /\ n \notin DOMAIN payments
      /\ payments'[n] = p
      /\ \A k \in DOMAIN payments : payments'[k] = payments[k]
  BY <1>1
<1> HIDE DEF n
<1>3. \A i \in Invoice : \A k \in Ours(i) : Net(payments', k) = Net(payments, k)
  BY <1>2 DEF Ours, Net
<1>4. Net(payments', n) = p.kobo
  BY <1>1, <1>2 DEF Net
<1>5. SUFFICES ASSUME NEW i \in Invoice, Raised(i)'
               PROVE  invoices'[i].paid = Sum(payments', Ours(i)')
  BY SumPrimed DEF PaidAddsUp
<1>6. CASE i = p.invoice
  <2>1. invoices'[i].paid = invoices[i].paid + p.kobo
    BY <1>1, <1>6 DEF Row, BooksInv, LedgerInv, LedgerTypeOK
  <2>2. Ours(i)' = Ours(i) \cup {n} /\ n \notin Ours(i)
    BY <1>2, <1>6 DEF Ours
  <2>3. IsFiniteSet(Ours(i)) /\ \A k \in Ours(i) : Net(payments, k) \in Int
    BY OursFinite DEF BooksInv, LedgerInv
  <2>4. Sum(payments', Ours(i) \cup {n}) = Sum(payments, Ours(i)) + p.kobo
    BY <1>1, <1>3, <1>4, <2>2, <2>3, SumGrows
  <2>5. invoices[i].paid = Sum(payments, Ours(i))
    BY <1>1, <1>6 DEF BooksInv, PaidAddsUp
  <2> QED
    BY <2>1, <2>2, <2>4, <2>5
<1>7. CASE i # p.invoice
  <2>1. invoices'[i] = invoices[i] /\ Raised(i)
    BY <1>1, <1>5, <1>7 DEF Raised
  <2>2. Ours(i)' = Ours(i)
    BY <1>2, <1>7 DEF Ours
  <2>3. IsFiniteSet(Ours(i))
    BY OursFinite DEF BooksInv, LedgerInv
  <2>4. Sum(payments', Ours(i)) = Sum(payments, Ours(i))
    BY <1>3, <2>3, SumsAgree
  <2> QED
    BY <2>1, <2>2, <2>4 DEF BooksInv, PaidAddsUp
<1> QED
  BY <1>6, <1>7

\* A refund takes its amount off both sides.
LEMMA RefundAddsUp ==
    ASSUME BooksInv, NEW k \in DOMAIN payments, NEW kobo \in Kobo, Refund(k, kobo)
    PROVE  PaidAddsUp'
<1> DEFINE back == payments[k].refunded + kobo
<1>1. /\ payments \in Seq(Payment) /\ payments[k] \in Payment
      /\ payments[k].kobo \in Int /\ payments[k].refunded \in Int /\ kobo \in Int
      /\ payments[k].invoice \in Invoice /\ Raised(payments[k].invoice)
  <2>1. payments \in Seq(Payment) /\ Raised(payments[k].invoice)
    BY DEF BooksInv, LedgerInv, LedgerTypeOK, PaymentsOnInvoices
  <2>2. payments[k] \in Payment
    BY <2>1
  <2> QED
    BY <2>1, <2>2, AmountsWhole
<1>2. /\ DOMAIN payments' = DOMAIN payments
      /\ \A j \in DOMAIN payments : j # k => payments'[j] = payments[j]
      /\ payments'[k] = [payments[k] EXCEPT !.refunded = back]
  BY <1>1 DEF Refund
<1>3. /\ payments'[k].kobo = payments[k].kobo /\ payments'[k].refunded = back
      /\ payments'[k].invoice = payments[k].invoice
  BY <1>1, <1>2 DEF Payment
<1>4. Net(payments', k) = Net(payments, k) + (- kobo)
  BY <1>1, <1>3 DEF Net
<1>5. \A j \in DOMAIN payments : j # k => Net(payments', j) = Net(payments, j)
  BY <1>2 DEF Net
<1>6. SUFFICES ASSUME NEW i \in Invoice, Raised(i)'
               PROVE  invoices'[i].paid = Sum(payments', Ours(i)')
  BY SumPrimed DEF PaidAddsUp
<1>7. Ours(i)' = Ours(i)
  BY <1>2, <1>3 DEF Ours
<1>8. IsFiniteSet(Ours(i)) /\ Ours(i) \subseteq DOMAIN payments /\ \A j \in Ours(i) : Net(payments, j) \in Int
  BY OursFinite DEF BooksInv, LedgerInv
<1>9. CASE i = payments[k].invoice
  <2>1. invoices'[i].paid = invoices[i].paid - kobo
    BY <1>1, <1>9 DEF Refund, Row, BooksInv, LedgerInv, LedgerTypeOK
  <2>2. k \in Ours(i)
    BY <1>9 DEF Ours
  <2>3. - kobo \in Int /\ \A j \in Ours(i) \ {k} : Net(payments', j) = Net(payments, j)
    BY <1>1, <1>5, <1>8
  <2>4. Sum(payments', Ours(i)) = Sum(payments, Ours(i)) + (- kobo)
    BY <1>4, <1>8, <2>2, <2>3, SumMoves
  <2>5. invoices[i].paid = Sum(payments, Ours(i))
    BY <1>1, <1>9 DEF BooksInv, PaidAddsUp
  <2>6. Sum(payments, Ours(i)) \in Int
    BY <1>8, SumTakes
  <2> QED
    BY <1>1, <1>7, <2>1, <2>4, <2>5, <2>6
<1>10. CASE i # payments[k].invoice
  <2>1. invoices'[i] = invoices[i] /\ Raised(i)
    BY <1>1, <1>6, <1>10 DEF Refund, Raised
  <2>2. \A j \in Ours(i) : Net(payments', j) = Net(payments, j)
    BY <1>5, <1>8, <1>10 DEF Ours
  <2>3. Sum(payments', Ours(i)) = Sum(payments, Ours(i))
    BY <1>8, <2>2, SumsAgree
  <2> QED
    BY <1>7, <2>1, <2>3 DEF BooksInv, PaidAddsUp
<1> QED
  BY <1>9, <1>10

\* A bill leaves what was paid as it was; an invoice it raises has no payment yet.
LEMMA BillAddsUp ==
    ASSUME BooksInv, NEW students \in SUBSET Invoice, NEW total \in Kobo, Bill(students, total)
    PROVE  PaidAddsUp'
<1>1. SUFFICES ASSUME NEW i \in Invoice, Raised(i)'
               PROVE  invoices'[i].paid = Sum(payments', Ours(i)')
  BY SumPrimed DEF PaidAddsUp
<1>2. payments' = payments /\ Ours(i)' = Ours(i)
  BY DEF Bill, Ours
<1>3. invoices'[i] = IF i \notin students THEN invoices[i]
                     ELSE Row(total, IF Raised(i) THEN invoices[i].paid ELSE 0)
  BY DEF Bill
<1>4. CASE Raised(i)
  <2>1. invoices'[i].paid = invoices[i].paid
    BY <1>3, <1>4 DEF Row
  <2> QED
    BY <1>2, <1>4, <2>1 DEF BooksInv, PaidAddsUp
<1>5. CASE ~Raised(i)
  <2>1. invoices'[i].paid = 0
    BY <1>1, <1>3, <1>5 DEF Row, Raised
  <2>2. Ours(i) = {}
    BY <1>5 DEF Ours, BooksInv, LedgerInv, PaymentsOnInvoices
  <2> QED
    BY <1>2, <2>1, <2>2, SumOfNone
<1> QED
  BY <1>4, <1>5

\* Every operation keeps the books balanced.
LEMMA BooksStep == BooksInv /\ [Next]_ledger => BooksInv'
<1> SUFFICES ASSUME BooksInv, [Next]_ledger PROVE BooksInv'
  OBVIOUS
<1>1. LedgerInv'
  BY LedgerStep DEF BooksInv
<1>2. CASE UNCHANGED ledger
  <2>1. /\ \A i : Ours(i)' = Ours(i)
        /\ payments' = payments /\ invoices' = invoices
    BY <1>2 DEF ledger, Ours
  <2>2. PaidAddsUp'
    BY <2>1, SumPrimed DEF BooksInv, PaidAddsUp, Raised
  <2> QED
    BY <1>1, <2>2 DEF BooksInv
<1>3. ASSUME NEW i \in Invoice, NEW kobo \in Kobo, NEW method \in Method,
             NEW ref \in Reference \cup {NoRef}, NEW at \in Time,
             Pay(NewPayment(i, kobo, method, ref, at))
      PROVE  PaidAddsUp'
  <2>1. /\ NewPayment(i, kobo, method, ref, at) \in Payment
        /\ NewPayment(i, kobo, method, ref, at).refunded = 0
    BY DEF NewPayment, Payment
  <2> QED
    BY <1>3, <2>1, PayAddsUp
<1>4. CASE Next
  <2>1. PaidAddsUp'
    BY <1>3, <1>4, RefundAddsUp, BillAddsUp DEF Next
  <2> QED
    BY <1>1, <2>1 DEF BooksInv
<1> QED
  BY <1>2, <1>4

(***************************************************************************)
(* Every invoice says exactly what its payments and refunds add up to, for *)
(* any number of payments of any amounts.                                  *)
(***************************************************************************)
THEOREM BooksAlwaysBalance == Spec => []BooksBalance
<1>1. Init => BooksInv
  BY DEF Init, BooksInv, PaidAddsUp, LedgerInv, LedgerTypeOK, PaymentsOnInvoices, RowsDerived, Raised,
         RefundsWithinPayment, OnePaymentPerReference, TendersSpaced
<1>2. BooksInv => BooksBalance
  BY BooksAre
<1> QED
  BY <1>1, <1>2, BooksStep, PTL DEF Spec
=============================================================================
