----------------------------- MODULE FeeCheckout -----------------------------
(***************************************************************************)
(* Paying a school fee online.  A parent's start writes a fee_checkouts    *)
(* row before Paystack is called; the payment is credited through that row *)
(* by whichever of three requests gets there: Paystack's webhook, the      *)
(* payer's return page, or the bursar recording it by its reference.       *)
(* Settlement (settleFeeCheckout) is a sequence of separate statements, so *)
(* requests for one reference interleave and any of them may die between   *)
(* two statements.  recordPayment is one step here: FeeTransactions shows  *)
(* that it takes effect as the ledger's Pay.                               *)
(*                                                                         *)
(* Paystack itself is outside the repository: it opens a charge, captures  *)
(* money on it, and sends the webhook until it is answered with a 200.     *)
(***************************************************************************)
EXTENDS FeeLedger

CONSTANTS
    Worker,       \* requests in flight in the API
    NoCheckout,   \* no fee_checkouts row for this reference
    Extra,        \* convenience fees (0 while the school bears Paystack's charge)
    MinPart,      \* the smallest part payment of the school
    MaxPayments   \* bound on payments, online and at the counter

ASSUME ExtraAssumption == Extra \subseteq Nat /\ MinPart \in Nat
ASSUME BothWaysAssumption == {"cash", "paystack"} \subseteq Method

Captured == Kobo \cup {k + e : k \in Kobo, e \in Extra}

VARIABLES
    checkout,     \* fee_checkouts by reference
    opening,      \* per reference, the initiate request: "no", "calling", "ended"
    charge,       \* Paystack's record of the transaction (external)
    task,         \* per worker, what it has read and its next statement
    acked,        \* references whose webhook got a 200 although verification failed
    shown,        \* references whose payer was sent to payment=success
    audits        \* per reference, PAYMENT_RECORDED audit rows (and receipts) written

vars == <<invoices, payments, checkout, opening, charge, task, acked, shown, audits>>
paystack == <<opening, charge>>
answers == <<acked, shown, audits>>

CheckoutRow == [invoice: Invoice, fee: Kobo, extra: Extra,
                status: {"pending", "consumed", "failed"}, payment: Nat]

ASSUME NoRowAssumption == NoCheckout \notin CheckoutRow

NoCharge == [state |-> "none"]
Charge(state, i, kobo, naira) == [state |-> state, invoice |-> i, kobo |-> kobo, naira |-> naira]

ChargeRow == [state: {"open", "captured"}, invoice: Invoice, kobo: Captured, naira: BOOLEAN]

Idle == [pc |-> "idle"]
Task(route, ref, claim) ==
    [pc |-> "verify", route |-> route, ref |-> ref, claim |-> claim,
     kobo |-> 0, naira |-> TRUE, credited |-> FALSE]

TaskRow == [pc: {"verify", "bursar", "find", "judge", "record", "outside", "consume", "audit"},
            route: {"webhook", "callback", "bursar"}, ref: Reference, claim: Invoice \cup {NoInvoice},
            kobo: Nat, naira: BOOLEAN, credited: BOOLEAN]

Started(ref) == checkout[ref] # NoCheckout
IsCaptured(ref) == charge[ref].state = "captured"
Asked(ref) == checkout[ref].fee + checkout[ref].extra

CheckoutInit ==
    /\ Init
    /\ checkout = [r \in Reference |-> NoCheckout]
    /\ opening = [r \in Reference |-> "no"]
    /\ charge = [r \in Reference |-> NoCharge]
    /\ task = [w \in Worker |-> Idle]
    /\ acked = {}
    /\ shown = {}
    /\ audits = [r \in Reference |-> 0]

-----------------------------------------------------------------------------
\* Mutant: a status the fee_checkouts CHECK constraint does not know.
MarkAbandoned(ref) ==
    checkout' = IF checkout[ref].status = "pending"
                THEN [checkout EXCEPT ![ref].status = "abandoned"] ELSE checkout

\* Mutant: no WHERE status = 'pending'.
MarkFailedAnyway(ref) == checkout' = [checkout EXCEPT ![ref].status = "failed"]

\* UPDATE ... SET status = 'failed' WHERE status = 'pending'
MarkFailed(ref) ==
    checkout' = IF checkout[ref].status = "pending"
                THEN [checkout EXCEPT ![ref].status = "failed"] ELSE checkout

\* POST payments/paystack/initiate, up to the call: the reference is fresh, the amount within
\* the balance, and a part payment not below the school's minimum.
Initiate(ref, i, fee, extra) ==
    /\ opening[ref] = "no" /\ charge[ref] = NoCharge
    /\ Raised(i)
    /\ invoices[i].balance > 0
    /\ fee <= invoices[i].balance
    /\ fee < invoices[i].balance => fee >= MinPart
    /\ checkout' = [checkout EXCEPT ![ref] = [invoice |-> i, fee |-> fee, extra |-> extra,
                                              status |-> "pending", payment |-> 0]]
    /\ opening' = [opening EXCEPT ![ref] = "calling"]
    /\ UNCHANGED <<ledger, charge, task, answers>>

\* Paystack opens the charge it was asked for.
PaystackOpens(ref) ==
    /\ opening[ref] = "calling" /\ charge[ref] = NoCharge
    /\ charge' = [charge EXCEPT ![ref] = Charge("open", checkout[ref].invoice, Asked(ref), TRUE)]
    /\ UNCHANGED <<ledger, checkout, opening, task, answers>>

\* The call succeeded, or the request died while it waited: the row stays as it is.
InitiateEnds(ref) ==
    /\ opening[ref] = "calling"
    /\ opening' = [opening EXCEPT ![ref] = "ended"]
    /\ UNCHANGED <<ledger, checkout, charge, task, answers>>

\* initializePaystackTransaction returned null: Paystack refused, or its answer was lost.
InitiateFails(ref) ==
    /\ opening[ref] = "calling"
    /\ opening' = [opening EXCEPT ![ref] = "ended"]
    /\ MarkFailed(ref)
    /\ UNCHANGED <<ledger, charge, task, answers>>

\* Money is captured on an open charge, in naira or not, at the amount asked or another.
PaystackCaptures(ref, kobo, naira) ==
    /\ charge[ref].state = "open"
    /\ charge' = [charge EXCEPT ![ref] = Charge("captured", @.invoice, kobo, naira)]
    /\ UNCHANGED <<ledger, checkout, opening, task, answers>>

\* A transaction made on the same Paystack account some other way, naming invoice i.
OutsideCharge(ref, i, kobo) ==
    /\ opening[ref] = "no" /\ charge[ref] = NoCharge
    /\ charge' = [charge EXCEPT ![ref] = Charge("captured", i, kobo, TRUE)]
    /\ UNCHANGED <<ledger, checkout, opening, task, answers>>

-----------------------------------------------------------------------------
Goto(w, label) == task' = [task EXCEPT ![w].pc = label]
Done(w) == task' = [task EXCEPT ![w] = Idle]

Webhook(w, ref) ==
    /\ task[w] = Idle
    /\ IsCaptured(ref)
    /\ task' = [task EXCEPT ![w] = Task("webhook", ref, NoInvoice)]
    /\ UNCHANGED <<ledger, checkout, paystack, answers>>

Callback(w, ref) ==
    /\ task[w] = Idle
    /\ task' = [task EXCEPT ![w] = Task("callback", ref, NoInvoice)]
    /\ UNCHANGED <<ledger, checkout, paystack, answers>>

Bursar(w, ref, i) ==
    /\ task[w] = Idle
    /\ Raised(i)
    /\ task' = [task EXCEPT ![w] = Task("bursar", ref, i)]
    /\ UNCHANGED <<ledger, checkout, paystack, answers>>

\* verifyPaystackTransaction returned null, or a status other than success: nothing is
\* written, and the webhook is answered 200 all the same.
VerifyFails(w) ==
    /\ task[w].pc = "verify"
    /\ acked' = IF task[w].route = "webhook" THEN acked \cup {task[w].ref} ELSE acked
    /\ Done(w)
    /\ UNCHANGED <<ledger, checkout, paystack, shown, audits>>

Verify(w) ==
    /\ task[w].pc = "verify"
    /\ LET ref == task[w].ref
       IN  /\ IsCaptured(ref)
           /\ task' = [task EXCEPT ![w].pc = IF task[w].route = "bursar" THEN "bursar" ELSE "find",
                                   ![w].kobo = charge[ref].kobo,
                                   ![w].naira = charge[ref].naira]
    /\ UNCHANGED <<ledger, checkout, paystack, answers>>

\* The bursar's route: naira only; a started payment must be this invoice's and is settled
\* through its row; another must name this invoice in its metadata.
BursarChecks(w) ==
    /\ task[w].pc = "bursar"
    /\ LET ref == task[w].ref
           claimed == IF Started(ref) THEN checkout[ref].invoice ELSE charge[ref].invoice
       IN  IF task[w].naira /\ claimed = task[w].claim
           THEN Goto(w, IF Started(ref) THEN "find" ELSE "outside")
           ELSE Done(w)
    /\ UNCHANGED <<ledger, checkout, paystack, answers>>

\* The payer who comes back to a payment already settled is shown success.
ShowSuccess(w) == shown' = IF task[w].route = "callback" THEN shown \cup {task[w].ref} ELSE shown

\* Mutant: a row marked failed is taken for settled, although its charge was captured after all.
FindSettledUnlessPending(w) ==
    /\ task[w].pc = "find"
    /\ LET ref == task[w].ref
       IN  \/ ~Started(ref) /\ Done(w) /\ UNCHANGED shown
           \/ Started(ref) /\ checkout[ref].status # "pending" /\ Done(w) /\ ShowSuccess(w)
           \/ Started(ref) /\ checkout[ref].status = "pending" /\ Goto(w, "judge") /\ UNCHANGED shown
    /\ UNCHANGED <<ledger, checkout, paystack, acked, audits>>

\* settleFeeCheckout: findFeeCheckout
Find(w) ==
    /\ task[w].pc = "find"
    /\ LET ref == task[w].ref
       IN  \/ /\ ~Started(ref)                            \* no_checkout
              /\ Done(w) /\ UNCHANGED shown
           \/ /\ Started(ref) /\ checkout[ref].status = "consumed"      \* duplicate
              /\ Done(w) /\ ShowSuccess(w)
           \/ /\ Started(ref) /\ checkout[ref].status # "consumed"
              /\ Goto(w, "judge") /\ UNCHANGED shown
    /\ UNCHANGED <<ledger, checkout, paystack, acked, audits>>

\* Mutant: the captured amount is not compared with the amount asked.
JudgeCurrencyOnly(w) ==
    /\ task[w].pc = "judge"
    /\ IF task[w].naira
       THEN Goto(w, "record") /\ UNCHANGED checkout
       ELSE Done(w) /\ MarkFailed(task[w].ref)
    /\ UNCHANGED <<ledger, paystack, answers>>

\* not_naira and amount_mismatch fail the row and credit nothing.
Judge(w) ==
    /\ task[w].pc = "judge"
    /\ IF task[w].naira /\ task[w].kobo = Asked(task[w].ref)
       THEN Goto(w, "record") /\ UNCHANGED checkout
       ELSE Done(w) /\ MarkFailed(task[w].ref)
    /\ UNCHANGED <<ledger, paystack, answers>>

\* Mutant: credits what Paystack took, the convenience fee included.
RecordCharged(w) ==
    /\ task[w].pc = "record"
    /\ LET ref == task[w].ref
       IN  IF Recorded(ref)
           THEN Goto(w, "consume") /\ UNCHANGED ledger
           ELSE /\ Pay(NewPayment(checkout[ref].invoice, task[w].kobo, "paystack", ref, 0))
                /\ task' = [task EXCEPT ![w].pc = "consume", ![w].credited = TRUE]
    /\ UNCHANGED <<checkout, paystack, answers>>

\* recordPayment of the school fee on the row's invoice.  (The row's foreign key keeps the
\* invoice, so invoice_missing never happens.)
Record(w) ==
    /\ task[w].pc = "record"
    /\ LET ref == task[w].ref
           row == checkout[ref]
       IN  IF Recorded(ref)
           THEN Goto(w, "consume") /\ UNCHANGED ledger
           ELSE /\ Pay(NewPayment(row.invoice, row.fee, "paystack", ref, 0))
                /\ task' = [task EXCEPT ![w].pc = "consume", ![w].credited = TRUE]
    /\ UNCHANGED <<checkout, paystack, answers>>

\* recordPayment of Paystack's verified amount, for a payment no start of ours wrote.
RecordOutside(w) ==
    /\ task[w].pc = "outside"
    /\ LET ref == task[w].ref
       IN  IF Recorded(ref)
           THEN Done(w) /\ UNCHANGED ledger
           ELSE /\ Pay(NewPayment(task[w].claim, task[w].kobo, "paystack", ref, 0))
                /\ Goto(w, "audit")
    /\ UNCHANGED <<checkout, paystack, answers>>

PaymentOf(ref) == CHOOSE k \in DOMAIN payments : payments[k].ref = ref

\* Mutant: every request that gets here audits, whether or not it credited the payment.
ConsumeThenAudit(w) ==
    /\ task[w].pc = "consume"
    /\ LET ref == task[w].ref
       IN  checkout' = IF checkout[ref].status = "consumed" THEN checkout
                       ELSE [checkout EXCEPT ![ref].status = "consumed", ![ref].payment = PaymentOf(ref)]
    /\ Goto(w, "audit")
    /\ UNCHANGED <<ledger, paystack, acked, shown, audits>>

\* UPDATE ... SET status = 'consumed', payment_id WHERE status <> 'consumed'
Consume(w) ==
    /\ task[w].pc = "consume"
    /\ LET ref == task[w].ref
       IN  /\ checkout' = IF checkout[ref].status = "consumed" THEN checkout
                          ELSE [checkout EXCEPT ![ref].status = "consumed", ![ref].payment = PaymentOf(ref)]
           /\ IF task[w].credited
              THEN Goto(w, "audit") /\ UNCHANGED shown
              ELSE Done(w) /\ ShowSuccess(w)
    /\ UNCHANGED <<ledger, paystack, acked, audits>>

\* notifyPaymentReceipt and logAudit of a payment this request credited.
Audit(w) ==
    /\ task[w].pc = "audit"
    /\ audits' = [audits EXCEPT ![task[w].ref] = @ + 1]
    /\ ShowSuccess(w)
    /\ Done(w)
    /\ UNCHANGED <<ledger, checkout, paystack, acked>>

\* The request dies (the API restarts, the database errs): a 500, or no answer at all.
Crash(w) ==
    /\ task[w] # Idle
    /\ Done(w)
    /\ UNCHANGED <<ledger, checkout, paystack, answers>>

-----------------------------------------------------------------------------
\* Meanwhile the school office raises invoices and takes cash at the counter.
Office ==
    /\ \/ \E i \in Invoice, total \in Kobo : Bill({i}, total)
       \/ \E i \in Invoice, kobo \in Kobo : Pay(NewPayment(i, kobo, "cash", NoRef, 0))
    /\ Len(payments') <= MaxPayments
    /\ UNCHANGED <<checkout, paystack, task, answers>>

Deliver(ref) == \E w \in Worker : Webhook(w, ref)

Step(w) ==
    \/ VerifyFails(w) \/ Verify(w) \/ BursarChecks(w)
    \/ Find(w) \/ Judge(w) \/ Record(w) \/ RecordOutside(w) \/ Consume(w) \/ Audit(w)

CheckoutNext ==
    \/ \E ref \in Reference :
          \/ \E i \in Invoice, fee \in Kobo, extra \in Extra : Initiate(ref, i, fee, extra)
          \/ PaystackOpens(ref) \/ InitiateEnds(ref) \/ InitiateFails(ref)
          \/ \E kobo \in Captured, naira \in BOOLEAN : PaystackCaptures(ref, kobo, naira)
          \/ \E i \in Invoice, kobo \in Kobo : OutsideCharge(ref, i, kobo)
          \/ Deliver(ref)
          \/ \E w \in Worker : Callback(w, ref) \/ (\E i \in Invoice : Bursar(w, ref, i))
    \/ \E w \in Worker : Step(w) \/ Crash(w)
    \/ Office

CheckoutSpec == CheckoutInit /\ [][CheckoutNext]_vars

Delivering(w, ref) == task[w] # Idle /\ task[w].route = "webhook" /\ task[w].ref = ref

\* Paystack sends a captured charge's webhook again until it is answered 200, requests do not
\* hang, and the deliveries of one charge do not all die at the same statement.
CheckoutFairSpec ==
    /\ CheckoutSpec
    /\ \A w \in Worker : WF_vars(Step(w))
    /\ \A ref \in Reference : SF_vars(ref \notin acked /\ Deliver(ref))
    /\ \A ref \in Reference :
          /\ SF_vars(\E w \in Worker : Delivering(w, ref) /\ (Verify(w) \/ VerifyFails(w)))
          /\ SF_vars(\E w \in Worker : Delivering(w, ref) /\ Find(w))
          /\ SF_vars(\E w \in Worker : Delivering(w, ref) /\ Judge(w))
          /\ SF_vars(\E w \in Worker : Delivering(w, ref) /\ Record(w))
          /\ SF_vars(\E w \in Worker : Delivering(w, ref) /\ Consume(w))

-----------------------------------------------------------------------------
CheckoutTypeOK ==
    /\ LedgerTypeOK
    /\ checkout \in [Reference -> CheckoutRow \cup {NoCheckout}]
    /\ opening \in [Reference -> {"no", "calling", "ended"}]
    /\ charge \in [Reference -> ChargeRow \cup {NoCharge}]
    /\ task \in [Worker -> TaskRow \cup {Idle}]
    /\ acked \subseteq Reference /\ shown \subseteq Reference
    /\ audits \in [Reference -> Nat]

(***************************************************************************)
(* A payment that was started here is credited to the invoice it was       *)
(* started for, at the fee it was started for, and only when Paystack took *)
(* exactly what was asked, in naira (feeCheckouts.ts: "that record's       *)
(* school and invoice, at exactly the amount it asked Paystack for").      *)
(***************************************************************************)
CreditedAsStarted ==
    \A k \in DOMAIN payments :
        LET p == payments[k]
        IN  p.ref # NoRef /\ Started(p.ref) =>
              /\ p.invoice = checkout[p.ref].invoice
              /\ p.kobo = checkout[p.ref].fee
              /\ charge[p.ref].kobo = Asked(p.ref)
              /\ charge[p.ref].naira

\* No online payment is recorded that Paystack did not capture, nor for more than it captured.
CreditedOnlyIfCaptured ==
    \A k \in DOMAIN payments :
        LET p == payments[k]
        IN  p.ref # NoRef => IsCaptured(p.ref) /\ p.kobo <= charge[p.ref].kobo

\* A consumed row points at the payment of its own reference.
ConsumedHasPayment ==
    \A r \in Reference :
        Started(r) /\ checkout[r].status = "consumed" =>
            checkout[r].payment \in DOMAIN payments /\ payments[checkout[r].payment].ref = r

\* One payment is audited, and its receipt sent, at most once, however many requests race;
\* and only when it was recorded.
AuditedAtMostOnce ==
    \A r \in Reference : audits[r] <= 1 /\ (audits[r] = 1 => Recorded(r))

\* A payer who is shown success has been credited.
SuccessIsCredited == \A r \in shown : Recorded(r)

\* A consumed row never changes again: no late failure or delivery reopens it.
ConsumedForGood ==
    [][\A r \in Reference :
          Started(r) /\ checkout[r].status = "consumed" => checkout'[r] = checkout[r]]_vars

(***************************************************************************)
(* Money captured for a started payment, at the amount asked, ends up      *)
(* credited with its row consumed, whatever dies on the way -- unless the  *)
(* webhook was answered 200 while Paystack could not be reached to verify. *)
(***************************************************************************)
CapturedIsConsumed ==
    \A r \in Reference :
        (Started(r) /\ IsCaptured(r) /\ charge[r].naira /\ charge[r].kobo = Asked(r))
            ~> (Recorded(r) /\ Started(r) /\ checkout[r].status = "consumed") \/ r \in acked
=============================================================================
