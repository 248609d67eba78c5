-------------------------- MODULE FeeCheckoutProofs --------------------------
(***************************************************************************)
(* The safety of the online fee payment, for any number of requests,       *)
(* references, invoices and amounts: what a request has read at Paystack   *)
(* and in fee_checkouts stays true until its next statement, although      *)
(* every statement is a step of its own and any request may die.           *)
(*                                                                         *)
(* The last part is about what the parent is asked for, where the school   *)
(* passes Paystack's charge on (PaystackPricing): for every charge and fee *)
(* what the school receives never falls as the payment grows on one side   *)
(* of the flat charge's threshold (Rising), so every total under the lower *)
(* bound of the search is too small, and the upper bound is large enough.  *)
(***************************************************************************)
EXTENDS FeeCheckout, PaystackPricing, FeeLedgerProofs

\* A row exists from the moment its request was sent to Paystack, and a charge nobody
\* started here was captured at an amount of its own.
ChargesFit ==
    \A r \in Reference :
        /\ Started(r) <=> opening[r] # "no"
        /\ ~Started(r) /\ charge[r] # NoCharge => IsCaptured(r) /\ charge[r].kobo \in Kobo

\* What a request knows when it is about to run its next statement.
TaskKnows(t) ==
    t # Idle =>
      /\ t.pc # "verify" =>
            IsCaptured(t.ref) /\ t.kobo = charge[t.ref].kobo /\ t.naira = charge[t.ref].naira
      /\ t.pc \in {"judge", "record", "consume"} => Started(t.ref)
      /\ t.pc \in {"record", "consume"} => t.naira = TRUE /\ t.kobo = Asked(t.ref)
      /\ t.pc = "outside" => ~Started(t.ref) /\ t.claim \in Invoice
      /\ t.pc \in {"consume", "audit"} => Recorded(t.ref)
      /\ t.pc \notin {"consume", "audit"} => t.credited = FALSE

TasksKnow == \A w \in Worker : TaskKnows(task[w])

\* The request that credited r and has not written its audit row yet.
Credits(t, r) ==
    t # Idle /\ t.ref = r /\ (t.pc = "audit" \/ (t.pc = "consume" /\ t.credited = TRUE))

\* One request credits a reference, and only that one will audit it.
OneAuditor ==
    \A r \in Reference :
        /\ \A v, w \in Worker : Credits(task[v], r) /\ Credits(task[w], r) => v = w
        /\ \A w \in Worker : Credits(task[w], r) => audits[r] = 0

CheckoutInv ==
    /\ LedgerInv /\ CheckoutTypeOK /\ ChargesFit /\ TasksKnow
    /\ CreditedOnlyIfCaptured /\ CreditedAsStarted
    /\ ConsumedHasPayment /\ SuccessIsCredited
    /\ AuditedAtMostOnce /\ OneAuditor

-----------------------------------------------------------------------------
\* What no step undoes: a captured charge, a started row's invoice and amounts, a captured
\* charge that nobody started, a payment.
Steady ==
    /\ \A r \in Reference : IsCaptured(r) => charge'[r] = charge[r]
    /\ \A r \in Reference :
          Started(r) => /\ checkout'[r] # NoCheckout
                        /\ checkout'[r].invoice = checkout[r].invoice
                        /\ checkout'[r].fee = checkout[r].fee
                        /\ checkout'[r].extra = checkout[r].extra
    /\ \A r \in Reference : IsCaptured(r) /\ ~Started(r) => checkout'[r] = NoCheckout
    /\ \A k \in DOMAIN payments : k \in DOMAIN payments' /\ payments'[k] = payments[k]

\* No row becomes consumed, and a consumed one stays as it is.
NoneConsumed ==
    \A r \in Reference :
        checkout'[r] # NoCheckout /\ checkout'[r].status = "consumed"
            => checkout'[r] = checkout[r]

Moves(w, n) == task' = [task EXCEPT ![w] = n]

LEMMA SteadyWhenUnchanged ==
    ASSUME UNCHANGED <<ledger, checkout, charge>>
    PROVE  Steady /\ NoneConsumed
  BY DEF Steady, NoneConsumed, Started, IsCaptured, ledger

LEMMA RecordedStays ==
    ASSUME Steady, NEW r, Recorded(r)
    PROVE  Recorded(r)'
  BY DEF Steady, Recorded

\* A record of a request in flight is never the idle one.
LEMMA BusyTyped ==
    ASSUME NEW t \in TaskRow \cup {Idle}
    PROVE  /\ t # Idle => t \in TaskRow
           /\ t.pc # "idle" => t \in TaskRow
           /\ t \in TaskRow => t # Idle /\ t.pc # "idle" /\ t.ref \in Reference
                               /\ t.claim \in Invoice \cup {NoInvoice}
                               /\ t.kobo \in Nat /\ t.naira \in BOOLEAN /\ t.credited \in BOOLEAN
                               /\ t.route \in {"webhook", "callback", "bursar"}
  BY DEF TaskRow, Idle

\* What another request knows stays true.
LEMMA KnowsStays ==
    ASSUME Steady, NEW t \in TaskRow \cup {Idle}, TaskKnows(t)
    PROVE  TaskKnows(t)'
<1> SUFFICES ASSUME t # Idle PROVE TaskKnows(t)'
  BY DEF TaskKnows
<1>1. t.ref \in Reference
  BY BusyTyped
<1>2. IsCaptured(t.ref) => charge'[t.ref] = charge[t.ref] /\ IsCaptured(t.ref)'
  BY <1>1 DEF Steady, IsCaptured
<1>3. Started(t.ref) => Started(t.ref)' /\ Asked(t.ref)' = Asked(t.ref)
  BY <1>1 DEF Steady, Started, Asked
<1>4. IsCaptured(t.ref) /\ ~Started(t.ref) => ~Started(t.ref)'
  BY <1>1 DEF Steady, Started
<1>5. Recorded(t.ref) => Recorded(t.ref)'
  BY RecordedStays
<1> QED
  BY <1>2, <1>3, <1>4, <1>5 DEF TaskKnows

LEMMA KnowledgeAfter ==
    ASSUME CheckoutTypeOK, TasksKnow, Steady, NEW w \in Worker, NEW n, Moves(w, n), TaskKnows(n)'
    PROVE  TasksKnow'
<1> SUFFICES ASSUME NEW v \in Worker PROVE TaskKnows(task[v])'
  BY DEF TasksKnow
<1>1. task \in [Worker -> TaskRow \cup {Idle}]
  BY DEF CheckoutTypeOK
<1>2. CASE v = w
  BY <1>1, <1>2 DEF Moves
<1>3. CASE v # w
  <2>1. task'[v] = task[v] /\ task[v] \in TaskRow \cup {Idle} /\ TaskKnows(task[v])
    BY <1>1, <1>3 DEF Moves, TasksKnow
  <2>2. \A t \in TaskRow \cup {Idle} : TaskKnows(t) => TaskKnows(t)'
    BY KnowsStays
  <2> QED
    BY <2>1, <2>2
<1> QED
  BY <1>2, <1>3

LEMMA KnowledgeKept ==
    ASSUME CheckoutTypeOK, TasksKnow, Steady, UNCHANGED task
    PROVE  TasksKnow'
<1>1. task \in [Worker -> TaskRow \cup {Idle}]
  BY DEF CheckoutTypeOK
<1>2. \A t \in TaskRow \cup {Idle} : TaskKnows(t) => TaskKnows(t)'
  BY KnowsStays
<1> QED
  BY <1>1, <1>2 DEF TasksKnow

\* A request that credits nothing new leaves the auditors as they were.
LEMMA AuditorsAfter ==
    ASSUME CheckoutTypeOK, AuditedAtMostOnce, OneAuditor, Steady, UNCHANGED audits,
           NEW w \in Worker, NEW n, Moves(w, n), \A r \in Reference : Credits(n, r) => Credits(task[w], r)
    PROVE  AuditedAtMostOnce' /\ OneAuditor'
<1>1. AuditedAtMostOnce'
  BY RecordedStays DEF AuditedAtMostOnce
<1>2. \A v \in Worker, r \in Reference : Credits(task'[v], r) => Credits(task[v], r)
  BY DEF Moves, CheckoutTypeOK
<1>3. OneAuditor'
  BY <1>2 DEF OneAuditor, Credits
<1> QED
  BY <1>1, <1>3

LEMMA AuditorsKept ==
    ASSUME AuditedAtMostOnce, OneAuditor, Steady, UNCHANGED <<task, audits>>
    PROVE  AuditedAtMostOnce' /\ OneAuditor'
  BY RecordedStays DEF AuditedAtMostOnce, OneAuditor, Credits

LEMMA ShownAfter ==
    ASSUME SuccessIsCredited, Steady, \A r \in shown' : r \in shown \/ Recorded(r)
    PROVE  SuccessIsCredited'
  BY RecordedStays DEF SuccessIsCredited

LEMMA ConsumedAfter ==
    ASSUME ConsumedHasPayment, Steady, NoneConsumed
    PROVE  ConsumedHasPayment'
  BY DEF ConsumedHasPayment, Steady, NoneConsumed, Started

\* The payments made so far stay backed by their charges and rows.
LEMMA PaymentsAfter ==
    ASSUME LedgerTypeOK, CreditedOnlyIfCaptured, CreditedAsStarted, Steady, UNCHANGED payments
    PROVE  CreditedOnlyIfCaptured' /\ CreditedAsStarted'
<1>1. \A k \in DOMAIN payments : payments[k].ref \in Reference \cup {NoRef}
  <2>1. \A k \in DOMAIN payments : payments[k] \in Payment
    BY DEF LedgerTypeOK
  <2> QED
    BY <2>1 DEF Payment
<1>2. CreditedOnlyIfCaptured'
  BY <1>1 DEF CreditedOnlyIfCaptured, Steady, IsCaptured
<1>3. CreditedAsStarted'
  BY <1>1 DEF CreditedAsStarted, CreditedOnlyIfCaptured, Steady, Started, Asked
<1> QED
  BY <1>2, <1>3

-----------------------------------------------------------------------------
LEMMA LedgerKept ==
    ASSUME LedgerInv, UNCHANGED ledger
    PROVE  LedgerInv'
  BY DEF LedgerInv, LedgerTypeOK, PaymentsOnInvoices, RowsDerived, RefundsWithinPayment,
         OnePaymentPerReference, TendersSpaced, Raised, ledger

\* A statement that reads only: the request moves on, or ends.
LEMMA MovingKeeps ==
    ASSUME CheckoutInv, UNCHANGED <<ledger, checkout, paystack, audits>>,
           NEW w \in Worker, NEW n \in TaskRow \cup {Idle}, Moves(w, n), TaskKnows(n),
           \A r \in Reference : Credits(n, r) => Credits(task[w], r),
           acked' \subseteq Reference, shown' \subseteq Reference,
           \A r \in shown' : r \in shown \/ Recorded(r)
    PROVE  CheckoutInv'
<1>1. UNCHANGED <<ledger, checkout, charge, opening, audits>> /\ UNCHANGED payments
  BY DEF paystack, ledger
<1>2. Steady /\ NoneConsumed
  BY <1>1, SteadyWhenUnchanged
<1>3. LedgerInv'
  BY <1>1, LedgerKept DEF CheckoutInv
<1>4. CheckoutTypeOK'
  <2>1. LedgerTypeOK'
    BY <1>3 DEF LedgerInv
  <2>2. task' \in [Worker -> TaskRow \cup {Idle}]
    BY DEF CheckoutInv, CheckoutTypeOK, Moves
  <2> QED
    BY <1>1, <2>1, <2>2 DEF CheckoutInv, CheckoutTypeOK
<1>5. ChargesFit'
  BY <1>1 DEF CheckoutInv, ChargesFit, Started, IsCaptured
<1>6. TasksKnow'
  <2>1. TaskKnows(n)'
    BY <1>2, KnowsStays
  <2> QED
    BY <1>2, <2>1, KnowledgeAfter DEF CheckoutInv
<1>7. CreditedOnlyIfCaptured' /\ CreditedAsStarted'
  BY <1>1, <1>2, PaymentsAfter DEF CheckoutInv, LedgerInv
<1>8. ConsumedHasPayment' /\ SuccessIsCredited'
  BY <1>2, ConsumedAfter, ShownAfter DEF CheckoutInv
<1>9. AuditedAtMostOnce' /\ OneAuditor'
  BY <1>1, <1>2, AuditorsAfter DEF CheckoutInv
<1> QED
  BY <1>3, <1>4, <1>5, <1>6, <1>7, <1>8, <1>9 DEF CheckoutInv

\* An idle worker knows and credits nothing.
LEMMA IdleKnows ==
    ASSUME NEW r
    PROVE  TaskKnows(Idle) /\ ~Credits(Idle, r)
  BY DEF TaskKnows, Credits

LEMMA DoneKeeps ==
    ASSUME CheckoutInv, UNCHANGED <<ledger, checkout, paystack, audits>>,
           NEW w \in Worker, Done(w),
           acked' \subseteq Reference, shown' \subseteq Reference,
           \A r \in shown' : r \in shown \/ Recorded(r)
    PROVE  CheckoutInv'
<1>1. Moves(w, Idle) /\ Idle \in TaskRow \cup {Idle}
  BY DEF Done, Moves
<1>2. TaskKnows(Idle) /\ \A r \in Reference : Credits(Idle, r) => Credits(task[w], r)
  BY IdleKnows
<1> QED
  BY <1>1, <1>2, MovingKeeps

\* A request that goes on to its next statement keeps what it carries.
LEMMA GotoRow ==
    ASSUME NEW t \in TaskRow, NEW label \in {"bursar", "find", "judge", "record", "outside", "consume", "audit"},
           NEW n, n = [t EXCEPT !.pc = label]
    PROVE  /\ n \in TaskRow /\ n # Idle /\ n.pc = label
           /\ n.ref = t.ref /\ n.claim = t.claim /\ n.kobo = t.kobo
           /\ n.naira = t.naira /\ n.credited = t.credited /\ n.route = t.route
<1>1. n \in TaskRow /\ n.pc = label
  BY DEF TaskRow
<1>2. n # Idle
  BY <1>1, BusyTyped
<1> QED
  BY <1>1, <1>2 DEF TaskRow

LEMMA ReadingKeeps ==
    ASSUME CheckoutInv, UNCHANGED <<ledger, checkout, paystack, answers>>,
           NEW w \in Worker, NEW n \in TaskRow \cup {Idle}, Moves(w, n), TaskKnows(n),
           \A r \in Reference : Credits(n, r) => Credits(task[w], r)
    PROVE  CheckoutInv'
<1>1. UNCHANGED <<ledger, checkout, paystack, audits>>
  BY DEF answers
<1>2. acked' \subseteq Reference /\ shown' \subseteq Reference /\ (\A r \in shown' : r \in shown \/ Recorded(r))
  BY DEF answers, CheckoutInv, CheckoutTypeOK
<1> QED
  BY <1>1, <1>2, MovingKeeps

\* A request that begins knows nothing yet.
LEMMA ArrivalKeeps ==
    ASSUME CheckoutInv, UNCHANGED <<ledger, checkout, paystack, answers>>,
           NEW w \in Worker, NEW ref \in Reference, NEW route \in {"webhook", "callback", "bursar"},
           NEW claim \in Invoice \cup {NoInvoice}, task' = [task EXCEPT ![w] = Task(route, ref, claim)]
    PROVE  CheckoutInv'
<1>1. Task(route, ref, claim) \in TaskRow
  BY DEF Task, TaskRow
<1>2. Task(route, ref, claim).pc = "verify" /\ Task(route, ref, claim).credited = FALSE
  BY DEF Task
<1>3. TaskKnows(Task(route, ref, claim))
  BY <1>2 DEF TaskKnows
<1>4. \A r \in Reference : ~Credits(Task(route, ref, claim), r)
  BY <1>2 DEF Credits
<1> QED
  BY <1>1, <1>3, <1>4, ReadingKeeps DEF Moves

-----------------------------------------------------------------------------
\* A worker at a statement carries a well-formed request.
LEMMA AtStatement ==
    ASSUME CheckoutInv, NEW w \in Worker, task[w].pc # "idle"
    PROVE  /\ task[w] \in TaskRow /\ task[w] # Idle /\ TaskKnows(task[w])
           /\ task[w].ref \in Reference /\ task[w].claim \in Invoice \cup {NoInvoice}
           /\ task[w].kobo \in Nat /\ task[w].naira \in BOOLEAN /\ task[w].credited \in BOOLEAN
<1>1. task[w] \in TaskRow \cup {Idle} /\ TaskKnows(task[w])
  BY DEF CheckoutInv, CheckoutTypeOK, TasksKnow
<1> QED
  BY <1>1, BusyTyped

\* Going on with what is known is enough to keep the invariant.
LEMMA GotoKeeps ==
    ASSUME CheckoutInv, UNCHANGED <<ledger, checkout, paystack, answers>>,
           NEW w \in Worker, task[w].pc # "idle",
           NEW label \in {"bursar", "find", "judge", "record", "outside"}, Goto(w, label),
           task[w].pc \notin {"verify", "consume", "audit"},
           label \in {"judge", "record"} => Started(task[w].ref),
           label = "record" => task[w].naira = TRUE /\ task[w].kobo = Asked(task[w].ref),
           label = "outside" => ~Started(task[w].ref) /\ task[w].claim \in Invoice
    PROVE  CheckoutInv'
<1> DEFINE t == task[w]
<1>1. t \in TaskRow /\ t # Idle /\ TaskKnows(t) /\ t.ref \in Reference
  BY AtStatement
<1>2. PICK n : n = [t EXCEPT !.pc = label]
  OBVIOUS
<1>3. /\ n \in TaskRow /\ n # Idle /\ n.pc = label
      /\ n.ref = t.ref /\ n.claim = t.claim /\ n.kobo = t.kobo
      /\ n.naira = t.naira /\ n.credited = t.credited
  BY <1>1, <1>2, GotoRow
<1>4. Moves(w, n)
  BY <1>2 DEF Goto, Moves
<1>5. TaskKnows(n)
  BY <1>1, <1>3 DEF TaskKnows
<1>6. \A r \in Reference : ~Credits(n, r)
  BY <1>3 DEF Credits
<1> QED
  BY <1>3, <1>4, <1>5, <1>6, ReadingKeeps

LEMMA VerifyFailsKeeps ==
    ASSUME CheckoutInv, NEW w \in Worker, VerifyFails(w)
    PROVE  CheckoutInv'
<1>1. task[w].pc # "idle" /\ Done(w) /\ UNCHANGED <<ledger, checkout, paystack, audits>> /\ UNCHANGED shown
  BY DEF VerifyFails
<1>2. acked' \subseteq Reference /\ shown' \subseteq Reference
  BY <1>1, AtStatement DEF VerifyFails, CheckoutInv, CheckoutTypeOK
<1> QED
  BY <1>1, <1>2, DoneKeeps

LEMMA CrashKeeps ==
    ASSUME CheckoutInv, NEW w \in Worker, Crash(w)
    PROVE  CheckoutInv'
<1>1. Done(w) /\ UNCHANGED <<ledger, checkout, paystack, audits>> /\ UNCHANGED <<acked, shown>>
  BY DEF Crash, answers
<1>2. acked' \subseteq Reference /\ shown' \subseteq Reference
  BY <1>1 DEF CheckoutInv, CheckoutTypeOK
<1> QED
  BY <1>1, <1>2, DoneKeeps

LEMMA ChargeTyped ==
    ASSUME NEW c \in ChargeRow
    PROVE  c.kobo \in Nat /\ c.naira \in BOOLEAN /\ c.invoice \in Invoice
<1>1. c.kobo \in Captured /\ c.naira \in BOOLEAN /\ c.invoice \in Invoice
  BY DEF ChargeRow
<1>2. \A x \in Captured : x \in Kobo \/ \E k \in Kobo, e \in Extra : x = k + e
  BY DEF Captured
<1>3. c.kobo \in Nat
  <2>1. Kobo \subseteq Nat /\ Extra \subseteq Nat
    BY KoboAssumption, ExtraAssumption
  <2>2. \A k \in Kobo : k \in Nat
    BY <2>1
  <2>3. \A e \in Extra : e \in Nat
    BY <2>1
  <2>4. CASE c.kobo \in Kobo
    BY <2>2, <2>4
  <2>5. CASE \E k \in Kobo, e \in Extra : c.kobo = k + e
    <3>1. PICK k \in Kobo, e \in Extra : c.kobo = k + e
      BY <2>5
    <3>2. k \in Nat /\ e \in Nat
      BY <2>2, <2>3
    <3> QED
      BY <3>1, <3>2
  <2> QED
    BY <1>1, <1>2, <2>4, <2>5
<1> QED
  BY <1>1, <1>3

\* Paystack's answer is what the charge says when it is read, and it was captured.
LEMMA VerifyKeeps ==
    ASSUME CheckoutInv, NEW w \in Worker, Verify(w)
    PROVE  CheckoutInv'
<1> DEFINE t == task[w]
<1> DEFINE c == charge[t.ref]
<1> DEFINE label == IF t.route = "bursar" THEN "bursar" ELSE "find"
<1>1. t.pc = "verify" /\ IsCaptured(t.ref) /\ UNCHANGED <<ledger, checkout, paystack, answers>>
  BY DEF Verify
<1>2. t \in TaskRow /\ t # Idle /\ TaskKnows(t) /\ t.ref \in Reference
  BY <1>1, AtStatement
<1>3. c \in ChargeRow /\ c.kobo \in Nat /\ c.naira \in BOOLEAN
  <2>1. c \in ChargeRow
    BY <1>1, <1>2 DEF CheckoutInv, CheckoutTypeOK, IsCaptured, NoCharge
  <2> QED
    BY <2>1, ChargeTyped
<1>4. PICK n : n = [t EXCEPT !.pc = label, !.kobo = c.kobo, !.naira = c.naira]
  OBVIOUS
<1>5. n \in TaskRow /\ n.pc \in {"bursar", "find"} /\ n.ref = t.ref /\ n.kobo = c.kobo /\ n.naira = c.naira
      /\ n.credited = t.credited
  BY <1>2, <1>3, <1>4 DEF TaskRow
<1>6. Moves(w, n)
  BY <1>4 DEF Verify, Moves
<1>7. TaskKnows(n)
  BY <1>1, <1>2, <1>5 DEF TaskKnows
<1>8. \A r \in Reference : ~Credits(n, r)
  BY <1>5 DEF Credits
<1> QED
  BY <1>1, <1>5, <1>6, <1>7, <1>8, ReadingKeeps

LEMMA BursarChecksKeeps ==
    ASSUME CheckoutInv, NEW w \in Worker, BursarChecks(w)
    PROVE  CheckoutInv'
<1> DEFINE t == task[w]
<1> DEFINE claimed == IF Started(t.ref) THEN checkout[t.ref].invoice ELSE charge[t.ref].invoice
<1>1. t.pc = "bursar" /\ UNCHANGED <<ledger, checkout, paystack, answers>>
  BY DEF BursarChecks
<1>2. t \in TaskRow /\ t # Idle /\ TaskKnows(t) /\ t.ref \in Reference
  BY <1>1, AtStatement
<1>3. CASE t.naira /\ claimed = t.claim
  <2>1. Goto(w, IF Started(t.ref) THEN "find" ELSE "outside")
    BY <1>3 DEF BursarChecks
  <2>2. CASE Started(t.ref)
    BY <1>1, <2>1, <2>2, GotoKeeps
  <2>3. CASE ~Started(t.ref)
    <3>1. IsCaptured(t.ref)
      BY <1>1, <1>2 DEF TaskKnows
    <3>2. charge[t.ref] \in ChargeRow
      BY <1>2, <3>1 DEF CheckoutInv, CheckoutTypeOK, IsCaptured, NoCharge
    <3>3. t.claim \in Invoice
      BY <1>3, <2>3, <3>2 DEF ChargeRow
    <3> QED
      BY <1>1, <2>1, <2>3, <3>3, GotoKeeps
  <2> QED
    BY <2>2, <2>3
<1>4. CASE ~(t.naira /\ claimed = t.claim)
  <2>1. Done(w)
    BY <1>4 DEF BursarChecks
  <2>2. UNCHANGED <<ledger, checkout, paystack, audits>> /\ UNCHANGED <<acked, shown>>
    BY <1>1 DEF answers
  <2>3. acked' \subseteq Reference /\ shown' \subseteq Reference
    BY <2>2 DEF CheckoutInv, CheckoutTypeOK
  <2> QED
    BY <2>1, <2>2, <2>3, DoneKeeps
<1> QED
  BY <1>3, <1>4

\* A payer is shown success only for a payment that is recorded.
LEMMA ShowingKeeps ==
    ASSUME CheckoutInv, NEW w \in Worker, task[w].pc # "idle", ShowSuccess(w), Recorded(task[w].ref)
    PROVE  shown' \subseteq Reference /\ \A r \in shown' : r \in shown \/ Recorded(r)
<1>1. task[w].ref \in Reference /\ shown \subseteq Reference
  BY AtStatement DEF CheckoutInv, CheckoutTypeOK
<1> QED
  BY <1>1 DEF ShowSuccess

LEMMA FindKeeps ==
    ASSUME CheckoutInv, NEW w \in Worker, Find(w)
    PROVE  CheckoutInv'
<1> DEFINE t == task[w]
<1>1. t.pc = "find" /\ UNCHANGED <<ledger, checkout, paystack, audits>> /\ UNCHANGED acked
  BY DEF Find
<1>2. t \in TaskRow /\ t # Idle /\ TaskKnows(t) /\ t.ref \in Reference
  BY <1>1, AtStatement
<1>3. acked' \subseteq Reference /\ shown \subseteq Reference
  BY <1>1 DEF CheckoutInv, CheckoutTypeOK
<1>4. CASE ~Started(t.ref) /\ Done(w) /\ UNCHANGED shown
  BY <1>1, <1>3, <1>4, DoneKeeps
<1>5. CASE Started(t.ref) /\ checkout[t.ref].status = "consumed" /\ Done(w) /\ ShowSuccess(w)
  <2>1. Recorded(t.ref)
    BY <1>2, <1>5 DEF CheckoutInv, ConsumedHasPayment, Recorded
  <2> QED
    BY <1>1, <1>3, <1>5, <2>1, ShowingKeeps, DoneKeeps
<1>6. CASE Started(t.ref) /\ Goto(w, "judge") /\ UNCHANGED shown
  <2>1. UNCHANGED <<ledger, checkout, paystack, answers>>
    BY <1>1, <1>6 DEF answers
  <2> QED
    BY <1>1, <1>6, <2>1, GotoKeeps
<1> QED
  BY <1>4, <1>5, <1>6 DEF Find

\* Failing a pending row changes its status and nothing else.
LEMMA MarkingSteady ==
    ASSUME CheckoutInv, NEW ref \in Reference, Started(ref), MarkFailed(ref), UNCHANGED <<ledger, charge>>
    PROVE  /\ Steady /\ NoneConsumed
           /\ checkout' \in [Reference -> CheckoutRow \cup {NoCheckout}]
           /\ \A r \in Reference : (checkout'[r] # NoCheckout) <=> Started(r)
<1>1. checkout \in [Reference -> CheckoutRow \cup {NoCheckout}] /\ checkout[ref] \in CheckoutRow
  BY DEF CheckoutInv, CheckoutTypeOK, Started
<1>2. PICK row : row = [checkout[ref] EXCEPT !.status = "failed"]
  OBVIOUS
<1>3. /\ row \in CheckoutRow /\ row # NoCheckout /\ row.status = "failed" /\ row.invoice = checkout[ref].invoice
      /\ row.fee = checkout[ref].fee /\ row.extra = checkout[ref].extra
  <2>1. row \in CheckoutRow
    BY <1>1, <1>2 DEF CheckoutRow
  <2>2. row # NoCheckout
    BY <2>1, NoRowAssumption
  <2> QED
    BY <1>1, <1>2, <2>1, <2>2 DEF CheckoutRow
<1>4. checkout' = [checkout EXCEPT ![ref] = row] \/ checkout' = checkout
  BY <1>2 DEF MarkFailed
<1>5. UNCHANGED payments
  BY DEF ledger
<1>6. \A r \in Reference : r # ref => checkout'[r] = checkout[r]
  BY <1>1, <1>4
<1>7. checkout'[ref] = row \/ checkout'[ref] = checkout[ref]
  BY <1>1, <1>4
<1>8. checkout' \in [Reference -> CheckoutRow \cup {NoCheckout}]
  BY <1>1, <1>3, <1>4
<1>9. Steady
  BY <1>3, <1>5, <1>6, <1>7 DEF Steady, Started
<1>10. NoneConsumed
  BY <1>3, <1>6, <1>7 DEF NoneConsumed
<1>11. \A r \in Reference : (checkout'[r] # NoCheckout) <=> Started(r)
  BY <1>3, <1>6, <1>7 DEF Started
<1> QED
  BY <1>8, <1>9, <1>10, <1>11

LEMMA JudgeKeeps ==
    ASSUME CheckoutInv, NEW w \in Worker, Judge(w)
    PROVE  CheckoutInv'
<1> DEFINE t == task[w]
<1>1. t.pc = "judge" /\ UNCHANGED <<ledger, paystack, answers>>
  BY DEF Judge
<1>2. t \in TaskRow /\ t # Idle /\ TaskKnows(t) /\ t.ref \in Reference /\ Started(t.ref) /\ t.naira \in BOOLEAN
  <2>1. t \in TaskRow /\ t # Idle /\ TaskKnows(t) /\ t.ref \in Reference /\ t.naira \in BOOLEAN
    BY <1>1, AtStatement
  <2> QED
    BY <1>1, <2>1 DEF TaskKnows
<1>3. CASE t.naira /\ t.kobo = Asked(t.ref)
  <2>1. Goto(w, "record") /\ UNCHANGED <<ledger, checkout, paystack, answers>>
    BY <1>1, <1>3 DEF Judge
  <2> QED
    BY <1>1, <1>2, <1>3, <2>1, GotoKeeps
<1>4. CASE ~(t.naira /\ t.kobo = Asked(t.ref))
  <2>1. Done(w) /\ MarkFailed(t.ref)
    BY <1>4 DEF Judge
  <2>2. UNCHANGED <<ledger, charge, opening, acked, shown, audits>> /\ UNCHANGED payments
    BY <1>1 DEF paystack, answers, ledger
  <2>3. /\ Steady /\ NoneConsumed
        /\ checkout' \in [Reference -> CheckoutRow \cup {NoCheckout}]
        /\ \A r \in Reference : (checkout'[r] # NoCheckout) <=> Started(r)
    BY <1>2, <2>1, <2>2, MarkingSteady
  <2>4. LedgerInv'
    BY <2>2, LedgerKept DEF CheckoutInv
  <2>5. Moves(w, Idle) /\ TaskKnows(Idle)' /\ (\A r \in Reference : Credits(Idle, r) => Credits(task[w], r))
    BY <2>1, IdleKnows DEF Done, Moves, TaskKnows
  <2>6. CheckoutTypeOK'
    <3>1. task' \in [Worker -> TaskRow \cup {Idle}]
      BY <2>5 DEF CheckoutInv, CheckoutTypeOK, Moves
    <3> QED
      BY <2>2, <2>3, <2>4, <3>1 DEF CheckoutInv, CheckoutTypeOK, LedgerInv
  <2>7. ChargesFit'
    BY <2>2, <2>3 DEF CheckoutInv, ChargesFit, Started, IsCaptured
  <2>8. TasksKnow'
    BY <2>3, <2>5, KnowledgeAfter DEF CheckoutInv
  <2>9. CreditedOnlyIfCaptured' /\ CreditedAsStarted'
    BY <2>2, <2>3, PaymentsAfter DEF CheckoutInv, LedgerInv
  <2>10. ConsumedHasPayment' /\ SuccessIsCredited'
    BY <2>2, <2>3, ConsumedAfter, ShownAfter DEF CheckoutInv
  <2>11. AuditedAtMostOnce' /\ OneAuditor'
    BY <2>2, <2>3, <2>5, AuditorsAfter DEF CheckoutInv
  <2> QED
    BY <2>4, <2>6, <2>7, <2>8, <2>9, <2>10, <2>11 DEF CheckoutInv
<1> QED
  BY <1>3, <1>4

-----------------------------------------------------------------------------
\* A payment is appended; rows and charges stay as they are.
LEMMA PayEffects ==
    ASSUME CheckoutInv, NEW p \in Payment, p.refunded = 0, Pay(p), UNCHANGED <<checkout, charge>>
    PROVE  /\ LedgerInv' /\ Steady /\ NoneConsumed
           /\ Recorded(p.ref)'
           /\ \A k \in DOMAIN payments' : (k \in DOMAIN payments /\ payments'[k] = payments[k]) \/ payments'[k] = p
<1>1. LedgerInv'
  BY PayKeepsInv DEF CheckoutInv
<1>2. payments \in Seq(Payment) /\ payments' = Append(payments, p)
  BY DEF CheckoutInv, LedgerInv, LedgerTypeOK, Pay
<1>3. /\ Len(payments) \in Nat /\ DOMAIN payments = 1..Len(payments)
      /\ DOMAIN payments' = 1..(Len(payments) + 1)
      /\ \A k \in 1..Len(payments) : payments'[k] = payments[k]
      /\ payments'[Len(payments) + 1] = p
  BY <1>2
<1>4. \A k \in DOMAIN payments' : k \in DOMAIN payments \/ k = Len(payments) + 1
  BY <1>3
<1>5. Steady
  BY <1>3 DEF Steady, Started, IsCaptured
<1>6. NoneConsumed
  BY DEF NoneConsumed
<1>7. Recorded(p.ref)'
  BY <1>3 DEF Recorded
<1> QED
  BY <1>1, <1>3, <1>4, <1>5, <1>6, <1>7

\* The new payment is backed by its charge and its row.
LEMMA PaymentBacked ==
    ASSUME CheckoutInv, NEW p \in Payment, p.refunded = 0, Pay(p), UNCHANGED <<checkout, charge>>,
           p.ref # NoRef => IsCaptured(p.ref) /\ p.kobo <= charge[p.ref].kobo,
           p.ref # NoRef /\ Started(p.ref) => /\ p.invoice = checkout[p.ref].invoice
                                              /\ p.kobo = checkout[p.ref].fee
                                              /\ charge[p.ref].kobo = Asked(p.ref)
                                              /\ charge[p.ref].naira
    PROVE  CreditedOnlyIfCaptured' /\ CreditedAsStarted'
<1>1. \A k \in DOMAIN payments' : (k \in DOMAIN payments /\ payments'[k] = payments[k]) \/ payments'[k] = p
  BY PayEffects
<1>2. \A r : IsCaptured(r)' = IsCaptured(r) /\ Started(r)' = Started(r) /\ Asked(r)' = Asked(r)
  BY DEF IsCaptured, Started, Asked
<1>3. CreditedOnlyIfCaptured'
  BY <1>1, <1>2 DEF CreditedOnlyIfCaptured, CheckoutInv
<1>4. CreditedAsStarted'
  BY <1>1, <1>2 DEF CreditedAsStarted, CheckoutInv
<1> QED
  BY <1>3, <1>4

\* The request that recorded a reference nobody had recorded is its only auditor.
LEMMA AuditorJoins ==
    ASSUME CheckoutInv, Steady, UNCHANGED audits, NEW w \in Worker, NEW n, Moves(w, n),
           n.ref \in Reference, ~Recorded(n.ref)
    PROVE  AuditedAtMostOnce' /\ OneAuditor'
<1>1. AuditedAtMostOnce'
  BY RecordedStays DEF AuditedAtMostOnce, CheckoutInv
<1>2. task \in [Worker -> TaskRow \cup {Idle}] /\ audits \in [Reference -> Nat]
  BY DEF CheckoutInv, CheckoutTypeOK
<1>3. task'[w] = n /\ \A v \in Worker : v # w => task'[v] = task[v]
  BY <1>2 DEF Moves
<1>4. \A v \in Worker : ~Credits(task[v], n.ref)
  BY DEF CheckoutInv, TasksKnow, TaskKnows, Credits
<1>5. \A r \in Reference : Credits(n, r) => r = n.ref
  BY DEF Credits
<1>6. audits[n.ref] = 0
  BY <1>2 DEF CheckoutInv, AuditedAtMostOnce
<1>7. \A r \in Reference, v \in Worker :
        Credits(task'[v], r) => (v = w /\ r = n.ref) \/ (v # w /\ r # n.ref /\ Credits(task[v], r))
  BY <1>3, <1>4, <1>5
<1>8. \A r \in Reference, v, u \in Worker : Credits(task'[v], r) /\ Credits(task'[u], r) => v = u
  <2>1. \A r \in Reference, v, u \in Worker : Credits(task[v], r) /\ Credits(task[u], r) => v = u
    BY DEF CheckoutInv, OneAuditor
  <2> QED
    BY <1>7, <2>1
<1>9. \A r \in Reference, v \in Worker : Credits(task'[v], r) => audits'[r] = 0
  <2>1. \A r \in Reference, v \in Worker : Credits(task[v], r) => audits[r] = 0
    BY DEF CheckoutInv, OneAuditor
  <2> QED
    BY <1>6, <1>7, <2>1
<1>10. OneAuditor'
  BY <1>8, <1>9 DEF OneAuditor, Credits
<1> QED
  BY <1>1, <1>10

\* A recorded payment, whoever recorded it.
LEMMA RecordingKeeps ==
    ASSUME CheckoutInv, NEW w \in Worker, NEW n \in TaskRow, Moves(w, n),
           NEW p \in Payment, p.refunded = 0, Pay(p), p.ref = n.ref, ~Recorded(n.ref),
           UNCHANGED <<checkout, paystack, answers>>,
           IsCaptured(p.ref) /\ p.kobo <= charge[p.ref].kobo,
           Started(p.ref) => /\ p.invoice = checkout[p.ref].invoice
                             /\ p.kobo = checkout[p.ref].fee
                             /\ charge[p.ref].kobo = Asked(p.ref)
                             /\ charge[p.ref].naira,
           TaskKnows(n)'
    PROVE  CheckoutInv'
<1>1. UNCHANGED <<checkout, charge>> /\ UNCHANGED <<opening, acked, shown, audits>>
  BY DEF paystack, answers
<1>2. LedgerInv' /\ Steady /\ NoneConsumed
  BY <1>1, PayEffects
<1>3. n.ref \in Reference
  BY BusyTyped
<1>4. CheckoutTypeOK'
  <2>1. task' \in [Worker -> TaskRow \cup {Idle}]
    BY DEF CheckoutInv, CheckoutTypeOK, Moves
  <2> QED
    BY <1>1, <1>2, <2>1 DEF CheckoutInv, CheckoutTypeOK, LedgerInv
<1>5. ChargesFit'
  BY <1>1 DEF CheckoutInv, ChargesFit, Started, IsCaptured
<1>6. TasksKnow'
  BY <1>2, KnowledgeAfter DEF CheckoutInv
<1>7. CreditedOnlyIfCaptured' /\ CreditedAsStarted'
  BY <1>1, PaymentBacked
<1>8. ConsumedHasPayment' /\ SuccessIsCredited'
  BY <1>1, <1>2, ConsumedAfter, ShownAfter DEF CheckoutInv
<1>9. AuditedAtMostOnce' /\ OneAuditor'
  BY <1>1, <1>2, <1>3, AuditorJoins
<1> QED
  BY <1>2, <1>4, <1>5, <1>6, <1>7, <1>8, <1>9 DEF CheckoutInv

\* An online payment of a staff member, a payer or Paystack is a well-formed payment.
LEMMA OnlinePayment ==
    ASSUME NEW i \in Invoice, NEW kobo \in Kobo, NEW ref \in Reference, NEW p,
           p = NewPayment(i, kobo, "paystack", ref, 0)
    PROVE  p \in Payment /\ p.refunded = 0 /\ p.invoice = i /\ p.kobo = kobo /\ p.ref = ref
  BY BothWaysAssumption, TimeAssumption DEF Payment, NewPayment

LEMMA RowFields ==
    ASSUME NEW row \in CheckoutRow
    PROVE  row.invoice \in Invoice /\ row.fee \in Kobo /\ row.extra \in Nat /\ row.fee \in Nat
<1>1. row.invoice \in Invoice /\ row.fee \in Kobo /\ row.extra \in Extra
  BY DEF CheckoutRow
<1>2. row.fee \in Nat
  BY <1>1, KoboAssumption
<1>3. row.extra \in Nat
  BY <1>1, ExtraAssumption
<1> QED
  BY <1>1, <1>2, <1>3

LEMMA RecordKeeps ==
    ASSUME CheckoutInv, NEW w \in Worker, Record(w)
    PROVE  CheckoutInv'
<1> DEFINE t == task[w]
<1> DEFINE row == checkout[t.ref]
<1>1. t.pc = "record" /\ UNCHANGED <<checkout, paystack, answers>>
  BY DEF Record
<1>2. t \in TaskRow /\ t # Idle /\ TaskKnows(t) /\ t.ref \in Reference
  BY <1>1, AtStatement
<1>3. /\ IsCaptured(t.ref) /\ t.kobo = charge[t.ref].kobo /\ t.naira = charge[t.ref].naira
      /\ Started(t.ref) /\ t.naira = TRUE /\ t.kobo = Asked(t.ref) /\ t.credited = FALSE
  BY <1>1, <1>2 DEF TaskKnows
<1>4. CASE Recorded(t.ref)
  <2>1. Goto(w, "consume") /\ UNCHANGED <<ledger, checkout, paystack, answers>>
    BY <1>1, <1>4 DEF Record
  <2>2. PICK n : n = [t EXCEPT !.pc = "consume"]
    OBVIOUS
  <2>3. /\ n \in TaskRow /\ n # Idle /\ n.pc = "consume" /\ n.ref = t.ref /\ n.kobo = t.kobo
        /\ n.naira = t.naira /\ n.credited = t.credited
    BY <1>2, <2>2, GotoRow
  <2>4. Moves(w, n)
    BY <2>1, <2>2 DEF Goto, Moves
  <2>5. TaskKnows(n)
    BY <1>3, <1>4, <2>3 DEF TaskKnows
  <2>6. \A r \in Reference : ~Credits(n, r)
    BY <1>3, <2>3 DEF Credits
  <2> QED
    BY <2>1, <2>3, <2>4, <2>5, <2>6, ReadingKeeps
<1>5. CASE ~Recorded(t.ref)
  <2>1. PICK p : p = NewPayment(row.invoice, row.fee, "paystack", t.ref, 0)
    OBVIOUS
  <2>2. PICK n : n = [t EXCEPT !.pc = "consume", !.credited = TRUE]
    OBVIOUS
  <2>3. Pay(p) /\ Moves(w, n)
    BY <1>5, <2>1, <2>2 DEF Record, Moves
  <2>4. row.invoice \in Invoice /\ row.fee \in Kobo /\ row.extra \in Nat /\ row.fee \in Nat
    <3>1. row \in CheckoutRow
      BY <1>2, <1>3 DEF CheckoutInv, CheckoutTypeOK, Started
    <3> QED
      BY <3>1, RowFields
  <2>5. p \in Payment /\ p.refunded = 0 /\ p.invoice = row.invoice /\ p.kobo = row.fee /\ p.ref = t.ref
    <3>1. row.invoice \in Invoice /\ row.fee \in Kobo /\ t.ref \in Reference
      BY <1>2, <2>4
    <3> HIDE DEF row, t
    <3> QED
      BY <2>1, <3>1, OnlinePayment
  <2>6. charge[t.ref].kobo = row.fee + row.extra
    BY <1>3 DEF Asked
  <2>7. p.kobo <= charge[p.ref].kobo
    BY <2>4, <2>5, <2>6
  <2>8. /\ n \in TaskRow /\ n # Idle /\ n.pc = "consume" /\ n.ref = t.ref /\ n.kobo = t.kobo
        /\ n.naira = t.naira
    <3>1. n \in TaskRow /\ n.pc = "consume" /\ n.ref = t.ref /\ n.kobo = t.kobo /\ n.naira = t.naira
      BY <1>2, <2>2 DEF TaskRow
    <3> QED
      BY <3>1, BusyTyped
  <2>9. Recorded(p.ref)'
    BY <1>1, <2>3, <2>5, PayEffects DEF paystack
  <2>10. TaskKnows(n)'
    <3>1. IsCaptured(n.ref)' /\ n.kobo = (charge')[n.ref].kobo /\ n.naira = (charge')[n.ref].naira
      BY <1>1, <1>3, <2>8 DEF paystack, IsCaptured
    <3>2. Started(n.ref)' /\ n.naira = TRUE /\ n.kobo = Asked(n.ref)'
      BY <1>1, <1>3, <2>8 DEF Started, Asked
    <3> QED
      BY <2>5, <2>8, <2>9, <3>1, <3>2 DEF TaskKnows
  <2>11. /\ IsCaptured(p.ref) /\ p.invoice = checkout[p.ref].invoice /\ p.kobo = checkout[p.ref].fee
         /\ charge[p.ref].kobo = Asked(p.ref) /\ charge[p.ref].naira
    BY <1>3, <2>5
  <2> QED
    BY <1>1, <1>5, <2>3, <2>5, <2>7, <2>8, <2>10, <2>11, RecordingKeeps
<1> QED
  BY <1>4, <1>5

LEMMA RecordOutsideKeeps ==
    ASSUME CheckoutInv, NEW w \in Worker, RecordOutside(w)
    PROVE  CheckoutInv'
<1> DEFINE t == task[w]
<1>1. t.pc = "outside" /\ UNCHANGED <<checkout, paystack, answers>>
  BY DEF RecordOutside
<1>2. t \in TaskRow /\ t # Idle /\ TaskKnows(t) /\ t.ref \in Reference /\ t.kobo \in Nat
  BY <1>1, AtStatement
<1>3. /\ IsCaptured(t.ref) /\ t.kobo = charge[t.ref].kobo /\ t.naira = charge[t.ref].naira
      /\ ~Started(t.ref) /\ t.claim \in Invoice /\ t.credited = FALSE
  BY <1>1, <1>2 DEF TaskKnows
<1>4. CASE Recorded(t.ref)
  <2>1. Done(w) /\ UNCHANGED <<ledger, checkout, paystack, audits>> /\ UNCHANGED <<acked, shown>>
    BY <1>1, <1>4 DEF RecordOutside, answers
  <2>2. acked' \subseteq Reference /\ shown' \subseteq Reference
    BY <2>1 DEF CheckoutInv, CheckoutTypeOK
  <2> QED
    BY <2>1, <2>2, DoneKeeps
<1>5. CASE ~Recorded(t.ref)
  <2>1. PICK p : p = NewPayment(t.claim, t.kobo, "paystack", t.ref, 0)
    OBVIOUS
  <2>2. PICK n : n = [t EXCEPT !.pc = "audit"]
    OBVIOUS
  <2>3. Pay(p) /\ Moves(w, n)
    BY <1>5, <2>1, <2>2 DEF RecordOutside, Goto, Moves
  <2>4. t.kobo \in Kobo
    <3>1. charge[t.ref] # NoCharge
      BY <1>3 DEF IsCaptured, NoCharge
    <3>2. charge[t.ref].kobo \in Kobo
      BY <1>2, <1>3, <3>1 DEF CheckoutInv, ChargesFit
    <3> QED
      BY <1>3, <3>2
  <2>5. p \in Payment /\ p.refunded = 0 /\ p.kobo = t.kobo /\ p.ref = t.ref
    BY <1>2, <1>3, <2>1, <2>4, OnlinePayment
  <2>6. /\ n \in TaskRow /\ n # Idle /\ n.pc = "audit" /\ n.ref = t.ref /\ n.kobo = t.kobo
        /\ n.naira = t.naira
    BY <1>2, <2>2, GotoRow
  <2>7. Recorded(p.ref)'
    BY <1>1, <2>3, <2>5, PayEffects DEF paystack
  <2>8. TaskKnows(n)'
    <3>1. IsCaptured(n.ref)' /\ n.kobo = (charge')[n.ref].kobo /\ n.naira = (charge')[n.ref].naira
      BY <1>1, <1>3, <2>6 DEF paystack, IsCaptured
    <3> QED
      BY <2>5, <2>6, <2>7, <3>1 DEF TaskKnows
  <2>9. IsCaptured(p.ref) /\ p.kobo <= charge[p.ref].kobo /\ ~Started(p.ref)
    BY <1>2, <1>3, <2>5
  <2> QED
    BY <1>1, <1>5, <2>3, <2>5, <2>6, <2>8, <2>9, RecordingKeeps
<1> QED
  BY <1>4, <1>5

\* Consuming a row sets its status and payment, and is the end of it.
LEMMA ConsumingEffects ==
    ASSUME CheckoutInv, NEW ref \in Reference, Started(ref), Recorded(ref), UNCHANGED <<ledger, charge>>,
           checkout' = IF checkout[ref].status = "consumed" THEN checkout
                       ELSE [checkout EXCEPT ![ref].status = "consumed", ![ref].payment = PaymentOf(ref)]
    PROVE  /\ Steady /\ ConsumedHasPayment'
           /\ checkout' \in [Reference -> CheckoutRow \cup {NoCheckout}]
           /\ \A r \in Reference : (checkout'[r] # NoCheckout) <=> Started(r)
<1> DEFINE k == PaymentOf(ref)
<1>1. checkout \in [Reference -> CheckoutRow \cup {NoCheckout}] /\ checkout[ref] \in CheckoutRow
  BY DEF CheckoutInv, CheckoutTypeOK, Started
<1>2. UNCHANGED payments
  BY DEF ledger
<1>3. k \in DOMAIN payments /\ payments[k].ref = ref /\ k \in Nat
  <2>1. k \in DOMAIN payments /\ payments[k].ref = ref
    BY DEF Recorded, PaymentOf
  <2>2. payments \in Seq(Payment)
    BY DEF CheckoutInv, LedgerInv, LedgerTypeOK
  <2> QED
    BY <2>1, <2>2
<1>4. CASE checkout[ref].status = "consumed"
  <2>1. UNCHANGED checkout
    BY <1>4
  <2>2. Steady /\ NoneConsumed
    BY <2>1, SteadyWhenUnchanged
  <2>3. ConsumedHasPayment'
    BY <2>2, ConsumedAfter DEF CheckoutInv
  <2> QED
    BY <1>1, <2>1, <2>2, <2>3 DEF Started
<1>5. CASE checkout[ref].status # "consumed"
  <2>1. PICK row : row = [checkout[ref] EXCEPT !.status = "consumed", !.payment = k]
    OBVIOUS
  <2>2. /\ row \in CheckoutRow /\ row.payment = k /\ row.invoice = checkout[ref].invoice
        /\ row.fee = checkout[ref].fee /\ row.extra = checkout[ref].extra
    BY <1>1, <1>3, <2>1 DEF CheckoutRow
  <2>3. row # NoCheckout
    BY <2>2, NoRowAssumption
  <2>4. checkout' = [checkout EXCEPT ![ref] = row]
    BY <1>5, <2>1
  <2>5. checkout'[ref] = row /\ \A r \in Reference : r # ref => checkout'[r] = checkout[r]
    BY <1>1, <2>4
  <2>6. Steady
    BY <1>2, <2>2, <2>3, <2>5 DEF Steady, Started
  <2>7. ConsumedHasPayment'
    BY <1>2, <1>3, <2>2, <2>5 DEF CheckoutInv, ConsumedHasPayment, Started
  <2>8. checkout' \in [Reference -> CheckoutRow \cup {NoCheckout}]
    BY <1>1, <2>2, <2>4
  <2>9. \A r \in Reference : (checkout'[r] # NoCheckout) <=> Started(r)
    BY <2>3, <2>5 DEF Started
  <2> QED
    BY <2>6, <2>7, <2>8, <2>9
<1> QED
  BY <1>4, <1>5

LEMMA ConsumeKeeps ==
    ASSUME CheckoutInv, NEW w \in Worker, Consume(w)
    PROVE  CheckoutInv'
<1> DEFINE t == task[w]
<1>1. t.pc = "consume" /\ UNCHANGED <<ledger, charge, opening, acked, audits>> /\ UNCHANGED payments
  BY DEF Consume, paystack, ledger
<1>2. t \in TaskRow /\ t # Idle /\ TaskKnows(t) /\ t.ref \in Reference /\ t.credited \in BOOLEAN
  BY <1>1, AtStatement
<1>3. /\ IsCaptured(t.ref) /\ t.kobo = charge[t.ref].kobo /\ t.naira = charge[t.ref].naira
      /\ Started(t.ref) /\ Recorded(t.ref)
  BY <1>1, <1>2 DEF TaskKnows
<1>4. /\ Steady /\ ConsumedHasPayment'
      /\ checkout' \in [Reference -> CheckoutRow \cup {NoCheckout}]
      /\ \A r \in Reference : (checkout'[r] # NoCheckout) <=> Started(r)
  BY <1>1, <1>2, <1>3, ConsumingEffects DEF Consume
<1>5. PICK n \in TaskRow \cup {Idle} :
          /\ Moves(w, n) /\ TaskKnows(n)
          /\ \A r \in Reference : Credits(n, r) => Credits(task[w], r)
  <2>1. CASE t.credited
    <3>1. PICK n : n = [t EXCEPT !.pc = "audit"]
      OBVIOUS
    <3>2. /\ n \in TaskRow /\ n # Idle /\ n.pc = "audit" /\ n.ref = t.ref /\ n.kobo = t.kobo
          /\ n.naira = t.naira /\ n.credited = t.credited
      BY <1>2, <3>1, GotoRow
    <3>3. Moves(w, n)
      BY <2>1, <3>1 DEF Consume, Goto, Moves
    <3>4. TaskKnows(n)
      BY <1>3, <3>2 DEF TaskKnows
    <3>5. \A r \in Reference : Credits(n, r) => Credits(t, r)
      BY <1>1, <1>2, <2>1, <3>2 DEF Credits
    <3> QED
      BY <3>2, <3>3, <3>4, <3>5
  <2>2. CASE ~t.credited
    <3>1. Moves(w, Idle)
      BY <2>2 DEF Consume, Done, Moves
    <3> QED
      BY <3>1, IdleKnows
  <2> QED
    BY <1>2, <2>1, <2>2
<1>6. LedgerInv'
  BY <1>1, LedgerKept DEF CheckoutInv
<1>7. shown' \subseteq Reference /\ \A r \in shown' : r \in shown \/ Recorded(r)
  <2>1. ShowSuccess(w) \/ UNCHANGED shown
    BY DEF Consume
  <2> QED
    BY <1>1, <1>3, <2>1, ShowingKeeps DEF CheckoutInv, CheckoutTypeOK
<1>8. CheckoutTypeOK'
  <2>1. task' \in [Worker -> TaskRow \cup {Idle}]
    BY <1>5 DEF CheckoutInv, CheckoutTypeOK, Moves
  <2> QED
    BY <1>1, <1>4, <1>6, <1>7, <2>1 DEF CheckoutInv, CheckoutTypeOK, LedgerInv
<1>9. ChargesFit'
  BY <1>1, <1>4 DEF CheckoutInv, ChargesFit, Started, IsCaptured
<1>10. TasksKnow'
  <2>1. TaskKnows(n)'
    BY <1>4, <1>5, KnowsStays
  <2> QED
    BY <1>4, <1>5, <2>1, KnowledgeAfter DEF CheckoutInv
<1>11. CreditedOnlyIfCaptured' /\ CreditedAsStarted'
  BY <1>1, <1>4, PaymentsAfter DEF CheckoutInv, LedgerInv
<1>12. SuccessIsCredited'
  BY <1>4, <1>7, ShownAfter DEF CheckoutInv
<1>13. AuditedAtMostOnce' /\ OneAuditor'
  BY <1>1, <1>4, <1>5, AuditorsAfter DEF CheckoutInv
<1> QED
  BY <1>4, <1>6, <1>8, <1>9, <1>10, <1>11, <1>12, <1>13 DEF CheckoutInv

LEMMA AuditingCredits ==
    ASSUME NEW t, t # Idle, t.pc = "audit"
    PROVE  Credits(t, t.ref)
  BY DEF Credits

LEMMA AuditKeeps ==
    ASSUME CheckoutInv, NEW w \in Worker, Audit(w)
    PROVE  CheckoutInv'
<1> DEFINE t == task[w]
<1>1. /\ t.pc = "audit" /\ Done(w) /\ ShowSuccess(w) /\ UNCHANGED <<ledger, checkout, charge, opening, acked>>
      /\ UNCHANGED payments /\ audits' = [audits EXCEPT ![t.ref] = @ + 1]
  BY DEF Audit, paystack, ledger
<1>2. t \in TaskRow /\ t # Idle /\ TaskKnows(t) /\ t.ref \in Reference
  BY <1>1, AtStatement
<1>3. Recorded(t.ref) /\ Credits(t, t.ref)
  <2>1. Recorded(t.ref)
    BY <1>1, <1>2 DEF TaskKnows
  <2>2. t.pc = "audit" /\ t # Idle
    BY <1>1, <1>2
  <2>3. Credits(t, t.ref)
    BY <2>2, AuditingCredits
  <2> QED
    BY <2>1, <2>3
<1>4. Steady /\ NoneConsumed
  BY <1>1, SteadyWhenUnchanged
<1>5. task' = [task EXCEPT ![w] = Idle] /\ Moves(w, Idle) /\ TaskKnows(Idle)'
  BY <1>1 DEF Done, Moves, TaskKnows
<1>6. LedgerInv'
  BY <1>1, LedgerKept DEF CheckoutInv
<1>7. shown' \subseteq Reference /\ \A r \in shown' : r \in shown \/ Recorded(r)
  BY <1>1, <1>3, ShowingKeeps
<1>8. audits \in [Reference -> Nat] /\ task \in [Worker -> TaskRow \cup {Idle}]
  BY DEF CheckoutInv, CheckoutTypeOK
<1>9. audits' \in [Reference -> Nat] /\ audits'[t.ref] = audits[t.ref] + 1
      /\ \A r \in Reference : r # t.ref => audits'[r] = audits[r]
  BY <1>1, <1>2, <1>8
<1>10. CheckoutTypeOK'
  <2>1. task' \in [Worker -> TaskRow \cup {Idle}]
    BY <1>5, <1>8
  <2> QED
    BY <1>1, <1>6, <1>7, <1>9, <2>1 DEF CheckoutInv, CheckoutTypeOK, LedgerInv
<1>11. ChargesFit'
  BY <1>1 DEF CheckoutInv, ChargesFit, Started, IsCaptured
<1>12. TasksKnow'
  BY <1>4, <1>5, KnowledgeAfter DEF CheckoutInv
<1>13. CreditedOnlyIfCaptured' /\ CreditedAsStarted'
  BY <1>1, <1>4, PaymentsAfter DEF CheckoutInv, LedgerInv
<1>14. ConsumedHasPayment' /\ SuccessIsCredited'
  BY <1>4, <1>7, ConsumedAfter, ShownAfter DEF CheckoutInv
<1>15. AuditedAtMostOnce'
  <2>1. audits[t.ref] = 0
    BY <1>2, <1>3 DEF CheckoutInv, OneAuditor
  <2>2. audits'[t.ref] = 1
    BY <1>9, <2>1
  <2>3. \A r \in Reference : audits[r] <= 1 /\ (audits[r] = 1 => Recorded(r))
    BY DEF CheckoutInv, AuditedAtMostOnce
  <2>4. \A r \in Reference : Recorded(r) => Recorded(r)'
    BY <1>4, RecordedStays
  <2>5. \A r \in Reference : audits'[r] <= 1 /\ (audits'[r] = 1 => Recorded(r)')
    BY <1>3, <1>9, <2>2, <2>3, <2>4
  <2> QED
    BY <2>5 DEF AuditedAtMostOnce
<1>16. OneAuditor'
  <2>1. \A v \in Worker : task'[v] = IF v = w THEN Idle ELSE task[v]
    BY <1>5, <1>8
  <2>2. \A v \in Worker, r \in Reference : Credits(task'[v], r) => v # w /\ Credits(task[v], r)
    BY <2>1, IdleKnows
  <2>3. \A r \in Reference, u, v \in Worker : Credits(task[u], r) /\ Credits(task[v], r) => u = v
    BY DEF CheckoutInv, OneAuditor
  <2>4. \A r \in Reference, v \in Worker : Credits(task[v], r) => audits[r] = 0
    BY DEF CheckoutInv, OneAuditor
  <2>5. \A v \in Worker : ~Credits(task'[v], t.ref)
    BY <1>2, <1>3, <2>2, <2>3
  <2>6. \A r \in Reference, v \in Worker : Credits(task'[v], r) => audits'[r] = 0
    BY <1>9, <2>2, <2>4, <2>5
  <2>7. \A r \in Reference, u, v \in Worker : Credits(task'[u], r) /\ Credits(task'[v], r) => u = v
    BY <2>2, <2>3
  <2> QED
    BY <2>6, <2>7 DEF OneAuditor, Credits
<1> QED
  BY <1>6, <1>10, <1>11, <1>12, <1>13, <1>14, <1>15, <1>16 DEF CheckoutInv

-----------------------------------------------------------------------------
\* A step of the payer's start, or of Paystack.
LEMMA OutsideKeeps ==
    ASSUME CheckoutInv, Steady, NoneConsumed, UNCHANGED <<ledger, task, answers>>,
           checkout' \in [Reference -> CheckoutRow \cup {NoCheckout}],
           opening' \in [Reference -> {"no", "calling", "ended"}],
           charge' \in [Reference -> ChargeRow \cup {NoCharge}],
           ChargesFit'
    PROVE  CheckoutInv'
<1>1. UNCHANGED <<acked, shown, audits, task, payments>>
  BY DEF answers, ledger
<1>2. LedgerInv'
  BY LedgerKept DEF CheckoutInv
<1>3. CheckoutTypeOK'
  BY <1>1, <1>2 DEF CheckoutInv, CheckoutTypeOK, LedgerInv
<1>4. TasksKnow'
  BY KnowledgeKept DEF CheckoutInv
<1>5. CreditedOnlyIfCaptured' /\ CreditedAsStarted'
  BY <1>1, PaymentsAfter DEF CheckoutInv, LedgerInv
<1>6. ConsumedHasPayment' /\ SuccessIsCredited'
  BY <1>1, ConsumedAfter, ShownAfter DEF CheckoutInv
<1>7. AuditedAtMostOnce' /\ OneAuditor'
  BY <1>1, AuditorsKept DEF CheckoutInv
<1> QED
  BY <1>2, <1>3, <1>4, <1>5, <1>6, <1>7 DEF CheckoutInv

LEMMA TablesTyped ==
    ASSUME CheckoutInv
    PROVE  /\ checkout \in [Reference -> CheckoutRow \cup {NoCheckout}]
           /\ opening \in [Reference -> {"no", "calling", "ended"}]
           /\ charge \in [Reference -> ChargeRow \cup {NoCharge}]
           /\ \A r \in Reference :
                 /\ (checkout[r] # NoCheckout) <=> (opening[r] # "no")
                 /\ checkout[r] = NoCheckout /\ charge[r] # NoCharge
                      => charge[r].state = "captured" /\ charge[r].kobo \in Kobo
  BY DEF CheckoutInv, CheckoutTypeOK, ChargesFit, Started, IsCaptured

LEMMA InitiateKeeps ==
    ASSUME CheckoutInv, NEW ref \in Reference, NEW i \in Invoice, NEW fee \in Kobo, NEW extra \in Extra,
           Initiate(ref, i, fee, extra)
    PROVE  CheckoutInv'
<1>1. PICK row : row = [invoice |-> i, fee |-> fee, extra |-> extra, status |-> "pending", payment |-> 0]
  OBVIOUS
<1>2. row \in CheckoutRow /\ row # NoCheckout /\ row.status = "pending"
  BY <1>1, NoRowAssumption DEF CheckoutRow
<1>3. /\ opening[ref] = "no" /\ charge[ref] = NoCharge
      /\ checkout' = [checkout EXCEPT ![ref] = row]
      /\ opening' = [opening EXCEPT ![ref] = "calling"]
      /\ UNCHANGED charge /\ UNCHANGED payments /\ UNCHANGED <<ledger, task, answers>>
  BY <1>1 DEF Initiate, ledger
<1>4. /\ checkout' \in [Reference -> CheckoutRow \cup {NoCheckout}]
      /\ opening' \in [Reference -> {"no", "calling", "ended"}]
      /\ charge' \in [Reference -> ChargeRow \cup {NoCharge}]
      /\ checkout'[ref] = row /\ (\A r \in Reference : r # ref => checkout'[r] = checkout[r])
      /\ opening'[ref] = "calling" /\ (\A r \in Reference : r # ref => opening'[r] = opening[r])
  BY <1>2, <1>3, TablesTyped
<1>5. ~IsCaptured(ref) /\ checkout[ref] = NoCheckout
  BY <1>3, TablesTyped DEF IsCaptured, NoCharge
<1>6. Steady
  BY <1>3, <1>4, <1>5 DEF Steady, Started, IsCaptured
<1>7. NoneConsumed
  BY <1>2, <1>4 DEF NoneConsumed
<1>8. ChargesFit'
  BY <1>2, <1>3, <1>4, TablesTyped DEF ChargesFit, Started, IsCaptured
<1> QED
  BY <1>3, <1>4, <1>6, <1>7, <1>8, OutsideKeeps

\* The start ends, however its call to Paystack went.
LEMMA EndingKeeps ==
    ASSUME CheckoutInv, NEW ref \in Reference, InitiateEnds(ref) \/ InitiateFails(ref)
    PROVE  CheckoutInv'
<1>1. /\ opening[ref] = "calling" /\ opening' = [opening EXCEPT ![ref] = "ended"]
      /\ UNCHANGED checkout \/ MarkFailed(ref)
      /\ UNCHANGED charge /\ UNCHANGED payments /\ UNCHANGED <<ledger, task, answers>>
      /\ UNCHANGED <<ledger, charge>> /\ UNCHANGED <<ledger, task, answers>>
  BY DEF InitiateEnds, InitiateFails, ledger
<1>2. Started(ref)
  BY <1>1, TablesTyped DEF Started
<1>3. /\ Steady /\ NoneConsumed
      /\ checkout' \in [Reference -> CheckoutRow \cup {NoCheckout}]
      /\ \A r \in Reference : (checkout'[r] # NoCheckout) <=> Started(r)
  <2>1. CASE UNCHANGED checkout
    BY <1>1, <2>1, SteadyWhenUnchanged, TablesTyped DEF Started
  <2>2. CASE MarkFailed(ref)
    BY <1>1, <1>2, <2>2, MarkingSteady
  <2> QED
    BY <1>1, <2>1, <2>2
<1>4. opening' \in [Reference -> {"no", "calling", "ended"}] /\ charge' \in [Reference -> ChargeRow \cup {NoCharge}]
      /\ \A r \in Reference : (opening'[r] # "no") <=> (opening[r] # "no")
  BY <1>1, TablesTyped
<1>5. ChargesFit'
  BY <1>1, <1>3, <1>4, TablesTyped DEF ChargesFit, Started, IsCaptured
<1> QED
  BY <1>1, <1>3, <1>4, <1>5, OutsideKeeps

LEMMA AskedTyped ==
    ASSUME CheckoutInv, NEW ref \in Reference, Started(ref)
    PROVE  Asked(ref) \in Captured /\ checkout[ref].invoice \in Invoice
<1>1. checkout[ref] \in CheckoutRow
  BY TablesTyped DEF Started
<1>2. checkout[ref].fee \in Kobo /\ checkout[ref].extra \in Extra /\ checkout[ref].invoice \in Invoice
  BY <1>1 DEF CheckoutRow
<1> QED
  BY <1>2 DEF Asked, Captured

\* Paystack opens or captures a charge that was not captured yet.
LEMMA ChargingKeeps ==
    ASSUME CheckoutInv, NEW ref \in Reference, NEW c \in ChargeRow, c # NoCharge, charge' = [charge EXCEPT ![ref] = c],
           ~IsCaptured(ref), Started(ref) \/ (c.state = "captured" /\ c.kobo \in Kobo),
           UNCHANGED <<ledger, checkout, opening, task, answers>>
    PROVE  CheckoutInv'
<1>1. UNCHANGED <<ledger, task, answers>> /\ UNCHANGED <<checkout, opening, payments>>
  BY DEF ledger
<1>2. /\ charge' \in [Reference -> ChargeRow \cup {NoCharge}]
      /\ charge'[ref] = c /\ (\A r \in Reference : r # ref => charge'[r] = charge[r])
  BY TablesTyped
<1>3. Steady
  BY <1>1, <1>2 DEF Steady, Started, IsCaptured
<1>4. NoneConsumed
  BY <1>1 DEF NoneConsumed
<1>5. ChargesFit'
  BY <1>1, <1>2, TablesTyped DEF ChargesFit, Started, IsCaptured
<1> QED
  BY <1>1, <1>2, <1>3, <1>4, <1>5, TablesTyped, OutsideKeeps

LEMMA OpensKeeps ==
    ASSUME CheckoutInv, NEW ref \in Reference, PaystackOpens(ref)
    PROVE  CheckoutInv'
<1>1. PICK c : c = Charge("open", checkout[ref].invoice, Asked(ref), TRUE)
  OBVIOUS
<1>2. Started(ref)
  BY TablesTyped DEF PaystackOpens, Started
<1>3. c \in ChargeRow /\ c.state = "open"
  BY <1>1, <1>2, AskedTyped DEF Charge, ChargeRow
<1>4. c # NoCharge /\ ~IsCaptured(ref)
  BY <1>3 DEF PaystackOpens, NoCharge, IsCaptured
<1>5. charge' = [charge EXCEPT ![ref] = c] /\ UNCHANGED <<ledger, checkout, opening, task, answers>>
  BY <1>1 DEF PaystackOpens
<1> QED
  BY <1>2, <1>3, <1>4, <1>5, ChargingKeeps

LEMMA CapturesKeeps ==
    ASSUME CheckoutInv, NEW ref \in Reference, NEW kobo \in Captured, NEW naira \in BOOLEAN,
           PaystackCaptures(ref, kobo, naira)
    PROVE  CheckoutInv'
<1>1. PICK c : c = Charge("captured", charge[ref].invoice, kobo, naira)
  OBVIOUS
<1>2. charge[ref].state = "open" /\ charge[ref] # NoCharge
  BY DEF PaystackCaptures, NoCharge
<1>3. charge[ref] \in ChargeRow
  BY <1>2, TablesTyped
<1>4. c \in ChargeRow /\ c.state = "captured"
  BY <1>1, <1>3 DEF Charge, ChargeRow
<1>5. c # NoCharge /\ ~IsCaptured(ref)
  BY <1>2, <1>4 DEF NoCharge, IsCaptured
<1>6. Started(ref)
  BY <1>2, <1>5, TablesTyped DEF Started, IsCaptured
<1>7. charge' = [charge EXCEPT ![ref] = c] /\ UNCHANGED <<ledger, checkout, opening, task, answers>>
  BY <1>1 DEF PaystackCaptures
<1> QED
  BY <1>4, <1>5, <1>6, <1>7, ChargingKeeps

LEMMA OutsideChargeKeeps ==
    ASSUME CheckoutInv, NEW ref \in Reference, NEW i \in Invoice, NEW kobo \in Kobo, OutsideCharge(ref, i, kobo)
    PROVE  CheckoutInv'
<1>1. PICK c : c = Charge("captured", i, kobo, TRUE)
  OBVIOUS
<1>2. c \in ChargeRow /\ c.state = "captured" /\ c.kobo \in Kobo
  BY <1>1 DEF Charge, ChargeRow, Captured
<1>3. c # NoCharge /\ ~IsCaptured(ref)
  BY <1>2 DEF OutsideCharge, NoCharge, IsCaptured
<1>4. charge' = [charge EXCEPT ![ref] = c] /\ UNCHANGED <<ledger, checkout, opening, task, answers>>
  BY <1>1 DEF OutsideCharge
<1> QED
  BY <1>2, <1>3, <1>4, ChargingKeeps

-----------------------------------------------------------------------------
\* What the school office does is a step of the ledger.
LEMMA OfficePays ==
    ASSUME NEW i \in Invoice, NEW kobo \in Kobo, NEW p, p = NewPayment(i, kobo, "cash", NoRef, 0)
    PROVE  p \in Payment /\ p.refunded = 0 /\ p.ref = NoRef
  BY BothWaysAssumption, TimeAssumption DEF Payment, NewPayment

LEMMA OfficeKeeps ==
    ASSUME CheckoutInv, Office
    PROVE  CheckoutInv'
<1>1. UNCHANGED <<checkout, charge, opening, task, acked, shown, audits>> /\ UNCHANGED <<checkout, charge>>
  BY DEF Office, paystack, answers
<1>2. LedgerInv' /\ Steady /\ NoneConsumed /\ CreditedOnlyIfCaptured' /\ CreditedAsStarted'
  <2>1. CASE \E i \in Invoice, total \in Kobo : Bill({i}, total)
    <3>1. PICK i \in Invoice, total \in Kobo : Bill({i}, total)
      BY <2>1
    <3>2. LedgerInv'
      BY <3>1, BillKeepsInv DEF CheckoutInv
    <3>3. UNCHANGED payments
      BY <3>1 DEF Bill
    <3>4. Steady /\ NoneConsumed
      BY <1>1, <3>3 DEF Steady, NoneConsumed, Started, IsCaptured
    <3> QED
      BY <3>2, <3>3, <3>4, PaymentsAfter DEF CheckoutInv, LedgerInv
  <2>2. CASE \E i \in Invoice, kobo \in Kobo : Pay(NewPayment(i, kobo, "cash", NoRef, 0))
    <3>1. PICK i \in Invoice, kobo \in Kobo : Pay(NewPayment(i, kobo, "cash", NoRef, 0))
      BY <2>2
    <3>2. PICK p : p = NewPayment(i, kobo, "cash", NoRef, 0)
      OBVIOUS
    <3>3. p \in Payment /\ p.refunded = 0 /\ p.ref = NoRef /\ Pay(p)
      BY <3>1, <3>2, OfficePays
    <3> QED
      BY <1>1, <3>3, PayEffects, PaymentBacked
  <2> QED
    BY <2>1, <2>2 DEF Office
<1>3. CheckoutTypeOK'
  BY <1>1, <1>2 DEF CheckoutInv, CheckoutTypeOK, LedgerInv
<1>4. ChargesFit'
  BY <1>1 DEF CheckoutInv, ChargesFit, Started, IsCaptured
<1>5. TasksKnow'
  BY <1>1, <1>2, KnowledgeKept DEF CheckoutInv
<1>6. ConsumedHasPayment' /\ SuccessIsCredited'
  BY <1>1, <1>2, ConsumedAfter, ShownAfter DEF CheckoutInv
<1>7. AuditedAtMostOnce' /\ OneAuditor'
  BY <1>1, <1>2, AuditorsKept DEF CheckoutInv
<1> QED
  BY <1>2, <1>3, <1>4, <1>5, <1>6, <1>7 DEF CheckoutInv

-----------------------------------------------------------------------------
\* A request arrives: the webhook, the payer's return, the bursar's form.
LEMMA ArrivesKeeps ==
    ASSUME CheckoutInv, NEW w \in Worker, NEW ref \in Reference,
           Webhook(w, ref) \/ Callback(w, ref) \/ \E i \in Invoice : Bursar(w, ref, i)
    PROVE  CheckoutInv'
<1>1. UNCHANGED <<ledger, checkout, paystack, answers>>
  BY DEF Webhook, Callback, Bursar
<1>2. CASE Webhook(w, ref)
  BY <1>1, <1>2, ArrivalKeeps DEF Webhook
<1>3. CASE Callback(w, ref)
  BY <1>1, <1>3, ArrivalKeeps DEF Callback
<1>4. CASE \E i \in Invoice : Bursar(w, ref, i)
  BY <1>1, <1>4, ArrivalKeeps DEF Bursar
<1> QED
  BY <1>2, <1>3, <1>4

LEMMA StepKeeps ==
    ASSUME CheckoutInv, NEW w \in Worker, Step(w)
    PROVE  CheckoutInv'
  BY VerifyFailsKeeps, VerifyKeeps, BursarChecksKeeps, FindKeeps, JudgeKeeps, RecordKeeps, RecordOutsideKeeps,
     ConsumeKeeps, AuditKeeps DEF Step

LEMMA UnchangedKeeps ==
    ASSUME CheckoutInv, UNCHANGED vars
    PROVE  CheckoutInv'
<1>1. UNCHANGED <<ledger, task, answers>> /\ UNCHANGED <<ledger, checkout, charge>> /\ UNCHANGED opening
  BY DEF vars, ledger, answers
<1>2. Steady /\ NoneConsumed
  BY <1>1, SteadyWhenUnchanged
<1>3. ChargesFit'
  BY <1>1 DEF CheckoutInv, ChargesFit, Started, IsCaptured
<1> QED
  BY <1>1, <1>2, <1>3, TablesTyped, OutsideKeeps

LEMMA CheckoutStep == CheckoutInv /\ [CheckoutNext]_vars => CheckoutInv'
<1> SUFFICES ASSUME CheckoutInv, [CheckoutNext]_vars PROVE CheckoutInv'
  OBVIOUS
<1>1. CASE UNCHANGED vars
  BY <1>1, UnchangedKeeps
<1>2. CASE Office
  BY <1>2, OfficeKeeps
<1>3. CASE \E w \in Worker : Step(w) \/ Crash(w)
  BY <1>3, StepKeeps, CrashKeeps
<1>4. ASSUME NEW ref \in Reference, NEW i \in Invoice, NEW fee \in Kobo, NEW extra \in Extra, Initiate(ref, i, fee, extra)
      PROVE  CheckoutInv'
  BY <1>4, InitiateKeeps
<1>5. ASSUME NEW ref \in Reference, PaystackOpens(ref) \/ InitiateEnds(ref) \/ InitiateFails(ref) PROVE CheckoutInv'
  BY <1>5, OpensKeeps, EndingKeeps
<1>6. ASSUME NEW ref \in Reference, NEW kobo \in Captured, NEW naira \in BOOLEAN, PaystackCaptures(ref, kobo, naira)
      PROVE  CheckoutInv'
  BY <1>6, CapturesKeeps
<1>7. ASSUME NEW ref \in Reference, NEW i \in Invoice, NEW kobo \in Kobo, OutsideCharge(ref, i, kobo) PROVE CheckoutInv'
  BY <1>7, OutsideChargeKeeps
<1>8. ASSUME NEW ref \in Reference, NEW w \in Worker,
             Webhook(w, ref) \/ Callback(w, ref) \/ \E i \in Invoice : Bursar(w, ref, i)
      PROVE  CheckoutInv'
  BY <1>8, ArrivesKeeps
<1> QED
  BY <1>1, <1>2, <1>3, <1>4, <1>5, <1>6, <1>7, <1>8 DEF CheckoutNext, Deliver

LEMMA CheckoutStart == CheckoutInit => CheckoutInv
<1> SUFFICES ASSUME CheckoutInit PROVE CheckoutInv
  OBVIOUS
<1>1. LedgerInv
  BY DEF CheckoutInit, Init, LedgerInv, LedgerTypeOK, PaymentsOnInvoices, RowsDerived, Raised, RefundsWithinPayment,
         OnePaymentPerReference, TendersSpaced
<1>2. CheckoutTypeOK
  BY <1>1 DEF CheckoutInit, CheckoutTypeOK, LedgerInv
<1>3. ChargesFit /\ SuccessIsCredited /\ ConsumedHasPayment
  BY DEF CheckoutInit, ChargesFit, Started, SuccessIsCredited, ConsumedHasPayment
<1>4. TasksKnow /\ OneAuditor
  BY IdleKnows DEF CheckoutInit, TasksKnow, OneAuditor
<1>5. AuditedAtMostOnce
  BY DEF CheckoutInit, AuditedAtMostOnce
<1>6. DOMAIN payments = {}
  BY DEF CheckoutInit, Init
<1>7. CreditedOnlyIfCaptured /\ CreditedAsStarted
  BY <1>6 DEF CreditedOnlyIfCaptured, CreditedAsStarted
<1> QED
  BY <1>1, <1>2, <1>3, <1>4, <1>5, <1>7 DEF CheckoutInv

\* The invariant holds in every reachable state.
THEOREM CheckoutSafe == CheckoutSpec => []CheckoutInv
  BY CheckoutStart, CheckoutStep, PTL DEF CheckoutSpec

\* Every variable of the online payment keeps its type.
THEOREM CheckoutTypeCorrect == CheckoutSpec => []CheckoutTypeOK
<1>1. CheckoutInv => CheckoutTypeOK
  BY DEF CheckoutInv
<1> QED
  BY <1>1, CheckoutSafe, PTL

\* A started payment is credited to its invoice at its fee, and only when Paystack took what was asked.
THEOREM StartedIsCredited == CheckoutSpec => []CreditedAsStarted
<1>1. CheckoutInv => CreditedAsStarted
  BY DEF CheckoutInv
<1> QED
  BY <1>1, CheckoutSafe, PTL

\* No online payment is recorded that Paystack did not capture.
THEOREM CapturedFirst == CheckoutSpec => []CreditedOnlyIfCaptured
<1>1. CheckoutInv => CreditedOnlyIfCaptured
  BY DEF CheckoutInv
<1> QED
  BY <1>1, CheckoutSafe, PTL

\* However many requests race, one payment is audited at most once, and only when it was recorded.
THEOREM OneAudit == CheckoutSpec => []AuditedAtMostOnce
<1>1. CheckoutInv => AuditedAtMostOnce
  BY DEF CheckoutInv
<1> QED
  BY <1>1, CheckoutSafe, PTL

\* A consumed row points at the payment of its own reference.
THEOREM ConsumedIsPaid == CheckoutSpec => []ConsumedHasPayment
<1>1. CheckoutInv => ConsumedHasPayment
  BY DEF CheckoutInv
<1> QED
  BY <1>1, CheckoutSafe, PTL

\* A payer who is shown success has been credited.
THEOREM SuccessIsTrue == CheckoutSpec => []SuccessIsCredited
<1>1. CheckoutInv => SuccessIsCredited
  BY DEF CheckoutInv
<1> QED
  BY <1>1, CheckoutSafe, PTL

-----------------------------------------------------------------------------
\* Only a statement of a request at "judge" or "consume", or a start, writes a row, and none
\* of them writes a consumed one.
LEMMA ConsumedStep ==
    ASSUME CheckoutInv, CheckoutNext, NEW r \in Reference, Started(r), checkout[r].status = "consumed"
    PROVE  checkout'[r] = checkout[r]
<1>1. checkout \in [Reference -> CheckoutRow \cup {NoCheckout}] /\ opening[r] # "no"
  BY TablesTyped DEF Started
<1>2. ASSUME NEW ref \in Reference, MarkFailed(ref) PROVE checkout'[r] = checkout[r]
  BY <1>1, <1>2 DEF MarkFailed
<1>3. ASSUME NEW w \in Worker, Judge(w) PROVE checkout'[r] = checkout[r]
  <2>1. task[w].pc # "idle"
    BY <1>3 DEF Judge
  <2>2. task[w].ref \in Reference
    BY <2>1, AtStatement
  <2> QED
    BY <1>2, <1>3, <2>2 DEF Judge
<1>4. ASSUME NEW w \in Worker, Consume(w) PROVE checkout'[r] = checkout[r]
  BY <1>1, <1>4 DEF Consume
<1>5. ASSUME NEW w \in Worker, Step(w) PROVE checkout'[r] = checkout[r]
  BY <1>3, <1>4, <1>5 DEF Step, VerifyFails, Verify, BursarChecks, Find, Record, RecordOutside, Audit
<1>6. ASSUME NEW ref \in Reference, NEW i \in Invoice, NEW fee \in Kobo, NEW extra \in Extra, Initiate(ref, i, fee, extra)
      PROVE  checkout'[r] = checkout[r]
  BY <1>1, <1>6 DEF Initiate
<1>7. ASSUME NEW ref \in Reference, InitiateFails(ref) PROVE checkout'[r] = checkout[r]
  BY <1>2, <1>7 DEF InitiateFails
<1> QED
  BY <1>5, <1>6, <1>7 DEF CheckoutNext, PaystackOpens, InitiateEnds, PaystackCaptures, OutsideCharge, Deliver,
                        Webhook, Callback, Bursar, Crash, Office

\* A consumed row never changes again.
THEOREM ConsumedStays == CheckoutSpec => ConsumedForGood
<1>1. CheckoutInv /\ [CheckoutNext]_vars =>
        [\A r \in Reference : Started(r) /\ checkout[r].status = "consumed" => checkout'[r] = checkout[r]]_vars
  BY ConsumedStep
<1> QED
  BY <1>1, CheckoutSafe, PTL DEF CheckoutSpec, ConsumedForGood

\* A request's record of a payment is a payment of the ledger.
LEMMA RecordingIsPaying ==
    ASSUME CheckoutInv, NEW w \in Worker, Record(w) \/ RecordOutside(w)
    PROVE  [Next]_ledger
<1> DEFINE t == task[w]
<1>1. task[w].pc # "idle" /\ (t.pc = "record" \/ t.pc = "outside")
  BY DEF Record, RecordOutside
<1>2. t # Idle /\ TaskKnows(t) /\ t.ref \in Reference
  BY <1>1, AtStatement
<1>3. \A i \in Invoice, kobo \in Kobo : Pay(NewPayment(i, kobo, "paystack", t.ref, 0)) => Next
  BY <1>2, BothWaysAssumption, TimeAssumption DEF Next
<1>4. CASE Record(w)
  <2>1. t.pc = "record"
    BY <1>4 DEF Record
  <2>2. Started(t.ref)
    BY <1>2, <2>1 DEF TaskKnows
  <2>3. checkout[t.ref] \in CheckoutRow
    BY <1>2, <2>2, TablesTyped DEF Started
  <2>4. checkout[t.ref].invoice \in Invoice /\ checkout[t.ref].fee \in Kobo
    BY <2>3 DEF CheckoutRow
  <2>5. UNCHANGED ledger \/ Pay(NewPayment(checkout[t.ref].invoice, checkout[t.ref].fee, "paystack", t.ref, 0))
    BY <1>4 DEF Record
  <2> QED
    BY <1>3, <2>4, <2>5
<1>5. CASE RecordOutside(w)
  <2>1. t.pc = "outside"
    BY <1>5 DEF RecordOutside
  <2>2. IsCaptured(t.ref) /\ t.kobo = charge[t.ref].kobo /\ ~Started(t.ref) /\ t.claim \in Invoice
    BY <1>2, <2>1 DEF TaskKnows
  <2>3. charge[t.ref] # NoCharge
    BY <2>2 DEF IsCaptured, NoCharge
  <2>4. t.kobo \in Kobo
    BY <1>2, <2>2, <2>3 DEF CheckoutInv, ChargesFit
  <2>5. UNCHANGED ledger \/ Pay(NewPayment(t.claim, t.kobo, "paystack", t.ref, 0))
    BY <1>5 DEF RecordOutside
  <2> QED
    BY <1>3, <2>2, <2>4, <2>5
<1> QED
  BY <1>4, <1>5

LEMMA OfficeIsLedger ==
    ASSUME Office
    PROVE  Next
<1>1. CASE \E i \in Invoice, total \in Kobo : Bill({i}, total)
  <2>1. PICK i \in Invoice, total \in Kobo : Bill({i}, total)
    BY <1>1
  <2>2. {i} \in SUBSET Invoice
    OBVIOUS
  <2> QED
    BY <2>1, <2>2 DEF Next
<1>2. CASE \E i \in Invoice, kobo \in Kobo : Pay(NewPayment(i, kobo, "cash", NoRef, 0))
  BY <1>2, BothWaysAssumption, TimeAssumption DEF Next
<1> QED
  BY <1>1, <1>2 DEF Office

\* However its requests interleave and die, the online payment does to the invoices and
\* payments only what the ledger allows: it implements FeeLedger.
THEOREM CheckoutImplementsLedger == CheckoutSpec => Spec
<1>1. CheckoutInit => Init
  BY DEF CheckoutInit
<1>2. CheckoutInv /\ [CheckoutNext]_vars => [Next]_ledger
  <2> SUFFICES ASSUME CheckoutInv, [CheckoutNext]_vars PROVE [Next]_ledger
    OBVIOUS
  <2>1. CASE UNCHANGED vars
    BY <2>1 DEF vars, ledger
  <2>2. ASSUME NEW w \in Worker, Step(w) PROVE [Next]_ledger
    BY <2>2, RecordingIsPaying DEF Step, VerifyFails, Verify, BursarChecks, Find, Judge, Consume, Audit
  <2>3. CASE Office
    BY <2>3, OfficeIsLedger
  <2> QED
    BY <2>1, <2>2, <2>3 DEF CheckoutNext, Initiate, InitiateFails, PaystackOpens, InitiateEnds, PaystackCaptures,
                          OutsideCharge, Deliver, Webhook, Callback, Bursar, Crash
<1> QED
  BY <1>1, <1>2, CheckoutSafe, PTL DEF CheckoutSpec, Spec

\* However its requests interleave and die, every invoice says what its payments and refunds
\* add up to, the counter's and the online ones together.
THEOREM OnlineBooksBalance == CheckoutSpec => []BooksBalance
  BY CheckoutImplementsLedger, BooksAlwaysBalance

-----------------------------------------------------------------------------
\* The charge's fraction of a kobo rounded up: the least whole number that covers 150 basis points.
LEMMA CeilBounds ==
    ASSUME NEW t \in Nat
    PROVE  /\ ceilDiv(t * percentBasisPoints, 10000) \in Nat
           /\ 10000 * ceilDiv(t * percentBasisPoints, 10000) >= 150 * t
           /\ 10000 * ceilDiv(t * percentBasisPoints, 10000) < 150 * t + 10000
<1> DEFINE a == t * 150
<1>1. a \in Nat /\ a = 150 * t
  OBVIOUS
<1>2. \A b \in Nat : /\ ceilDiv(b, 10000) \in Nat
                     /\ 10000 * ceilDiv(b, 10000) >= b
                     /\ 10000 * ceilDiv(b, 10000) < b + 10000
  BY DEF ceilDiv
<1>3. t * percentBasisPoints = a
  BY DEF percentBasisPoints
<1> QED BY <1>1, <1>2, <1>3

\* A kobo more costs at most one kobo more of percentage.
LEMMA CeilRises ==
    ASSUME NEW t \in Nat, NEW u \in Nat, t <= u
    PROVE  /\ ceilDiv(t * percentBasisPoints, 10000) <= ceilDiv(u * percentBasisPoints, 10000)
           /\ ceilDiv(u * percentBasisPoints, 10000) - ceilDiv(t * percentBasisPoints, 10000) <= u - t
<1> DEFINE c == ceilDiv(t * percentBasisPoints, 10000)
           d == ceilDiv(u * percentBasisPoints, 10000)
<1>1. c \in Nat /\ 10000 * c >= 150 * t /\ 10000 * c < 150 * t + 10000
  BY CeilBounds
<1>2. d \in Nat /\ 10000 * d >= 150 * u /\ 10000 * d < 150 * u + 10000
  BY CeilBounds
<1> HIDE DEF c, d
<1>3. c <= d /\ d - c <= u - t
  BY <1>1, <1>2
<1> QED BY <1>3 DEF c, d

\* The charge is a number between nothing and the cap.
LEMMA ChargeBounds ==
    ASSUME NEW t \in Nat
    PROVE  paystackChargeKobo(t) \in Nat /\ paystackChargeKobo(t) <= capKobo
<1>1. ceilDiv(t * percentBasisPoints, 10000) \in Nat
  BY CeilBounds
<1> QED BY <1>1, PricingAssumption DEF paystackChargeKobo, Lesser

\* What the school receives is less than the payment by the cap at most.
LEMMA ReceivesBounds ==
    ASSUME NEW t \in Nat
    PROVE  Receives(t) \in Int /\ Receives(t) <= t /\ Receives(t) >= t - capKobo
BY ChargeBounds, PricingAssumption DEF Receives

\* On one side of the flat charge's start, paying more never leaves the school less.
LEMMA Rising ==
    ASSUME NEW t \in Nat, NEW u \in Nat, t <= u, u < flatFromKobo \/ flatFromKobo <= t
    PROVE  Receives(t) <= Receives(u)
<1> DEFINE c == ceilDiv(t * percentBasisPoints, 10000)
           d == ceilDiv(u * percentBasisPoints, 10000)
           e == IF t >= flatFromKobo THEN flatKobo ELSE 0
<1>1. c \in Nat /\ d \in Nat
  BY CeilBounds
<1>2. c <= d /\ d - c <= u - t
  BY CeilRises
<1>3. e = (IF u >= flatFromKobo THEN flatKobo ELSE 0) /\ e \in Nat
  BY PricingAssumption
<1>4. Receives(t) = t - Lesser(c + e, capKobo) /\ Receives(u) = u - Lesser(d + e, capKobo)
  BY <1>3 DEF Receives, paystackChargeKobo
<1> HIDE DEF c, d, e
<1> QED BY <1>1, <1>2, <1>3, <1>4, PricingAssumption DEF Lesser

-----------------------------------------------------------------------------
\* Every total below a bound leaves the school short.
ShortBelow(bound) == \A total \in Nat : total < bound => Receives(total) < feeKobo

\* One side of the flat charge's start.
OneSide == hi < flatFromKobo \/ flatFromKobo <= lo

SearchInv ==
    /\ PricingTypeOK
    /\ pc = "below" => lo = feeKobo /\ hi = flatFromKobo - 1
    /\ pc = "from" => /\ lo = Greater(feeKobo, flatFromKobo)
                      /\ hi = Greater(flatFromKobo, feeKobo + capKobo)
    /\ OneSide
    /\ ShortBelow(lo)
    /\ pc \in {"search", "answered"} => Receives(hi) >= feeKobo
    /\ pc = "answered" => lo = hi

\* A payment smaller than the fee leaves the school short.
LEMMA LessIsShort ==
    ASSUME NEW f \in Nat, NEW t \in Nat, t < f
    PROVE  Receives(t) < f
BY ReceivesBounds

LEMMA SearchStarts == PricingInit => SearchInv
<1> SUFFICES ASSUME PricingInit PROVE SearchInv
  OBVIOUS
<1>1. feeKobo \in Nat /\ lo \in Nat /\ hi \in Nat /\ pc = "below" /\ lo = feeKobo /\ hi = flatFromKobo - 1
  BY FeeAssumption, PricingAssumption DEF PricingInit
<1>2. ShortBelow(lo)
  BY <1>1, LessIsShort DEF ShortBelow
<1> QED BY <1>1, <1>2, PricingAssumption DEF PricingInit, SearchInv, PricingTypeOK, OneSide

\* Whatever the first search missed lies from the flat charge's start on.
LEMMA GoFromKeeps == SearchInv /\ GoFrom => SearchInv'
<1> SUFFICES ASSUME SearchInv, GoFrom PROVE SearchInv'
  OBVIOUS
<1>1. /\ feeKobo \in Fee /\ feeKobo \in Nat /\ lo \in Nat /\ hi \in Nat
      /\ lo = feeKobo /\ hi = flatFromKobo - 1 /\ (lo > hi \/ Receives(hi) < feeKobo)
  BY FeeAssumption DEF SearchInv, PricingTypeOK, GoFrom, None
<1>2. /\ lo' = Greater(feeKobo, flatFromKobo) /\ hi' = Greater(flatFromKobo, feeKobo + capKobo)
      /\ pc' = "from" /\ feeKobo' = feeKobo
  BY DEF GoFrom
<1>3. lo' \in Nat /\ hi' \in Nat /\ flatFromKobo <= lo'
  BY <1>1, <1>2, PricingAssumption DEF Greater
<1>4. \A total \in Nat : total < flatFromKobo => Receives(total) < feeKobo
  <2> SUFFICES ASSUME NEW total \in Nat, total < flatFromKobo PROVE Receives(total) < feeKobo
    OBVIOUS
  <2>1. CASE lo > hi
    BY <1>1, <2>1, LessIsShort, PricingAssumption
  <2>2. CASE Receives(hi) < feeKobo
    <3>1. total <= hi /\ hi < flatFromKobo
      BY <1>1, PricingAssumption
    <3>2. Receives(total) <= Receives(hi)
      BY <1>1, <3>1, Rising
    <3> QED BY <1>1, <2>2, <3>2, ReceivesBounds
  <2> QED BY <1>1, <2>1, <2>2
<1>5. ShortBelow(lo)'
  <2> SUFFICES ASSUME NEW total \in Nat, total < lo' PROVE Receives(total) < feeKobo
    BY <1>2 DEF ShortBelow, Receives, paystackChargeKobo
  <2>1. total < flatFromKobo \/ total < feeKobo
    BY <1>1, <1>2, PricingAssumption DEF Greater
  <2> QED BY <1>1, <1>4, <2>1, LessIsShort
<1> QED BY <1>1, <1>2, <1>3, <1>5 DEF SearchInv, PricingTypeOK, OneSide

LEMMA EnterKeeps == SearchInv /\ Enter => SearchInv'
<1> SUFFICES ASSUME SearchInv, Enter PROVE SearchInv'
  OBVIOUS
<1>1. /\ feeKobo \in Fee /\ feeKobo \in Nat /\ lo \in Nat /\ hi \in Nat
      /\ OneSide /\ ShortBelow(lo) /\ ~ (lo > hi \/ Receives(hi) < feeKobo)
  BY FeeAssumption DEF SearchInv, PricingTypeOK, Enter, None
<1>2. lo <= hi /\ Receives(hi) >= feeKobo
  BY <1>1, ReceivesBounds
<1>3. lo' = lo /\ hi' = hi /\ feeKobo' = feeKobo /\ pc' = "search"
  BY DEF Enter
<1>4. ShortBelow(lo)' /\ Receives(hi)' = Receives(hi)
  BY <1>1, <1>3 DEF ShortBelow, Receives, paystackChargeKobo
<1> QED BY <1>1, <1>2, <1>3, <1>4 DEF SearchInv, PricingTypeOK, OneSide

LEMMA HalveKeeps == SearchInv /\ Halve => SearchInv'
<1> SUFFICES ASSUME SearchInv, Halve PROVE SearchInv'
  OBVIOUS
<1>1. /\ feeKobo \in Fee /\ feeKobo \in Nat /\ lo \in Nat /\ hi \in Nat /\ lo < hi
      /\ (hi < flatFromKobo \/ flatFromKobo <= lo) /\ ShortBelow(lo) /\ Receives(hi) >= feeKobo
      /\ pc = "search"
  BY FeeAssumption DEF SearchInv, PricingTypeOK, Halve, OneSide
<1>2. mid \in Nat /\ lo <= mid /\ mid < hi
  BY <1>1 DEF mid
<1>3. feeKobo' = feeKobo /\ pc' = "search"
  BY <1>1 DEF Halve
<1>4. CASE Receives(mid) >= feeKobo
  <2>1. hi' = mid /\ lo' = lo
    BY <1>4 DEF Halve
  <2>2. ShortBelow(lo)' /\ (Receives(hi) >= feeKobo)'
    BY <1>1, <1>3, <1>4, <2>1 DEF ShortBelow, Receives, paystackChargeKobo
  <2>3. lo' \in Nat /\ hi' \in Nat /\ lo' <= hi' /\ (hi' < flatFromKobo \/ flatFromKobo <= lo')
    BY <1>1, <1>2, <2>1, PricingAssumption
  <2> QED BY <1>1, <1>3, <2>2, <2>3 DEF SearchInv, PricingTypeOK, OneSide
<1>5. CASE ~ (Receives(mid) >= feeKobo)
  <2>1. hi' = hi /\ lo' = mid + 1
    BY <1>5 DEF Halve
  <2>2. \A total \in Nat : total < mid + 1 => Receives(total) < feeKobo
    <3> SUFFICES ASSUME NEW total \in Nat, total <= mid PROVE Receives(total) < feeKobo
      BY <1>2
    <3>1. CASE total < lo
      BY <1>1, <3>1 DEF ShortBelow
    <3>2. CASE lo <= total
      <4>1. mid < flatFromKobo \/ flatFromKobo <= total
        BY <1>1, <1>2, <3>2, PricingAssumption
      <4>2. Receives(total) <= Receives(mid)
        BY <1>2, <4>1, Rising
      <4> QED BY <1>1, <1>2, <1>5, <4>2, ReceivesBounds
    <3> QED BY <1>1, <3>1, <3>2
  <2>3. ShortBelow(lo)' /\ (Receives(hi) >= feeKobo)'
    BY <1>1, <1>3, <2>1, <2>2 DEF ShortBelow, Receives, paystackChargeKobo
  <2>4. lo' \in Nat /\ hi' \in Nat /\ lo' <= hi' /\ (hi' < flatFromKobo \/ flatFromKobo <= lo')
    BY <1>1, <1>2, <2>1, PricingAssumption
  <2> QED BY <1>1, <1>3, <2>3, <2>4 DEF SearchInv, PricingTypeOK, OneSide
<1> QED BY <1>4, <1>5

LEMMA AnswerKeeps == SearchInv /\ Answer => SearchInv'
<1> SUFFICES ASSUME SearchInv, Answer PROVE SearchInv'
  OBVIOUS
<1>1. /\ feeKobo' = feeKobo /\ lo' = lo /\ hi' = hi /\ pc' = "answered" /\ pc = "search" /\ lo = hi
  BY DEF Answer
<1>2. ShortBelow(lo)' /\ (Receives(hi) >= feeKobo)'
  BY <1>1 DEF SearchInv, ShortBelow, Receives, paystackChargeKobo
<1> QED BY <1>1, <1>2 DEF SearchInv, PricingTypeOK, OneSide

LEMMA SearchStutters == SearchInv /\ UNCHANGED pricingVars => SearchInv'
BY DEF SearchInv, PricingTypeOK, OneSide, ShortBelow, Receives, paystackChargeKobo, pricingVars

\* The loop invariant of both searches of totalForSchoolToReceive (`paystackPricing.ts`): all below the range falls
\* short, its upper end does not, and the range lies on one side of the amount where the flat charge starts.
THEOREM SearchInvHolds == PricingSpec => []SearchInv
<1>1. SearchInv /\ [PricingNext]_pricingVars => SearchInv'
  BY GoFromKeeps, EnterKeeps, HalveKeeps, AnswerKeeps, SearchStutters DEF PricingNext
<1> QED BY SearchStarts, <1>1, PTL DEF PricingSpec

\* The search never spans the start of the flat charge, for any pricing and any fee.
THEOREM PricingTypeCorrect == PricingSpec => []PricingTypeOK
<1>1. SearchInv => PricingTypeOK
  BY DEF SearchInv
<1> QED BY <1>1, SearchInvHolds, PTL

\* The total answered is the smallest that leaves the school its whole fee, for any pricing and
\* any fee.
THEOREM SmallestTotalCorrect == PricingSpec => []SmallestTotal
<1>1. SearchInv => SmallestTotal
  BY FeeAssumption DEF SearchInv, SmallestTotal, ShortBelow, PricingTypeOK
<1> QED BY <1>1, SearchInvHolds, PTL

\* The second search is never empty-handed: the code's "!" on its answer is justified.
THEOREM SecondSearchFinds == PricingSpec => [](pc = "from" => ~ None)
<1>1. SearchInv => (pc = "from" => ~ None)
  <2> SUFFICES ASSUME SearchInv, pc = "from" PROVE ~ None
    OBVIOUS
  <2>1. /\ feeKobo \in Nat /\ lo = Greater(feeKobo, flatFromKobo) /\ hi = Greater(flatFromKobo, feeKobo + capKobo)
        /\ hi \in Nat
    BY FeeAssumption DEF SearchInv, PricingTypeOK
  <2>2. Receives(hi) \in Int /\ Receives(hi) >= hi - capKobo
    BY <2>1, ReceivesBounds
  <2>3. lo <= hi /\ hi - capKobo >= feeKobo
    BY <2>1, PricingAssumption DEF Greater
  <2> QED BY <2>1, <2>2, <2>3, PricingAssumption DEF None, Greater
<1> QED BY <1>1, SearchInvHolds, PTL

\* Each turn of the loop leaves at most half of the range and never none of it, and the other
\* steps go on from one search to the next and to the answer: a call ends after as many turns
\* as the first range has binary digits.
THEOREM SearchHalves ==
    PricingSpec =>
        [][\/ pc = "below" /\ pc' \in {"from", "search"}
           \/ pc = "from" /\ pc' = "search"
           \/ pc = "search" /\ pc' = "answered" /\ lo = hi
           \/ pc = "search" /\ pc' = "search" /\ 0 <= hi' - lo' /\ 2 * (hi' - lo') <= hi - lo]_pricingVars
<1> DEFINE Narrows ==
        \/ pc = "below" /\ pc' \in {"from", "search"}
        \/ pc = "from" /\ pc' = "search"
        \/ pc = "search" /\ pc' = "answered" /\ lo = hi
        \/ pc = "search" /\ pc' = "search" /\ 0 <= hi' - lo' /\ 2 * (hi' - lo') <= hi - lo
<1>1. ASSUME SearchInv, Halve PROVE Narrows
  <2>1. lo \in Nat /\ hi \in Nat /\ lo < hi /\ pc = "search" /\ pc' = "search"
    BY <1>1 DEF SearchInv, PricingTypeOK, Halve
  <2> DEFINE half == (hi - lo) \div 2
  <2>2. half \in Nat /\ 2 * half <= hi - lo /\ hi - lo < 2 * half + 2
    BY <2>1
  <2>3. (hi' = lo + half /\ lo' = lo) \/ (lo' = lo + half + 1 /\ hi' = hi)
    BY <1>1 DEF Halve, mid
  <2> HIDE DEF half
  <2> QED
    BY <2>1, <2>2, <2>3
<1>2. SearchInv /\ [PricingNext]_pricingVars => [Narrows]_pricingVars
  BY <1>1 DEF PricingNext, GoFrom, Enter, Answer
<1>3. PricingSpec => [][Narrows]_pricingVars
  BY <1>2, SearchInvHolds, PTL DEF PricingSpec
<1> QED
  BY <1>3
=============================================================================
