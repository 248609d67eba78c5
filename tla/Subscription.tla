---------------------------- MODULE Subscription ----------------------------
(***************************************************************************)
(* What one school owes Chronix and whether its trial has lapsed: the row  *)
(* of platform_subscriptions, the checkouts of platform_subscription_      *)
(* payments, and everybody who writes them without locking the row --      *)
(* administrators (PATCH, extend-trial, record-payment), the daily trial   *)
(* job, and the settlement of an online payment by Paystack's webhook or   *)
(* by the payer's return.  Each reads first and writes in a later          *)
(* statement, so writes of the others fall in between; a request or a job  *)
(* may die there.                                                          *)
(*                                                                         *)
(* The cached school row (cacheService.ts) and the audit rows are left     *)
(* out: nothing here reads them.                                           *)
(***************************************************************************)
EXTENDS Integers

CONSTANTS
    Admin,        \* administrators' requests in flight
    Delivery,     \* webhook and return-page requests in flight
    Reference,    \* references of online checkouts
    Patches,      \* bodies of PATCH /subscriptions/:id
    Extensions,   \* days of extend-trial: 7, 14 or 30 in the code
    TrialDays,    \* length of a new school's trial: 30 in the code
    Grace,        \* GRACE_DAYS: 14 in the code
    LastDay,      \* bound on the calendar
    LastEnd,      \* bound on how far extend-trial moves the end
    NoEnd,        \* trial_ends_at IS NULL
    Keep          \* a field the body does not name

Plan == {"trial", "premium"}
GateStatus == {"trial", "grace", "read_only"}
Status == GateStatus \cup {"active", "suspended", "cancelled"}
End == Nat \cup {NoEnd}
Row == [plan: Plan, status: Status, ends: End]
Patch == [plan: Plan \cup {Keep}, status: Status \cup {Keep}, ends: End \cup {Keep}]

ASSUME SubscriptionAssumption ==
    /\ NoEnd \notin Int /\ Keep \notin Plan \cup Status \cup End
    /\ Patches \subseteq [plan: Plan \cup {Keep}, status: Status \cup {Keep}, ends: Nat \cup {Keep}]
    /\ Extensions \subseteq Nat /\ TrialDays \in Nat /\ Grace \in Nat
    /\ LastDay \in Nat /\ LastEnd \in Nat

VARIABLES
    today,        \* the date in Africa/Lagos
    row,          \* the school's platform_subscriptions row
    tier,         \* schools.subscription_tier
    pays,         \* per reference, the status of its payment row ("none": no row)
    opening,      \* references whose initialize call has not returned
    charge,       \* Paystack's record: "none", "open", "right" or "wrong" amount captured
    acked,        \* per reference, whether its webhook was answered 200: "no", "unverified", "done"
    admin,        \* per administrator's request, its next statement
    job,          \* the trial job's next statement
    delivery      \* per delivery, the reference it found pending and will settle

vars == <<today, row, tier, pays, opening, charge, acked, admin, job, delivery>>
online == <<pays, opening, charge, acked, delivery>>

Idle == [pc |-> "idle"]
SubInit ==
    /\ today = 0
    /\ row \in {[plan |-> "trial", status |-> "trial", ends |-> TrialDays],
                [plan |-> "premium", status |-> "active", ends |-> NoEnd]}
    /\ tier = row.plan
    /\ pays = [r \in Reference |-> "none"]
    /\ charge = [r \in Reference |-> "none"]
    /\ acked = [r \in Reference |-> "no"]
    /\ opening = {}
    /\ admin = [a \in Admin |-> Idle]
    /\ job = Idle
    /\ delivery = [d \in Delivery |-> Idle]

NextDay ==
    /\ today < LastDay
    /\ today' = today + 1
    /\ UNCHANGED <<row, tier, admin, job, online>>

-----------------------------------------------------------------------------
(* Administrators. *)

Named(field, old) == IF field = Keep THEN old ELSE field

Admits(a, pc) == admin[a].pc = pc
Then(a, t) == admin' = [admin EXCEPT ![a] = t]

\* PATCH refuses a paid plan in a trial status when the body asks for that status, and makes
\* the row active when the body only changes the plan.
Inconsistent(p) == Named(p.plan, row.plan) # "trial" /\ Named(p.status, row.status) \in GateStatus

StartPatch(a, p) ==
    /\ Admits(a, "idle")
    /\ ~(Inconsistent(p) /\ p.status # Keep)
    /\ Then(a, [pc |-> "patch",
                body |-> IF Inconsistent(p) THEN [p EXCEPT !.status = "active"] ELSE p])
    /\ UNCHANGED <<today, row, tier, job, online>>

PatchRow(a) ==
    /\ Admits(a, "patch")
    /\ LET p == admin[a].body
       IN  /\ row' = [plan |-> Named(p.plan, row.plan), status |-> Named(p.status, row.status),
                      ends |-> Named(p.ends, row.ends)]
           /\ Then(a, IF p.plan = Keep THEN Idle ELSE [pc |-> "tier", plan |-> p.plan])
    /\ UNCHANGED <<today, tier, job, online>>

PatchTier(a) ==
    /\ Admits(a, "tier")
    /\ tier' = admin[a].plan
    /\ Then(a, Idle)
    /\ UNCHANGED <<today, row, job, online>>

StartExtend(a, days) ==
    /\ Admits(a, "idle")
    /\ row.plan = "trial" /\ row.status \in GateStatus
    /\ Then(a, [pc |-> "extend", days |-> days])
    /\ UNCHANGED <<today, row, tier, job, online>>

ExtendedStatusEarly(end) == \* mutant: the last day is no longer part of the trial
    IF end # NoEnd /\ end > today THEN "trial"
    ELSE IF end # NoEnd /\ end + Grace >= today THEN "grace"
    ELSE "read_only"

\* The CASE of the UPDATE: a NULL end compares as unknown and falls through to ELSE.
ExtendedStatus(end) ==
    IF end # NoEnd /\ end >= today THEN "trial"
    ELSE IF end # NoEnd /\ end + Grace >= today THEN "grace"
    ELSE "read_only"

Extended(end, days) == IF end = NoEnd THEN NoEnd ELSE end + days

ExtendRow(a) ==
    /\ Admits(a, "extend")
    /\ LET end == Extended(row.ends, admin[a].days)
       IN  /\ end = NoEnd \/ end <= LastEnd
           /\ row' = [row EXCEPT !.ends = end, !.status = ExtendedStatus(end)]
    /\ Then(a, Idle)
    /\ UNCHANGED <<today, tier, job, online>>

StartRecord(a) ==
    /\ Admits(a, "idle")
    /\ row.status # "cancelled"
    /\ Then(a, [pc |-> "record", was |-> row])
    /\ UNCHANGED <<today, row, tier, job, online>>

Restorable == {"suspended", "grace", "read_only"}

\* One transaction; whether it writes the row was decided on the row read before it, so a row
\* read paid and active stays as it is, even if it has become a trial since.  Where it does
\* write, the plan it leaves is decided by the UPDATE itself.
RecordRow(a) ==
    /\ Admits(a, "record")
    /\ LET was == admin[a].was
       IN  /\ row' = IF was.status \in Restorable \/ was.plan = "trial"
                     THEN [row EXCEPT !.status = "active",
                                      !.plan = IF @ = "trial" THEN "premium" ELSE @]
                     ELSE row
           /\ tier' = IF was.plan = "trial" THEN "premium" ELSE tier
    /\ Then(a, Idle)
    /\ UNCHANGED <<today, job, online>>

AdminDies(a) ==
    /\ admin[a] # Idle
    /\ Then(a, Idle)
    /\ UNCHANGED <<today, row, tier, job, online>>

-----------------------------------------------------------------------------
(* runTrialExpiryCheck: runExclusive lets one run at a time. *)

Due == row.status \in GateStatus /\ row.ends # NoEnd /\ row.ends < today
Target == IF today > row.ends + Grace THEN "read_only" ELSE "grace"
HasNewWork == Due /\ (row.plan # "trial" \/ row.status = "trial") \* mutant: grace is forgotten
HasTrialWork == Due /\ row.status \notin {Target, "read_only"} \* mutant: a gated paid plan is forgotten
HasWork == Due /\ (row.plan # "trial" \/ row.status \notin {Target, "read_only"})

JobSelect ==
    /\ job = Idle /\ HasWork
    /\ job' = [pc |-> "write", was |-> row, target |-> Target]
    /\ UNCHANGED <<today, row, tier, admin, online>>

\* UPDATE ... WHERE id = $1: by id alone, from the row selected before.
JobWrite ==
    /\ job # Idle
    /\ row' = [row EXCEPT !.status = IF job.was.plan = "trial" THEN job.target ELSE "active"]
    /\ job' = Idle
    /\ UNCHANGED <<today, tier, admin, online>>

JobDies ==
    /\ job # Idle
    /\ job' = Idle
    /\ UNCHANGED <<today, row, tier, admin, online>>

-----------------------------------------------------------------------------
(* Online payment of the subscription. *)

\* The pending row is written before Paystack is called.
Checkout(r) ==
    /\ pays[r] = "none"
    /\ row.plan # "trial" /\ row.status # "cancelled"
    /\ pays' = [pays EXCEPT ![r] = "pending"]
    /\ opening' = opening \cup {r}
    /\ UNCHANGED <<today, row, tier, charge, acked, admin, job, delivery>>

PaystackOpens(r) ==
    /\ r \in opening /\ charge[r] = "none"
    /\ charge' = [charge EXCEPT ![r] = "open"]
    /\ UNCHANGED <<today, row, tier, pays, opening, acked, admin, job, delivery>>

\* The answer arrives, or the process dies after Paystack opened the charge: the row stays pending.
CheckoutReturns(r) ==
    /\ r \in opening /\ charge[r] # "none"
    /\ opening' = opening \ {r}
    /\ UNCHANGED <<today, row, tier, pays, charge, acked, admin, job, delivery>>

MarkFailedAnyway(r) == pays' = [pays EXCEPT ![r] = "failed"] \* mutant: no "AND status = 'pending'"
MarkFailed(r) == pays' = [pays EXCEPT ![r] = IF @ = "pending" THEN "failed" ELSE @]

\* Paystack refused, or its answer was lost: the charge may be open nevertheless.
CheckoutFails(r) ==
    /\ r \in opening
    /\ opening' = opening \ {r}
    /\ MarkFailed(r)
    /\ UNCHANGED <<today, row, tier, charge, acked, admin, job, delivery>>

PaystackCaptures(r, amount) ==
    /\ charge[r] = "open"
    /\ charge' = [charge EXCEPT ![r] = amount]
    /\ UNCHANGED <<today, row, tier, pays, opening, acked, admin, job, delivery>>

Captured(r) == charge[r] \in {"right", "wrong"}

\* What the two routes answer: the webhook always 200; the return page sends the payer on.
Answer(route, r) ==
    acked' = IF route = "webhook" THEN [acked EXCEPT ![r] = "done"] ELSE acked

\* The webhook is answered 200 also when verifyPaystackTransaction got no answer.
Unverified(r) ==
    /\ Captured(r) /\ acked[r] = "no"
    /\ acked' = [acked EXCEPT ![r] = "unverified"]
    /\ UNCHANGED <<today, row, tier, pays, opening, charge, admin, job, delivery>>

FindAnswersFirst(d, route, r) == \* mutant: the webhook is answered before the payment is settled
    /\ delivery[d] = Idle
    /\ Captured(r)
    /\ route = "webhook" => acked[r] = "no"
    /\ delivery' = [delivery EXCEPT ![d] = [pc |-> "settle", route |-> route, ref |-> r]]
    /\ Answer(route, r)
    /\ UNCHANGED <<today, row, tier, pays, opening, charge, admin, job>>

\* settlePayment's SELECT: a row that is not pending is "already_settled".
Find(d, route, r) ==
    /\ delivery[d] = Idle
    /\ Captured(r)
    /\ route = "webhook" => acked[r] = "no"
    /\ IF pays[r] = "pending"
       THEN /\ delivery' = [delivery EXCEPT ![d] = [pc |-> "settle", route |-> route, ref |-> r]]
            /\ UNCHANGED acked
       ELSE /\ Answer(route, r)
            /\ UNCHANGED delivery
    /\ UNCHANGED <<today, row, tier, pays, opening, charge, admin, job>>

SettleAgain(r) == \* mutant: the subscription is restored whether or not the row was pending
    /\ pays' = [pays EXCEPT ![r] = IF @ = "pending" THEN "consumed" ELSE @]
    /\ row' = IF row.status \in Restorable THEN [row EXCEPT !.status = "active"] ELSE row

SettleRight(r) ==
    /\ pays' = [pays EXCEPT ![r] = IF @ = "pending" THEN "consumed" ELSE @]
    /\ row' = IF pays[r] = "pending" /\ row.status \in Restorable
              THEN [row EXCEPT !.status = "active"] ELSE row

Settle(d) ==
    /\ delivery[d] # Idle
    /\ LET r == delivery[d].ref
       IN  /\ IF charge[r] = "right" THEN SettleRight(r) ELSE MarkFailed(r) /\ UNCHANGED row
           /\ Answer(delivery[d].route, r)
    /\ delivery' = [delivery EXCEPT ![d] = Idle]
    /\ UNCHANGED <<today, tier, opening, charge, admin, job>>

DeliveryDies(d) ==
    /\ delivery[d] # Idle
    /\ delivery' = [delivery EXCEPT ![d] = Idle]
    /\ UNCHANGED <<today, row, tier, pays, opening, charge, acked, admin, job>>

-----------------------------------------------------------------------------
AdminNext(a) ==
    \/ \E p \in Patches : StartPatch(a, p)
    \/ \E days \in Extensions : StartExtend(a, days)
    \/ PatchRow(a) \/ PatchTier(a) \/ ExtendRow(a)
    \/ StartRecord(a) \/ RecordRow(a) \/ AdminDies(a)

PaymentNext(r) ==
    \/ Checkout(r) \/ PaystackOpens(r) \/ CheckoutReturns(r) \/ CheckoutFails(r)
    \/ \E amount \in {"right", "wrong"} : PaystackCaptures(r, amount)
    \/ Unverified(r)

DeliveryNext(d) ==
    \/ \E route \in {"webhook", "callback"}, r \in Reference : Find(d, route, r)
    \/ Settle(d) \/ DeliveryDies(d)

SubNext ==
    \/ NextDay
    \/ \E a \in Admin : AdminNext(a)
    \/ JobSelect \/ JobWrite \/ JobDies
    \/ \E r \in Reference : PaymentNext(r)
    \/ \E d \in Delivery : DeliveryNext(d)

SubSpec == SubInit /\ [][SubNext]_vars

(***************************************************************************)
(* The job is scheduled every day, so a day on which a run dies is         *)
(* followed by another.  Paystack repeats the webhook of a captured charge *)
(* until it is answered 200, and a delivery in flight ends, if only by     *)
(* dying.  No administrator, payer or return page is obliged to start.     *)
(***************************************************************************)
WebhookFinds(r) == \E d \in Delivery : Find(d, "webhook", r)
WebhookSettles(r) ==
    \E d \in Delivery :
        delivery[d] # Idle /\ delivery[d].route = "webhook" /\ delivery[d].ref = r /\ Settle(d)

SubFairness ==
    /\ WF_vars(JobSelect) /\ SF_vars(JobWrite)
    /\ \A r \in Reference : SF_vars(WebhookFinds(r)) /\ SF_vars(WebhookSettles(r))
    /\ \A d \in Delivery : WF_vars(Settle(d) \/ DeliveryDies(d))

SubFairSpec == SubSpec /\ SubFairness

-----------------------------------------------------------------------------
AdminTask ==
    {Idle} \cup [pc: {"patch"}, body: Patch] \cup [pc: {"tier"}, plan: Plan]
    \cup [pc: {"extend"}, days: Extensions] \cup [pc: {"record"}, was: Row]
JobTask == {Idle} \cup [pc: {"write"}, was: Row, target: {"grace", "read_only"}]
DeliveryTask == {Idle} \cup [pc: {"settle"}, route: {"webhook", "callback"}, ref: Reference]

SubTypeOK ==
    /\ today \in Nat /\ row \in Row /\ tier \in Plan
    /\ pays \in [Reference -> {"none", "pending", "consumed", "failed"}]
    /\ charge \in [Reference -> {"none", "open", "right", "wrong"}]
    /\ opening \subseteq Reference
    /\ acked \in [Reference -> {"no", "unverified", "done"}]
    /\ admin \in [Admin -> AdminTask]
    /\ job \in JobTask
    /\ delivery \in [Delivery -> DeliveryTask]

(***************************************************************************)
(* A payment is settled once and for good: migration 052's "status is      *)
(* write-once".  A consumed or failed row never changes, however many      *)
(* deliveries and late initialize failures race; only money captured at    *)
(* the amount asked is consumed; and such money is marked failed only by   *)
(* the initialize call that has not come back yet, never by a delivery.    *)
(***************************************************************************)
SettledForGood ==
    [][\A r \in Reference :
          /\ pays[r] \in {"consumed", "failed"} => pays'[r] = pays[r]
          /\ pays'[r] = "consumed" => charge[r] = "right"
          /\ pays[r] # "failed" /\ pays'[r] = "failed" /\ charge[r] = "right" => r \in opening]_vars

(***************************************************************************)
(* A delivery changes the subscription only in the step that consumes its  *)
(* payment, and only to restore it: a repeated webhook never lifts a       *)
(* suspension made after the payment, and paying never revives a           *)
(* cancelled subscription.                                                 *)
(***************************************************************************)
RestoredByItsPayment ==
    [][delivery' # delivery /\ row' # row =>
          /\ \E r \in Reference : pays[r] = "pending" /\ pays'[r] = "consumed"
          /\ row.status # "cancelled" /\ row' = [row EXCEPT !.status = "active"]]_vars

(***************************************************************************)
(* What the header of runTrialExpiryCheck says of the job: "Never gates a  *)
(* PAID plan."  The row it writes is the one its UPDATE finds, which need  *)
(* not be the one it selected.                                             *)
(***************************************************************************)
NeverGatesPaid ==
    [][job # Idle /\ job' = Idle /\ row' # row =>
          ~(row'.plan # "trial" /\ row'.status \in GateStatus)]_vars

(***************************************************************************)
(* The stages follow the calendar -- trial through its last day, then      *)
(* Grace days, then read-only -- whoever writes them: the job on a row     *)
(* nobody changed since it was selected, and extend-trial, which the code  *)
(* says recomputes the status "with the job's own rule".                   *)
(***************************************************************************)
Stage(r, day) ==
    CASE r.ends >= day -> "trial"
      [] r.ends < day /\ day <= r.ends + Grace -> "grace"
      [] OTHER -> "read_only"

StagesFollowCalendar ==
    [][row'.plan = "trial" /\ row'.ends # NoEnd /\ row' # row =>
          /\ job' # job /\ job.was = row => row'.status \in {Stage(row, d) : d \in row.ends + 1 .. today}
          /\ (\E a \in Admin : Admits(a, "extend") /\ admin'[a] # admin[a]) =>
                 row'.status = Stage(row', today)]_vars

\* A trial past its grace does not stay open: again and again there is none.
LapsedIsGated ==
    []<>~(row.plan = "trial" /\ row.status \in {"trial", "grace"} /\ row.ends # NoEnd
            /\ today > row.ends + Grace)

\* A paid plan that is nevertheless in a trial status past an end date is set right by the job.
PaidIsHealed ==
    []<>~(row.plan # "trial" /\ row.status \in GateStatus /\ row.ends # NoEnd /\ row.ends < today)

\* What a captured payment should become.
Settled(r) == pays[r] = IF charge[r] = "right" THEN "consumed" ELSE "failed"

(***************************************************************************)
(* Money captured on a pending checkout whose initialize call has come     *)
(* back is settled as it should be: consumed when the amount is the one    *)
(* asked, failed (and alerted) when it is not; unless its webhook was      *)
(* answered 200 while Paystack could not be reached to verify it.  While   *)
(* the initialize call is out there is no such promise: if its answer is   *)
(* lost the row is marked failed, and money captured on it is never        *)
(* settled.                                                                *)
(***************************************************************************)
CapturedIsSettled ==
    \A r \in Reference :
        (Captured(r) /\ pays[r] = "pending" /\ r \notin opening) ~> (Settled(r) \/ acked[r] = "unverified")
=============================================================================
