------------------------- MODULE SubscriptionProofs -------------------------
(***************************************************************************)
(* Proofs about Subscription, for every number of administrators,          *)
(* deliveries and references, every body and every calendar.  The          *)
(* inductive invariant SubInv is the type invariant together with what a   *)
(* consumed payment and a selected row of the job remember.                *)
(***************************************************************************)
EXTENDS Subscription, TLAPS

ConsumedWasRight == \A r \in Reference : pays[r] = "consumed" => charge[r] = "right"

\* What the job holds is a stage its selected row had reached on some day up to today.
SelectedWasDue ==
    job # Idle =>
        /\ job.was.status \in GateStatus /\ job.was.ends \in Nat
        /\ \E d \in job.was.ends + 1 .. today : job.target = Stage(job.was, d)

SubInv == SubTypeOK /\ ConsumedWasRight /\ SelectedWasDue

-----------------------------------------------------------------------------
LEMMA AdminTasks ==
    ASSUME NEW a \in Admin, admin \in [Admin -> AdminTask]
    PROVE  /\ admin[a].pc = "patch" => admin[a].body \in Patch
           /\ admin[a].pc = "tier" => admin[a].plan \in Plan
           /\ admin[a].pc = "extend" => admin[a].days \in Extensions
           /\ admin[a].pc = "record" => admin[a].was \in Row
  BY DEF AdminTask, Idle

LEMMA ThenTyped ==
    ASSUME NEW a \in Admin, NEW t \in AdminTask, admin \in [Admin -> AdminTask], Then(a, t)
    PROVE  admin' \in [Admin -> AdminTask]
  BY DEF Then

LEMMA IdleTask == Idle \in AdminTask /\ Idle \in JobTask /\ Idle \in DeliveryTask
  BY DEF AdminTask, JobTask, DeliveryTask

LEMMA NamedTyped ==
    ASSUME NEW S, NEW old \in S, NEW f \in S \cup {Keep}
    PROVE  Named(f, old) \in S
  BY DEF Named

LEMMA JobTasks ==
    ASSUME job \in JobTask, job # Idle
    PROVE  job.was \in Row /\ job.target \in {"grace", "read_only"}
  BY DEF JobTask

LEMMA Deliveries ==
    ASSUME NEW d \in Delivery, delivery \in [Delivery -> DeliveryTask], delivery[d] # Idle
    PROVE  delivery[d].ref \in Reference /\ delivery[d].route \in {"webhook", "callback"}
  BY DEF DeliveryTask

\* The body of a PATCH, with the status the route adds to it, is a body.
LEMMA BodyTyped ==
    ASSUME NEW p \in Patches
    PROVE  p \in Patch /\ [p EXCEPT !.status = "active"] \in Patch
<1>1. p \in Patch
  BY SubscriptionAssumption DEF Patch, End
<1>2. [p EXCEPT !.status = "active"] \in Patch
  BY <1>1 DEF Patch, Status, GateStatus
<1> QED BY <1>1, <1>2

-----------------------------------------------------------------------------
(* Type correctness, one lemma for each kind of actor. *)

LEMMA InitTyped == SubInit => SubTypeOK
<1> SUFFICES ASSUME SubInit PROVE SubTypeOK
  OBVIOUS
<1> USE DEF SubInit
<1>1. row \in Row /\ tier \in Plan
  BY SubscriptionAssumption DEF Row, Plan, Status, GateStatus, End
<1>2. admin \in [Admin -> AdminTask] /\ job \in JobTask /\ delivery \in [Delivery -> DeliveryTask]
  BY IdleTask
<1> QED BY <1>1, <1>2 DEF SubTypeOK

LEMMA AdminTyped ==
    ASSUME SubTypeOK, NEW a \in Admin, AdminNext(a)
    PROVE  SubTypeOK'
<1> USE DEF SubTypeOK, online
<1>1. ASSUME NEW p \in Patches, StartPatch(a, p) PROVE SubTypeOK'
  <2> DEFINE body == IF Inconsistent(p) THEN [p EXCEPT !.status = "active"] ELSE p
  <2>1. body \in Patch
    BY BodyTyped
  <2>2. [pc |-> "patch", body |-> body] \in AdminTask
    BY <2>1 DEF AdminTask
  <2>3. admin' \in [Admin -> AdminTask]
    BY <1>1, <2>2, ThenTyped DEF StartPatch
  <2> QED BY <1>1, <2>3 DEF StartPatch
<1>2. ASSUME NEW n \in Extensions, StartExtend(a, n) PROVE SubTypeOK'
  <2>1. [pc |-> "extend", days |-> n] \in AdminTask
    BY DEF AdminTask
  <2>2. admin' \in [Admin -> AdminTask]
    BY <1>2, <2>1, ThenTyped DEF StartExtend
  <2> QED BY <1>2, <2>2 DEF StartExtend
<1>3. CASE PatchRow(a)
  <2> DEFINE p == admin[a].body
  <2>1. p \in Patch
    BY <1>3, AdminTasks DEF PatchRow, Admits
  <2>2. row'.plan \in Plan /\ row'.status \in Status /\ row'.ends \in End
    <3>1. p.plan \in Plan \cup {Keep} /\ p.status \in Status \cup {Keep} /\ p.ends \in End \cup {Keep}
      BY <2>1 DEF Patch
    <3>2. row.plan \in Plan /\ row.status \in Status /\ row.ends \in End
      BY DEF Row
    <3> QED BY <1>3, <3>1, <3>2, NamedTyped DEF PatchRow
  <2>3. row' \in Row
    BY <1>3, <2>2 DEF PatchRow, Row
  <2>4. (IF p.plan = Keep THEN Idle ELSE [pc |-> "tier", plan |-> p.plan]) \in AdminTask
    BY <2>1 DEF AdminTask, Patch
  <2>5. admin' \in [Admin -> AdminTask]
    BY <1>3, <2>4, ThenTyped DEF PatchRow
  <2> QED BY <1>3, <2>3, <2>5 DEF PatchRow
<1>4. CASE PatchTier(a)
  BY <1>4, AdminTasks, IdleTask, ThenTyped DEF PatchTier, Admits
<1>5. CASE ExtendRow(a)
  <2> DEFINE end == Extended(row.ends, admin[a].days)
  <2>1. end \in End
    BY <1>5, AdminTasks, SubscriptionAssumption DEF ExtendRow, Admits, Extended, End, Row
  <2>2. ExtendedStatus(end) \in Status
    BY DEF ExtendedStatus, Status, GateStatus
  <2>3. row' \in Row
    BY <1>5, <2>1, <2>2 DEF ExtendRow, Row
  <2> QED BY <1>5, <2>3, IdleTask, ThenTyped DEF ExtendRow
<1>6. CASE StartRecord(a)
  <2>1. [pc |-> "record", was |-> row] \in AdminTask
    BY DEF AdminTask
  <2> QED BY <1>6, <2>1, ThenTyped DEF StartRecord
<1>7. CASE RecordRow(a)
  <2>1. row' \in Row
    BY <1>7 DEF RecordRow, Row, Status, Plan
  <2>2. tier' \in Plan
    BY <1>7 DEF RecordRow, Plan
  <2> QED BY <1>7, <2>1, <2>2, IdleTask, ThenTyped DEF RecordRow
<1>8. CASE AdminDies(a)
  BY <1>8, IdleTask, ThenTyped DEF AdminDies
<1> QED BY <1>1, <1>2, <1>3, <1>4, <1>5, <1>6, <1>7, <1>8 DEF AdminNext

LEMMA JobTyped ==
    ASSUME SubTypeOK, JobSelect \/ JobWrite \/ JobDies
    PROVE  SubTypeOK'
<1> USE DEF SubTypeOK, online
<1>1. CASE JobSelect
  <2>1. job' \in JobTask
    BY <1>1 DEF JobSelect, JobTask, Target
  <2> QED BY <1>1, <2>1 DEF JobSelect
<1>2. CASE JobWrite
  <2>1. (IF job.was.plan = "trial" THEN job.target ELSE "active") \in Status
    BY <1>2, JobTasks DEF JobWrite, Status, GateStatus
  <2>2. row' \in Row
    BY <1>2, <2>1 DEF JobWrite, Row
  <2> QED BY <1>2, <2>2, IdleTask DEF JobWrite
<1>3. CASE JobDies
  BY <1>3, IdleTask DEF JobDies
<1> QED BY <1>1, <1>2, <1>3

LEMMA PaymentTyped ==
    ASSUME SubTypeOK, NEW r \in Reference, PaymentNext(r)
    PROVE  SubTypeOK'
<1> USE DEF SubTypeOK
<1>1. CASE Checkout(r)
  BY <1>1 DEF Checkout
<1>2. CASE PaystackOpens(r)
  BY <1>2 DEF PaystackOpens
<1>3. CASE CheckoutReturns(r)
  BY <1>3 DEF CheckoutReturns
<1>4. CASE CheckoutFails(r)
  BY <1>4 DEF CheckoutFails, MarkFailed
<1>5. ASSUME NEW amount \in {"right", "wrong"}, PaystackCaptures(r, amount) PROVE SubTypeOK'
  BY <1>5 DEF PaystackCaptures
<1>6. CASE Unverified(r)
  BY <1>6 DEF Unverified
<1> QED BY <1>1, <1>2, <1>3, <1>4, <1>5, <1>6 DEF PaymentNext

LEMMA DeliveryTyped ==
    ASSUME SubTypeOK, NEW d \in Delivery, DeliveryNext(d)
    PROVE  SubTypeOK'
<1> USE DEF SubTypeOK
<1>1. ASSUME NEW route \in {"webhook", "callback"}, NEW r \in Reference, Find(d, route, r)
      PROVE  SubTypeOK'
  <2>1. [pc |-> "settle", route |-> route, ref |-> r] \in DeliveryTask
    BY DEF DeliveryTask
  <2>2. delivery' \in [Delivery -> DeliveryTask]
    BY <1>1, <2>1 DEF Find
  <2>3. acked' \in [Reference -> {"no", "unverified", "done"}]
    BY <1>1 DEF Find, Answer
  <2> QED BY <1>1, <2>2, <2>3 DEF Find
<1>2. CASE Settle(d)
  <2>1. delivery[d].ref \in Reference
    BY <1>2, Deliveries DEF Settle
  <2>2. pays' \in [Reference -> {"none", "pending", "consumed", "failed"}]
    BY <1>2, <2>1 DEF Settle, SettleRight, MarkFailed
  <2>3. row' \in Row
    BY <1>2 DEF Settle, SettleRight, Row, Status
  <2>4. acked' \in [Reference -> {"no", "unverified", "done"}]
    BY <1>2, <2>1 DEF Settle, Answer
  <2>5. delivery' \in [Delivery -> DeliveryTask]
    BY <1>2, IdleTask DEF Settle
  <2> QED BY <1>2, <2>2, <2>3, <2>4, <2>5 DEF Settle
<1>3. CASE DeliveryDies(d)
  BY <1>3, IdleTask DEF DeliveryDies
<1> QED BY <1>1, <1>2, <1>3 DEF DeliveryNext

LEMMA StepTyped == SubTypeOK /\ [SubNext]_vars => SubTypeOK'
<1> SUFFICES ASSUME SubTypeOK, [SubNext]_vars PROVE SubTypeOK'
  OBVIOUS
<1>1. CASE NextDay
  BY <1>1 DEF NextDay, SubTypeOK, online
<1>2. CASE UNCHANGED vars
  BY <1>2 DEF vars, SubTypeOK
<1> QED BY <1>1, <1>2, AdminTyped, JobTyped, PaymentTyped, DeliveryTyped DEF SubNext

\* Every variable keeps its type, whoever interleaves.
THEOREM SubTypeCorrect == SubSpec => []SubTypeOK
<1> QED BY InitTyped, StepTyped, PTL DEF SubSpec

-----------------------------------------------------------------------------
(* Who changes what: a step that does not belong to an actor leaves its    *)
(* part of the state alone.                                                *)

LEMMA PaysChange ==
    ASSUME SubTypeOK, SubNext, NEW r \in Reference
    PROVE  /\ pays[r] \in {"consumed", "failed"} => pays'[r] = pays[r]
           /\ pays'[r] = "consumed" => pays[r] = "consumed" \/ charge[r] = "right"
           /\ pays[r] # "failed" /\ pays'[r] = "failed" /\ charge[r] = "right" => r \in opening
<1> USE DEF SubTypeOK
<1>1. ASSUME UNCHANGED pays PROVE pays'[r] = pays[r]
  BY <1>1
<1>2. CASE NextDay \/ (\E a \in Admin : AdminNext(a)) \/ JobSelect \/ JobWrite \/ JobDies
  BY <1>1, <1>2 DEF NextDay, AdminNext, StartPatch, StartExtend, PatchRow, PatchTier, ExtendRow,
     StartRecord, RecordRow, AdminDies, JobSelect, JobWrite, JobDies, online
<1>3. ASSUME NEW q \in Reference, PaymentNext(q)
      PROVE  /\ pays[r] \in {"consumed", "failed"} => pays'[r] = pays[r]
             /\ pays'[r] = "consumed" => pays[r] = "consumed"
             /\ pays[r] # "failed" /\ pays'[r] = "failed" => r \in opening
  BY <1>3 DEF PaymentNext, Checkout, PaystackOpens, CheckoutReturns, CheckoutFails, MarkFailed,
     PaystackCaptures, Unverified
<1>4. ASSUME NEW d \in Delivery, DeliveryNext(d)
      PROVE  /\ pays[r] \in {"consumed", "failed"} => pays'[r] = pays[r]
             /\ pays'[r] = "consumed" => pays[r] = "consumed" \/ charge[r] = "right"
             /\ pays[r] # "failed" /\ pays'[r] = "failed" => charge[r] # "right"
  <2>1. CASE \E route \in {"webhook", "callback"}, q \in Reference : Find(d, route, q)
    BY <2>1 DEF Find
  <2>2. CASE Settle(d)
    <3>1. delivery[d].ref \in Reference
      BY <2>2, Deliveries DEF Settle
    <3>2. CASE charge[delivery[d].ref] = "right"
      BY <2>2, <3>1, <3>2 DEF Settle, SettleRight
    <3>3. CASE charge[delivery[d].ref] # "right"
      BY <2>2, <3>1, <3>3 DEF Settle, MarkFailed
    <3> QED BY <3>2, <3>3
  <2>3. CASE DeliveryDies(d)
    BY <2>3 DEF DeliveryDies
  <2> QED BY <1>4, <2>1, <2>2, <2>3 DEF DeliveryNext
<1> QED BY <1>2, <1>3, <1>4 DEF SubNext

\* Money captured stays captured.
LEMMA ChargeStays ==
    ASSUME SubTypeOK, SubNext, NEW r \in Reference, charge[r] = "right"
    PROVE  charge'[r] = "right"
<1> USE DEF SubTypeOK
<1>1. CASE NextDay \/ (\E a \in Admin : AdminNext(a)) \/ JobSelect \/ JobWrite \/ JobDies
  BY <1>1 DEF NextDay, AdminNext, StartPatch, StartExtend, PatchRow, PatchTier, ExtendRow,
     StartRecord, RecordRow, AdminDies, JobSelect, JobWrite, JobDies, online
<1>2. ASSUME NEW q \in Reference, PaymentNext(q) PROVE charge'[r] = "right"
  BY <1>2 DEF PaymentNext, Checkout, PaystackOpens, CheckoutReturns, CheckoutFails,
     PaystackCaptures, Unverified
<1>3. ASSUME NEW d \in Delivery, DeliveryNext(d) PROVE charge'[r] = "right"
  BY <1>3 DEF DeliveryNext, Find, Settle, DeliveryDies
<1> QED BY <1>1, <1>2, <1>3 DEF SubNext

\* A step of anyone but the job leaves what the job selected alone, and the calendar only advances.
LEMMA OnlyJobSelects ==
    ASSUME SubTypeOK, SubNext
    PROVE  /\ today' \in Nat /\ today <= today'
           /\ UNCHANGED job \/ JobSelect \/ job' = Idle
<1> USE DEF SubTypeOK
<1>1. CASE NextDay
  BY <1>1 DEF NextDay
<1>2. ASSUME NEW a \in Admin, AdminNext(a) PROVE UNCHANGED <<today, job>>
  BY <1>2 DEF AdminNext, StartPatch, StartExtend, PatchRow, PatchTier, ExtendRow, StartRecord,
     RecordRow, AdminDies
<1>3. CASE JobSelect \/ JobWrite \/ JobDies
  BY <1>3 DEF JobSelect, JobWrite, JobDies
<1>4. ASSUME NEW r \in Reference, PaymentNext(r) PROVE UNCHANGED <<today, job>>
  BY <1>4 DEF PaymentNext, Checkout, PaystackOpens, CheckoutReturns, CheckoutFails,
     PaystackCaptures, Unverified
<1>5. ASSUME NEW d \in Delivery, DeliveryNext(d) PROVE UNCHANGED <<today, job>>
  BY <1>5 DEF DeliveryNext, Find, Settle, DeliveryDies
<1> QED BY <1>1, <1>2, <1>3, <1>4, <1>5 DEF SubNext

LEMMA SelectionDue ==
    ASSUME SubTypeOK, JobSelect
    PROVE  SelectedWasDue'
<1>1. row.ends \in Nat /\ today \in Nat /\ row.ends < today /\ row.status \in GateStatus
  BY DEF JobSelect, HasWork, Due, SubTypeOK, Row, End
<1>2. Target = Stage(row, today)
  BY <1>1, SubscriptionAssumption DEF Target, Stage
<1>3. today \in row.ends + 1 .. today
  BY <1>1
<1>4. job'.was = row /\ job'.target = Target /\ today' = today
  BY DEF JobSelect
<1> QED BY <1>1, <1>2, <1>3, <1>4 DEF SelectedWasDue, Stage

LEMMA InvHolds == SubSpec => []SubInv
<1>1. SubInit => SubInv
  BY InitTyped DEF SubInit, SubInv, ConsumedWasRight, SelectedWasDue
<1>2. SubInv /\ [SubNext]_vars => SubInv'
  <2> SUFFICES ASSUME SubInv, [SubNext]_vars PROVE SubInv'
    OBVIOUS
  <2>1. CASE UNCHANGED vars
    BY <2>1, StepTyped DEF vars, SubInv, ConsumedWasRight, SelectedWasDue, Stage
  <2>2. CASE SubNext
    <3>1. ConsumedWasRight'
      BY <2>2, PaysChange, ChargeStays DEF SubInv, ConsumedWasRight
    <3>2. SelectedWasDue'
      <4>1. CASE JobSelect
        BY <4>1, SelectionDue DEF SubInv
      <4>2. CASE job' = Idle
        BY <4>2 DEF SelectedWasDue
      <4>3. CASE UNCHANGED job /\ job # Idle
        <5>1. job.was.ends \in Nat /\ today \in Nat /\ today' \in Nat /\ today <= today'
          BY <2>2, <4>3, OnlyJobSelects DEF SubInv, SelectedWasDue, SubTypeOK
        <5>2. PICK d \in job.was.ends + 1 .. today : job.target = Stage(job.was, d)
          BY <4>3 DEF SubInv, SelectedWasDue
        <5>3. d \in job.was.ends + 1 .. today'
          BY <5>1, <5>2
        <5> QED BY <4>3, <5>1, <5>2, <5>3 DEF SubInv, SelectedWasDue, Stage
      <4> QED BY <2>2, <4>1, <4>2, <4>3, OnlyJobSelects DEF SubInv
    <3> QED BY <2>2, <3>1, <3>2, StepTyped DEF SubInv
  <2> QED BY <2>1, <2>2
<1> QED BY <1>1, <1>2, PTL DEF SubSpec

-----------------------------------------------------------------------------
(***************************************************************************)
(* A payment row is write-once, only rightly captured money is consumed,   *)
(* and no delivery marks such money failed: settlePayment's and            *)
(* markPaymentFailed's conditional UPDATEs.                                *)
(***************************************************************************)
THEOREM PaymentsSettleForGood == SubSpec => SettledForGood
<1>1. SubInv /\ [SubNext]_vars =>
        [\A r \in Reference :
            /\ pays[r] \in {"consumed", "failed"} => pays'[r] = pays[r]
            /\ pays'[r] = "consumed" => charge[r] = "right"
            /\ pays[r] # "failed" /\ pays'[r] = "failed" /\ charge[r] = "right" => r \in opening]_vars
  BY PaysChange DEF SubInv, ConsumedWasRight
<1> QED BY <1>1, InvHolds, PTL DEF SubSpec, SettledForGood

(***************************************************************************)
(* However many deliveries race, the subscription is restored only by the  *)
(* step that consumes a payment, and a cancelled one never is.             *)
(***************************************************************************)
THEOREM PaymentRestoresOnce == SubSpec => RestoredByItsPayment
<1>1. SubInv /\ [SubNext]_vars =>
        [delivery' # delivery /\ row' # row =>
            /\ \E r \in Reference : pays[r] = "pending" /\ pays'[r] = "consumed"
            /\ row.status # "cancelled" /\ row' = [row EXCEPT !.status = "active"]]_vars
  <2> SUFFICES ASSUME SubInv, SubNext, delivery' # delivery, row' # row
               PROVE  /\ \E r \in Reference : pays[r] = "pending" /\ pays'[r] = "consumed"
                      /\ row.status # "cancelled" /\ row' = [row EXCEPT !.status = "active"]
    BY DEF vars
  <2>1. PICK d \in Delivery : Settle(d)
    BY DEF SubNext, NextDay, AdminNext, StartPatch, StartExtend, PatchRow, PatchTier, ExtendRow,
       StartRecord, RecordRow, AdminDies, JobSelect, JobWrite, JobDies, online, PaymentNext,
       Checkout, PaystackOpens, CheckoutReturns, CheckoutFails, PaystackCaptures, Unverified,
       DeliveryNext, Find, DeliveryDies
  <2>2. delivery[d].ref \in Reference
    BY <2>1, Deliveries DEF Settle, SubInv, SubTypeOK
  <2> QED BY <2>1, <2>2 DEF Settle, SettleRight, Restorable, SubInv, SubTypeOK
<1> QED BY <1>1, InvHolds, PTL DEF SubSpec, RestoredByItsPayment

-----------------------------------------------------------------------------
\* A step that changes the task of administrator a is a step of a.
LEMMA OwnSteps ==
    ASSUME SubTypeOK, SubNext, NEW a \in Admin, admin'[a] # admin[a]
    PROVE  AdminNext(a)
<1>1. PICK b \in Admin : AdminNext(b)
  BY DEF SubNext, NextDay, JobSelect, JobWrite, JobDies, online, PaymentNext, Checkout,
     PaystackOpens, CheckoutReturns, CheckoutFails, PaystackCaptures, Unverified, DeliveryNext,
     Find, Settle, DeliveryDies
<1>2. \E t : Then(b, t)
  BY <1>1 DEF AdminNext, StartPatch, StartExtend, PatchRow, PatchTier, ExtendRow, StartRecord,
     RecordRow, AdminDies
<1> QED BY <1>1, <1>2 DEF Then, SubTypeOK

(***************************************************************************)
(* The job, on a row nobody changed since it selected it, and extend-trial *)
(* write the stage the calendar gives, for every length of trial and of    *)
(* grace.                                                                  *)
(***************************************************************************)
THEOREM StagesAreTheCalendars == SubSpec => StagesFollowCalendar
<1> DEFINE JobStage ==
              job' # job /\ job.was = row => row'.status \in {Stage(row, d) : d \in row.ends + 1 .. today}
           ExtensionStage ==
              (\E a \in Admin : Admits(a, "extend") /\ admin'[a] # admin[a]) =>
                  row'.status = Stage(row', today)
<1>1. SubInv /\ [SubNext]_vars =>
        [row'.plan = "trial" /\ row'.ends # NoEnd /\ row' # row => JobStage /\ ExtensionStage]_vars
  <2> SUFFICES ASSUME SubInv, SubNext, row'.plan = "trial", row'.ends # NoEnd, row' # row
               PROVE  JobStage /\ ExtensionStage
    BY DEF vars
  <2>1. JobStage
    <3> SUFFICES ASSUME job' # job, job.was = row
                 PROVE  row'.status \in {Stage(row, d) : d \in row.ends + 1 .. today}
      OBVIOUS
    <3>1. JobWrite
      BY DEF SubNext, NextDay, AdminNext, StartPatch, StartExtend, PatchRow, PatchTier, ExtendRow,
         StartRecord, RecordRow, AdminDies, JobSelect, JobDies, PaymentNext, Checkout,
         PaystackOpens, CheckoutReturns, CheckoutFails, PaystackCaptures, Unverified,
         DeliveryNext, Find, Settle, DeliveryDies
    <3>2. row'.status = job.target
      BY <3>1 DEF JobWrite, SubInv, SubTypeOK, Row
    <3>3. \E d \in row.ends + 1 .. today : job.target = Stage(row, d)
      BY <3>1 DEF JobWrite, SubInv, SelectedWasDue
    <3> QED BY <3>2, <3>3
  <2>2. ExtensionStage
    <3> SUFFICES ASSUME NEW a \in Admin, Admits(a, "extend"), admin'[a] # admin[a]
                 PROVE  row'.status = Stage(row', today)
      OBVIOUS
    <3>1. ExtendRow(a)
      BY OwnSteps DEF SubInv, AdminNext, Admits, StartPatch, StartExtend, PatchRow, PatchTier,
         StartRecord, RecordRow, AdminDies
    <3> DEFINE end == Extended(row.ends, admin[a].days)
    <3>2. row'.ends = end /\ row'.status = ExtendedStatus(end)
      BY <3>1 DEF ExtendRow, SubInv, SubTypeOK, Row
    <3>3. end \in Nat /\ today \in Nat /\ Grace \in Nat
      <4>1. row.ends \in End /\ admin[a].days \in Nat
        BY <3>1, AdminTasks, SubscriptionAssumption DEF ExtendRow, Admits, SubInv, SubTypeOK, Row
      <4> QED BY <3>2, <4>1, SubscriptionAssumption DEF Extended, End, SubInv, SubTypeOK
    <3>4. end # NoEnd
      BY <3>2
    <3>5. ExtendedStatus(end) = Stage(row', today)
      BY <3>2, <3>3, <3>4 DEF ExtendedStatus, Stage
    <3> QED BY <3>2, <3>5
  <2> QED BY <2>1, <2>2
<1> QED BY <1>1, InvHolds, PTL DEF SubSpec, StagesFollowCalendar
=============================================================================
