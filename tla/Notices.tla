------------------------------ MODULE Notices ------------------------------
(***************************************************************************)
(* Telling parents: the worker that drains the notification queue every 30 *)
(* seconds on each replica (services/notificationWorker.ts), under a       *)
(* session-level advisory lock (services/cronTracker.ts), and the fee      *)
(* reminders, weekly or sent from the bursar's page                        *)
(* (services/feeReminderService.ts, routes/fees.ts). Both walk through the *)
(* parents and for each write the in-app notice, send the email, and text  *)
(* the phone if fewer than SMS_DAILY_LIMIT texts went to it that day.      *)
(*                                                                         *)
(* The queue is audit_logs: a row waits until processed_at is stamped. A   *)
(* crash, a statement that fails, an answer of Termii that is lost and a   *)
(* session whose connection drops (and with it the lock, while the run     *)
(* goes on) are faults; MaxFaults bounds them. A day of texts is modelled, *)
(* not its end; and each parent has one pupil, where the code tells a      *)
(* parent of two pupils of a row of each.                                  *)
(***************************************************************************)
EXTENDS Naturals, FiniteSets

CONSTANTS
    Row,                \* audit_logs rows, numbered by created_at
    Parent,             \* numbered by id
    Replica,            \* API processes, each with its worker
    Desk,               \* runs of the fee reminders
    Nobody,
    Fees,               \* what a reminder is about
    Audience,           \* parents linked to the pupils of a row, or of the unpaid invoices
    Channel,            \* the school's channels for the row's event
    Phone,              \* parents that can be texted; {} while SMS is switched off
    Poison,             \* rows whose recipients cannot be looked up
    BATCH_SIZE,
    SMS_DAILY_LIMIT,
    MaxFaults

Job == Replica \cup Desk
About == Row \cup {Fees}

ASSUME PeopleAssumption ==
    /\ Row \subseteq Nat /\ Parent \subseteq Nat /\ IsFiniteSet(Parent) /\ IsFiniteSet(Desk)
    /\ Fees \notin Row /\ Nobody \notin Job /\ Replica \cap Desk = {}
    /\ Poison \subseteq Row /\ Phone \subseteq Parent
ASSUME AudienceAssumption ==
    /\ Audience \in [About -> SUBSET Parent]
    /\ Channel \in [About -> SUBSET {"app", "mail", "sms"}]
ASSUME LimitAssumption == BATCH_SIZE \in Nat \ {0} /\ SMS_DAILY_LIMIT \in Nat \ {0} /\ MaxFaults \in Nat

VARIABLES
    row,        \* the queue
    posts,      \* notifications rows per queued row and parent (those of reminders are not counted)
    mailed,     \* <<row, parent>> handed to sendEmail, which sends, queues or logs and never throws
    texts,      \* texts Termii accepted today, per parent
    logged,     \* notification_logs rows 'sent' of today, per parent
    lock,       \* advisory locks of the two jobs
    recent,     \* FEE_REMINDERS_RUN was audited within the hour
    run,
    faults

vars == <<row, posts, mailed, texts, logged, lock, recent, run, faults>>
told == <<posts, mailed, texts, logged>>

LeastOf(S) == CHOOSE n \in S : \A m \in S : n <= m

\* SELECT ... WHERE processed_at IS NULL ORDER BY created_at LIMIT BATCH_SIZE
Waiting == {r \in Row : row[r] = "waiting"}
Batch == {r \in Waiting : Cardinality({q \in Waiting : q < r}) < BATCH_SIZE}

Idle == [pc |-> "idle", batch |-> {}, row |-> Fees, left |-> {}]
Step == {"idle", "batch", "rows", "post", "mail", "limit", "text", "log", "mark", "unlock"}
Run == [pc : Step, batch : SUBSET Row, row : About, left : SUBSET Parent]

Init ==
    /\ row = [r \in Row |-> "unwritten"]
    /\ posts = [r \in Row |-> [p \in Parent |-> 0]]
    /\ mailed = {}
    /\ texts = [p \in Parent |-> 0] /\ logged = [p \in Parent |-> 0]
    /\ lock = [job \in {"worker", "weekly"} |-> Nobody]
    /\ recent = FALSE
    /\ run = [j \in Job |-> Idle]
    /\ faults = 0

Who(j) == LeastOf(run[j].left)
Goto(j, pc) == run' = [run EXCEPT ![j].pc = pc]
Turn(j, r) == run' = [run EXCEPT ![j] = r]
Fault == faults < MaxFaults /\ faults' = faults + 1

\* The next parent, or the end of the list.
Ahead(t, left) == [t EXCEPT !.left = left, !.pc = IF left = {} THEN "mark" ELSE "post"]
NextParent(j) == Turn(j, Ahead(run[j], run[j].left \ {Who(j)}))

\* The row is over for this run: the worker takes the next of its batch, a reminder is done.
RowOver(j) ==
    Turn(j, [run[j] EXCEPT !.pc = IF j \in Replica THEN "rows" ELSE "unlock", !.left = {}])

-----------------------------------------------------------------------------
\* logAudit of a PARENT_NOTIFICATION_QUEUED row: attendance, behaviour, published results.
Queue(r) ==
    /\ row[r] = "unwritten"
    /\ row' = [row EXCEPT ![r] = "waiting"]
    /\ UNCHANGED <<told, lock, recent, run, faults>>

\* Mutant: the tick does not ask for the lock.
TickUnlocked(w) ==
    /\ run[w].pc = "idle"
    /\ lock' = [lock EXCEPT !["worker"] = w]
    /\ Goto(w, "batch")
    /\ UNCHANGED <<row, told, recent, faults>>

\* runExclusive('notification-worker'): a replica that cannot take the lock skips the tick.
Tick(w) ==
    /\ run[w].pc = "idle"
    /\ lock["worker"] = Nobody
    /\ lock' = [lock EXCEPT !["worker"] = w]
    /\ Goto(w, "batch")
    /\ UNCHANGED <<row, told, recent, faults>>

ReadBatch(w) ==
    /\ run[w].pc = "batch"
    /\ Turn(w, [run[w] EXCEPT !.pc = "rows", !.batch = Batch])
    /\ UNCHANGED <<row, told, lock, recent, faults>>

\* processRow reads the recipients and the channels; a row it cannot read is left for the next tick.
OpenRow(w) ==
    /\ run[w].pc = "rows" /\ run[w].batch # {}
    /\ LET r == LeastOf(run[w].batch)
           rest == run[w].batch \ {r}
           parents == IF row[r] = "gone" THEN {} ELSE Audience[r]
       IN  Turn(w, IF r \in Poison THEN [run[w] EXCEPT !.batch = rest]
                   ELSE Ahead([run[w] EXCEPT !.batch = rest, !.row = r], parents))
    /\ UNCHANGED <<row, told, lock, recent, faults>>

\* UPDATE audit_logs SET processed_at: the column is write-once, so a row another run stamped
\* raises, and that is caught as any failing row is.
Mark(w) ==
    /\ w \in Replica /\ run[w].pc = "mark"
    /\ row' = [row EXCEPT ![run[w].row] = IF @ = "waiting" THEN "processed" ELSE @]
    /\ RowOver(w)
    /\ UNCHANGED <<told, lock, recent, faults>>

\* Mutant: the lock is kept.
EndBatchLocked(w) ==
    /\ run[w].pc = "rows" /\ run[w].batch = {}
    /\ Turn(w, Idle)
    /\ UNCHANGED <<row, told, lock, recent, faults>>

\* The batch is over: pg_advisory_unlock, which frees the lock only if this session still has it.
EndBatch(w) ==
    /\ run[w].pc = "rows" /\ run[w].batch = {}
    /\ lock' = [lock EXCEPT !["worker"] = IF @ = w THEN Nobody ELSE @]
    /\ Turn(w, Idle)
    /\ UNCHANGED <<row, told, recent, faults>>

-----------------------------------------------------------------------------
\* POST fee-reminders/run: the check and the audit row are one transaction under a lock.
RemindNow(d) ==
    /\ run[d].pc = "idle" /\ ~recent
    /\ recent' = TRUE
    /\ Turn(d, Ahead(Idle, Audience[Fees]))
    /\ UNCHANGED <<row, told, lock, faults>>

\* Mondays at 08:00, on the replica that takes the lock.
RemindWeekly(d) ==
    /\ run[d].pc = "idle" /\ lock["weekly"] = Nobody
    /\ lock' = [lock EXCEPT !["weekly"] = d]
    /\ Turn(d, Ahead(Idle, Audience[Fees]))
    /\ UNCHANGED <<row, told, recent, faults>>

EndReminders(d) ==
    /\ d \in Desk /\ run[d].pc \in {"mark", "unlock"}
    /\ lock' = [lock EXCEPT !["weekly"] = IF @ = d THEN Nobody ELSE @]
    /\ Turn(d, Idle)
    /\ UNCHANGED <<row, told, recent, faults>>

-----------------------------------------------------------------------------
\* createNotification; of a school that was deleted meanwhile the parent is gone and it fails.
Post(j) ==
    /\ run[j].pc = "post"
    /\ LET r == run[j].row
       IN  IF r \in Row /\ row[r] = "gone"
           THEN RowOver(j) /\ UNCHANGED posts
           ELSE /\ posts' = IF r \in Row /\ "app" \in Channel[r] THEN [posts EXCEPT ![r][Who(j)] = @ + 1] ELSE posts
                /\ Goto(j, "mail")
    /\ UNCHANGED <<row, mailed, texts, logged, lock, recent, faults>>

\* sendEmail never throws; then the text, for a parent with a phone.
Mail(j) ==
    /\ run[j].pc = "mail"
    /\ LET r == run[j].row
       IN  /\ mailed' = IF r \in Row /\ "mail" \in Channel[r] THEN mailed \cup {<<r, Who(j)>>} ELSE mailed
           /\ IF Who(j) \in Phone /\ "sms" \in Channel[r] THEN Goto(j, "limit") ELSE NextParent(j)
    /\ UNCHANGED <<row, posts, texts, logged, lock, recent, faults>>

\* Mutant: one more than the limit.
LimitPlusOne(j) ==
    /\ run[j].pc = "limit"
    /\ IF logged[Who(j)] > SMS_DAILY_LIMIT THEN NextParent(j) ELSE Goto(j, "text")
    /\ UNCHANGED <<row, told, lock, recent, faults>>

\* hasReachedSmsLimit: a parent at the limit gets a 'throttled' log row and no text.
Limit(j) ==
    /\ run[j].pc = "limit"
    /\ IF logged[Who(j)] >= SMS_DAILY_LIMIT THEN NextParent(j) ELSE Goto(j, "text")
    /\ UNCHANGED <<row, told, lock, recent, faults>>

\* sendTermiiSms: Termii takes it, or does not and the log row says 'failed'.
Text(j) ==
    /\ run[j].pc = "text"
    /\ \/ texts' = [texts EXCEPT ![Who(j)] = @ + 1] /\ Goto(j, "log")
       \/ NextParent(j) /\ UNCHANGED texts
    /\ UNCHANGED <<row, posts, mailed, logged, lock, recent, faults>>

\* insertNotificationLog of a text that went.
Log(j) ==
    /\ run[j].pc = "log"
    /\ logged' = [logged EXCEPT ![Who(j)] = @ + 1]
    /\ NextParent(j)
    /\ UNCHANGED <<row, posts, mailed, texts, lock, recent, faults>>

-----------------------------------------------------------------------------
\* Mutant: the row is stamped whether or not its parents could be told (a finally).
ThrowStamped(j) ==
    /\ run[j].pc \in {"post", "limit", "log", "mark"}
    /\ Fault
    /\ row' = IF run[j].row \in Row THEN [row EXCEPT ![run[j].row] = "processed"] ELSE row
    /\ RowOver(j)
    /\ UNCHANGED <<told, lock, recent>>

\* A statement fails: the worker logs it and goes on with the next row; a reminder ends.
Throw(j) ==
    /\ run[j].pc \in {"post", "limit", "log", "mark"}
    /\ Fault
    /\ RowOver(j)
    /\ UNCHANGED <<row, told, lock, recent>>

\* Termii takes the text and its answer is lost: the log row says 'failed'.
AnswerLost(j) ==
    /\ run[j].pc = "text"
    /\ Fault
    /\ texts' = [texts EXCEPT ![Who(j)] = @ + 1]
    /\ NextParent(j)
    /\ UNCHANGED <<row, posts, mailed, logged, lock, recent>>

\* The process dies: its session ends and its lock is free.
Crash(j) ==
    /\ run[j].pc # "idle"
    /\ Fault
    /\ lock' = [job \in DOMAIN lock |-> IF lock[job] = j THEN Nobody ELSE lock[job]]
    /\ Turn(j, Idle)
    /\ UNCHANGED <<row, told, recent>>

\* The idle connection that holds the lock drops; the run, on other connections, goes on.
DropSession(job) ==
    /\ lock[job] # Nobody
    /\ Fault
    /\ lock' = [lock EXCEPT ![job] = Nobody]
    /\ UNCHANGED <<row, told, recent, run>>

\* scripts/delete-school-data.js may purge a school's rows in the middle of a run.
Purge(r) ==
    /\ row[r] = "waiting"
    /\ row' = [row EXCEPT ![r] = "gone"]
    /\ UNCHANGED <<told, lock, recent, run, faults>>

Hour == recent /\ recent' = FALSE /\ UNCHANGED <<row, told, lock, run, faults>>

TellStep(j) == Post(j) \/ Mail(j) \/ Limit(j) \/ Text(j) \/ Log(j)
WorkStep(w) == ReadBatch(w) \/ OpenRow(w) \/ TellStep(w) \/ Mark(w) \/ EndBatch(w)

Next ==
    \/ \E r \in Row : Queue(r) \/ Purge(r)
    \/ \E w \in Replica : Tick(w) \/ WorkStep(w)
    \/ \E d \in Desk : RemindNow(d) \/ RemindWeekly(d) \/ TellStep(d) \/ EndReminders(d)
    \/ \E j \in Job : Throw(j) \/ AnswerLost(j) \/ Crash(j)
    \/ \E job \in {"worker", "weekly"} : DropSession(job)
    \/ Hour

SafeSpec == Init /\ [][Next]_vars

\* setInterval ticks for as long as a replica is up, and a run does not hang.
Spec == SafeSpec /\ WF_vars(\E w \in Replica : Tick(w)) /\ (\A w \in Replica : WF_vars(WorkStep(w)))

-----------------------------------------------------------------------------
\* A run tells a parent that is still on its list, of a row only a worker works on.
RunOK(j) ==
    /\ run[j].pc \in {"post", "mail", "limit", "text", "log"} => run[j].left # {}
    /\ run[j].pc \in {"post", "mail", "limit", "text", "log", "mark"} => (run[j].row \in Row <=> j \in Replica)

NoticesTypeOK ==
    /\ row \in [Row -> {"unwritten", "waiting", "processed", "gone"}]
    /\ posts \in [Row -> [Parent -> Nat]]
    /\ mailed \subseteq Row \X Parent
    /\ texts \in [Parent -> Nat] /\ logged \in [Parent -> Nat]
    /\ lock \in [{"worker", "weekly"} -> Job \cup {Nobody}]
    /\ \A job \in DOMAIN lock : lock[job] # Nobody => run[lock[job]].pc # "idle"
    /\ recent \in BOOLEAN
    /\ run \in [Job -> Run] /\ \A j \in Job : RunOK(j)
    /\ faults \in 0..MaxFaults

(***************************************************************************)
(* A parent is told of one row again only after a fault: never because two *)
(* replicas tick together, or a tick comes before the last one ended.      *)
(***************************************************************************)
RepeatsAreFaults == \A r \in Row, p \in Parent : posts[r][p] <= 1 + faults

(***************************************************************************)
(* The limit of texts a day is read before the text goes and counted after *)
(* it went, by runs that do not know of each other: what a parent can get  *)
(* beyond it is one text for every run of the reminders, beside the worker *)
(* that has the lock, and one for every fault.                             *)
(***************************************************************************)
TextsWithinLimit ==
    \A p \in Parent : texts[p] <= SMS_DAILY_LIMIT + Cardinality(Desk) + faults

\* A parent was told of r by every channel that does not depend on the phone.
Knows(r, p) ==
    /\ "app" \in Channel[r] => posts[r][p] > 0
    /\ "mail" \in Channel[r] => <<r, p>> \in mailed

Reachable(r) == IF Channel[r] \cap {"app", "mail"} = {} THEN {} ELSE Audience[r]

\* The queue and the parents told, as the delivery specification sees them.
Stage(status) ==
    CASE status = "unwritten" -> "unwritten" [] status = "waiting" -> "open"
      [] status = "processed" -> "closed" [] OTHER -> "dropped"
Stages == [r \in Row |-> Stage(row[r])]
Reached == {m \in Row \X Parent : m[2] \in Reachable(m[1]) /\ Knows(m[1], m[2])}

Delivery == INSTANCE NoticeDelivery WITH
    Notice <- Row, Owed <- [r \in Row |-> Reachable(r)], Healthy <- Row \ Poison,
    notice <- Stages, told <- Reached

\* Every queued notice reaches all its parents before it is stamped, and is stamped in the end.
ImplementsDelivery == Delivery!DeliverySpec
=============================================================================
