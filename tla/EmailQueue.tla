----------------------------- MODULE EmailQueue -----------------------------
(***************************************************************************)
(* The email queue: what becomes of an email that SendGrid refuses         *)
(* (services/emailService.ts), the job that tries it again every half hour *)
(* on one replica at a time (services/emailQueueService.ts) and the daily  *)
(* job that deletes rows older than a week, whatever their status.         *)
(*                                                                         *)
(* A send that SendGrid took but whose answer was lost looks refused. That *)
(* and a failing statement (rolled back, or committed with its answer      *)
(* lost), a crash, and a lock lost with its connection are faults, and     *)
(* MaxFaults bounds them. A row is old when a week has passed over it; the *)
(* clock is left out, so any row may become old.                           *)
(***************************************************************************)
EXTENDS Naturals

CONSTANTS
    Email,          \* numbered in the order of the rows' created_at
    Replica,
    Nobody,
    MAX_ATTEMPTS,
    MaxFaults

ASSUME QueueAssumption ==
    /\ Email \subseteq Nat /\ Nobody \notin Replica
    /\ MAX_ATTEMPTS \in Nat /\ MAX_ATTEMPTS > 1 /\ MaxFaults \in Nat

VARIABLES
    email,      \* the email_queue row of each email, and what came of it before it had one
    accepted,   \* how often SendGrid took it
    lock,       \* advisory lock of the retry job
    job,        \* the retry job of each replica: the rows it read, with the attempts it read
    faults

mailVars == <<email, accepted, lock, job, faults>>

NoRow == {"unsent", "refused", "delivered", "lost", "purged"}
InQueue == {"pending", "sent", "failed"}
QueueRow == [status : NoRow \cup InQueue, attempts : Nat, old : BOOLEAN]

Idle == [pc |-> "idle", batch |-> {}, attempts |-> [m \in Email |-> 0]]
JobState == [pc : {"idle", "next", "mark", "count"}, batch : SUBSET Email, attempts : [Email -> Nat]]

MailInit ==
    /\ email = [m \in Email |-> [status |-> "unsent", attempts |-> 0, old |-> FALSE]]
    /\ accepted = [m \in Email |-> 0]
    /\ lock = Nobody
    /\ job = [w \in Replica |-> Idle]
    /\ faults = 0

First(w) == CHOOSE m \in job[w].batch : \A n \in job[w].batch : m <= n
Pending == {m \in Email : email[m].status = "pending" /\ email[m].attempts < MAX_ATTEMPTS}
Taken(m) == accepted' = [accepted EXCEPT ![m] = @ + 1]
Fault == faults < MaxFaults /\ faults' = faults + 1
Queued(m) == email[m].status \in InQueue
Unlock(w) == lock' = IF lock = w THEN Nobody ELSE lock
Become(m, status) == email' = [email EXCEPT ![m].status = status]

-----------------------------------------------------------------------------
\* sendEmail: SendGrid takes it, or refuses it, or takes it and the answer is lost.
Send(m) ==
    /\ email[m].status = "unsent"
    /\ \/ Taken(m) /\ Become(m, "delivered") /\ UNCHANGED faults
       \/ UNCHANGED accepted /\ Become(m, "refused") /\ UNCHANGED faults
       \/ Taken(m) /\ Become(m, "refused") /\ Fault
    /\ UNCHANGED <<lock, job>>

\* enqueueEmail counts the send that was refused; when it fails, or the process dies, the mail is gone.
Enqueue(m) ==
    /\ email[m].status = "refused"
    /\ \/ email' = [email EXCEPT ![m].status = "pending", ![m].attempts = 1] /\ UNCHANGED faults
       \/ Become(m, "lost") /\ Fault
    /\ UNCHANGED <<accepted, lock, job>>

-----------------------------------------------------------------------------
\* Mutant: no lock.
TickUnlocked(w) ==
    /\ job[w].pc = "idle"
    /\ lock' = w
    /\ job' = [job EXCEPT ![w] = [pc |-> "next", batch |-> Pending, attempts |-> [m \in Email |-> email[m].attempts]]]
    /\ UNCHANGED <<email, accepted, faults>>

\* runExclusive('email-queue-retry') and getPendingEmails.
Tick(w) ==
    /\ job[w].pc = "idle" /\ lock = Nobody
    /\ lock' = w
    /\ job' = [job EXCEPT ![w] = [pc |-> "next", batch |-> Pending, attempts |-> [m \in Email |-> email[m].attempts]]]
    /\ UNCHANGED <<email, accepted, faults>>

Resend(w) ==
    /\ job[w].pc = "next" /\ job[w].batch # {}
    /\ \/ Taken(First(w)) /\ job' = [job EXCEPT ![w].pc = "mark"] /\ UNCHANGED faults
       \/ UNCHANGED accepted /\ job' = [job EXCEPT ![w].pc = "count"] /\ UNCHANGED faults
       \/ Taken(First(w)) /\ job' = [job EXCEPT ![w].pc = "count"] /\ Fault
    /\ UNCHANGED <<email, lock>>

NextEmail(w) == job' = [job EXCEPT ![w].pc = "next", ![w].batch = @ \ {First(w)}]

\* markEmailSent; a row retention took meanwhile is not written.
MarkSent(w) ==
    /\ job[w].pc = "mark"
    /\ IF Queued(First(w)) THEN Become(First(w), "sent") ELSE UNCHANGED email
    /\ NextEmail(w)
    /\ UNCHANGED <<accepted, lock, faults>>

\* markEmailSent fails inside the try: the email that went is counted as one that did not.
MarkSentFails(w) ==
    /\ job[w].pc = "mark"
    /\ Fault
    /\ \/ UNCHANGED email
       \/ Queued(First(w)) /\ Become(First(w), "sent")
    /\ job' = [job EXCEPT ![w].pc = "count"]
    /\ UNCHANGED <<accepted, lock>>

\* Mutant: one attempt more than the query that picks the rows will ever give.
TriedOnceMore(w) ==
    LET m == First(w) n == job[w].attempts[m] + 1
    IN  IF Queued(m)
        THEN email' = [email EXCEPT ![m].attempts = n, ![m].status = IF n > MAX_ATTEMPTS THEN "failed" ELSE "pending"]
        ELSE UNCHANGED email

\* markEmailRetryFailed writes the attempts the run read plus one, and gives up at MAX_ATTEMPTS.
Tried(w) ==
    LET m == First(w) n == job[w].attempts[m] + 1
    IN  IF Queued(m)
        THEN email' = [email EXCEPT ![m].attempts = n, ![m].status = IF n >= MAX_ATTEMPTS THEN "failed" ELSE "pending"]
        ELSE UNCHANGED email

CountAttempt(w) ==
    /\ job[w].pc = "count"
    /\ Tried(w)
    /\ NextEmail(w)
    /\ UNCHANGED <<accepted, lock, faults>>

\* It fails in its turn: the run is over, the emails after this one wait for the next tick.
CountFails(w) ==
    /\ job[w].pc = "count"
    /\ Fault
    /\ Tried(w) \/ UNCHANGED email
    /\ job' = [job EXCEPT ![w] = Idle]
    /\ Unlock(w)
    /\ UNCHANGED accepted

\* Mutant: the lock is kept.
EndRunLocked(w) ==
    /\ job[w].pc = "next" /\ job[w].batch = {}
    /\ job' = [job EXCEPT ![w] = Idle]
    /\ UNCHANGED <<email, accepted, faults, lock>>

EndRun(w) ==
    /\ job[w].pc = "next" /\ job[w].batch = {}
    /\ job' = [job EXCEPT ![w] = Idle]
    /\ Unlock(w)
    /\ UNCHANGED <<email, accepted, faults>>

Crash(w) ==
    /\ job[w].pc # "idle"
    /\ Fault
    /\ job' = [job EXCEPT ![w] = Idle]
    /\ Unlock(w)
    /\ UNCHANGED <<email, accepted>>

\* The connection that holds the lock drops while the run goes on.
DropSession ==
    /\ lock # Nobody
    /\ Fault
    /\ lock' = Nobody
    /\ UNCHANGED <<email, accepted, job>>

-----------------------------------------------------------------------------
Week(m) ==
    /\ Queued(m) /\ ~email[m].old
    /\ email' = [email EXCEPT ![m].old = TRUE]
    /\ UNCHANGED <<accepted, lock, job, faults>>

\* deleteQueuedEmailsOlderThan: one DELETE, under a lock of its own.
Retention ==
    /\ \E m \in Email : Queued(m) /\ email[m].old
    /\ email' = [m \in Email |->
                    IF Queued(m) /\ email[m].old THEN [email[m] EXCEPT !.status = "purged"] ELSE email[m]]
    /\ UNCHANGED <<accepted, lock, job, faults>>

JobStep(w) == Resend(w) \/ MarkSent(w) \/ CountAttempt(w) \/ EndRun(w)

MailNext ==
    \/ \E m \in Email : Send(m) \/ Enqueue(m) \/ Week(m)
    \/ \E w \in Replica : Tick(w) \/ JobStep(w) \/ MarkSentFails(w) \/ CountFails(w) \/ Crash(w)
    \/ DropSession \/ Retention

\* The schedule fires for as long as a replica is up, and a run does not hang.
MailSpec ==
    /\ MailInit /\ [][MailNext]_mailVars
    /\ WF_mailVars(\E w \in Replica : Tick(w)) /\ (\A w \in Replica : WF_mailVars(JobStep(w)))

-----------------------------------------------------------------------------
MailTypeOK ==
    /\ email \in [Email -> QueueRow]
    /\ accepted \in [Email -> Nat]
    /\ lock \in Replica \cup {Nobody} /\ (lock # Nobody => job[lock].pc # "idle")
    /\ job \in [Replica -> JobState]
    /\ \A w \in Replica : job[w].pc \in {"mark", "count"} => job[w].batch # {}
    /\ faults \in 0..MaxFaults

\* SendGrid takes an email twice only after a fault between the send and the row.
ResendsAreFaults == \A m \in Email : accepted[m] <= 1 + faults

\* A queued email is sent, given up, or swept away: none is retried for ever or left out.
EveryMailSettles == \A m \in Email : email[m].status = "pending" ~> email[m].status # "pending"
=============================================================================
