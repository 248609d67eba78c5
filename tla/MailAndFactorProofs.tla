------------------------ MODULE MailAndFactorProofs ------------------------
(***************************************************************************)
(* Two components that share no state, proved about side by side: the      *)
(* email retry queue (EmailQueue), of which MailInv is the inductive       *)
(* invariant, and the administrators' second factor (SecondFactor), of     *)
(* which FactorInv is.                                                     *)
(*                                                                         *)
(* The accounts of EmailQueue: of every email one send is due, or went,    *)
(* and every further one, sent or still to be sent by a run that lost the  *)
(* lock, was paid for by a fault.                                          *)
(***************************************************************************)
EXTENDS EmailQueue, SecondFactor, FiniteSetTheorems, WellFoundedInduction, TLAPS

\* The run of w will still send m, or write its row open again.
Left(w, m) == m \in job[w].batch /\ ~(job[w].pc = "mark" /\ First(w) = m)

\* Runs that lost the lock and still have m.
Loose(m) == {w \in Replica : lock # w /\ Left(w, m)}

RowOpen(m) == email[m].status \in {"unsent", "refused", "pending"}

\* One send is due of an email whose row is open or that the run with the lock has, until it went.
Due(m) ==
    IF \/ lock # Nobody /\ Left(lock, m)
       \/ RowOpen(m) /\ ~(lock # Nobody /\ m \in job[lock].batch)
    THEN 1 ELSE 0

BatchesFit ==
    \A w \in Replica :
        /\ job[w].pc = "idle" => job[w].batch = {}
        /\ \A m \in job[w].batch : email[m].status \notin {"unsent", "refused"}

Paid(m) == IsFiniteSet(Loose(m)) /\ accepted[m] + Due(m) + Cardinality(Loose(m)) <= 1 + faults
SendsPaid == \A m \in Email : Paid(m)

MailInv == MailTypeOK /\ BatchesFit /\ SendsPaid

-----------------------------------------------------------------------------
\* The mail a run turns to, the least of its batch, is in the batch.
LEMMA LeastEmail ==
    ASSUME NEW S, S \subseteq Nat, S # {}
    PROVE  (CHOOSE m \in S : \A n \in S : m <= n) \in S
<1>1. IsWellFoundedOn(OpToRel(<, Nat), Nat)
  BY NatLessThanWellFounded
<1>2. PICK x \in S : \A y \in S : ~ (<<y, x>> \in OpToRel(<, Nat))
  BY <1>1, WFMin
<1>3. \A y \in S : y \in Nat /\ x \in Nat /\ ~ (y < x)
  BY <1>2 DEF OpToRel
<1>4. \A y \in S : x <= y
  BY <1>3
<1> QED
  BY <1>4

\* The fields of a run.
LEMMA JobTyped ==
    ASSUME MailTypeOK, NEW w \in Replica
    PROVE  /\ job[w] \in JobState /\ job[w].pc \in {"idle", "next", "mark", "count"}
           /\ job[w].batch \subseteq Email /\ job[w].attempts \in [Email -> Nat]
  BY DEF MailTypeOK, JobState

\* The mail at the head of a batch is a mail.
LEMMA FirstTyped ==
    ASSUME MailTypeOK, NEW w \in Replica, job[w].batch # {}
    PROVE  First(w) \in job[w].batch /\ First(w) \in Email
<1>1. job[w].batch \subseteq Nat
  BY JobTyped, QueueAssumption
<1> QED
  BY <1>1, LeastEmail, JobTyped DEF First

\* A replica without a run has a typed state.
LEMMA IdleTyped == Idle \in JobState /\ Idle.pc = "idle" /\ Idle.batch = {}
  BY DEF Idle, JobState

\* The run of w becomes n, the others stay.
LEMMA OneRun ==
    ASSUME MailTypeOK, NEW w \in Replica, NEW n \in JobState, job' = [job EXCEPT ![w] = n]
    PROVE  /\ job' \in [Replica -> JobState] /\ job'[w] = n
           /\ \A v \in Replica \ {w} : job'[v] = job[v]
  BY DEF MailTypeOK

Only(w) == job' \in [Replica -> JobState] /\ \A v \in Replica \ {w} : job'[v] = job[v]

\* A run that only moves to its next statement keeps its batch.
LEMMA Walks ==
    ASSUME MailTypeOK, NEW w \in Replica, NEW pc \in {"next", "mark", "count"}, job' = [job EXCEPT ![w].pc = pc]
    PROVE  Only(w) /\ job'[w] = [job[w] EXCEPT !.pc = pc] /\ job'[w].pc = pc /\ job'[w].batch = job[w].batch
<1> DEFINE n == [job[w] EXCEPT !.pc = pc]
<1>1. n \in JobState /\ n.pc = pc /\ n.batch = job[w].batch
  BY JobTyped DEF JobState
<1>2. job' = [job EXCEPT ![w] = n]
  OBVIOUS
<1> HIDE DEF n
<1>3. Only(w) /\ job'[w] = n
  BY <1>1, <1>2, OneRun DEF Only
<1> QED
  BY <1>1, <1>3 DEF n

\* A run done with a mail goes on without it.
LEMMA Drops ==
    ASSUME MailTypeOK, NEW w \in Replica, NextEmail(w)
    PROVE  Only(w) /\ job'[w].pc = "next" /\ job'[w].batch = job[w].batch \ {First(w)}
<1> DEFINE n == [job[w] EXCEPT !.pc = "next", !.batch = job[w].batch \ {First(w)}]
<1>1. n \in JobState /\ n.pc = "next" /\ n.batch = job[w].batch \ {First(w)}
  BY JobTyped DEF JobState
<1>2. job' = [job EXCEPT ![w] = n]
  BY DEF NextEmail, MailTypeOK
<1> HIDE DEF n
<1>3. Only(w) /\ job'[w] = n
  BY <1>1, <1>2, OneRun DEF Only
<1> QED
  BY <1>1, <1>3

\* A run that ends leaves nothing in hand.
LEMMA Rests ==
    ASSUME MailTypeOK, NEW w \in Replica, job' = [job EXCEPT ![w] = Idle]
    PROVE  Only(w) /\ job'[w].pc = "idle" /\ job'[w].batch = {}
  BY IdleTyped, OneRun DEF Only

\* What the runs that do not move have left stays.
LEMMA LeftStays ==
    ASSUME NEW w \in Replica, Only(w), NEW v \in Replica, v # w, NEW m
    PROVE  Left(v, m)' = Left(v, m)
<1>1. job'[v] = job[v]
  BY DEF Only
<1>2. First(v)' = First(v)
  BY <1>1 DEF First
<1> QED
  BY <1>1, <1>2 DEF Left

\* A part of a finite set is no larger.
LEMMA Fewer ==
    ASSUME NEW S, IsFiniteSet(S), NEW T, T \subseteq S
    PROVE  IsFiniteSet(T) /\ Cardinality(T) \in Nat /\ Cardinality(S) \in Nat /\ Cardinality(T) <= Cardinality(S)
  BY FS_Subset, FS_CardinalityType

\* A part without one of the members is smaller by at least one.
LEMMA OneFewer ==
    ASSUME NEW S, IsFiniteSet(S), NEW T, NEW w \in S, T \subseteq S \ {w}
    PROVE  Cardinality(T) + 1 <= Cardinality(S)
<1>1. IsFiniteSet(S \ {w}) /\ Cardinality(S \ {w}) = Cardinality(S) - 1
  BY FS_RemoveElement
<1>2. Cardinality(T) \in Nat /\ Cardinality(T) <= Cardinality(S \ {w}) /\ Cardinality(S) \in Nat
  BY <1>1, Fewer, FS_CardinalityType
<1> QED
  BY <1>1, <1>2

\* One more member makes a set larger by at most one.
LEMMA OneMore ==
    ASSUME NEW S, IsFiniteSet(S), NEW T, NEW w, T \subseteq S \cup {w}
    PROVE  IsFiniteSet(T) /\ Cardinality(T) \in Nat /\ Cardinality(T) <= Cardinality(S) + 1
<1>0. Cardinality(S) \in Nat
  BY FS_CardinalityType
<1>1. IsFiniteSet(S \cup {w}) /\ Cardinality(S \cup {w}) <= Cardinality(S) + 1
  <2>1. IsFiniteSet(S \cup {w}) /\ (Cardinality(S \cup {w}) = Cardinality(S) \/ Cardinality(S \cup {w}) = Cardinality(S) + 1)
    BY FS_AddElement
  <2> QED
    BY <1>0, <2>1
<1>2. IsFiniteSet(T) /\ Cardinality(T) \in Nat /\ Cardinality(S \cup {w}) \in Nat
      /\ Cardinality(T) <= Cardinality(S \cup {w})
  BY <1>1, Fewer
<1> QED
  BY <1>0, <1>1, <1>2

-----------------------------------------------------------------------------
\* What a step of the run of w, which keeps the lock where it is, does to the runs without it.
LEMMA LooseAfter ==
    ASSUME NEW w \in Replica, Only(w), lock' = lock, NEW m, IsFiniteSet(Loose(m))
    PROVE  /\ IsFiniteSet(Loose(m)') /\ Cardinality(Loose(m)') \in Nat /\ Cardinality(Loose(m)) \in Nat
           /\ (lock = w \/ (Left(w, m)' => Left(w, m))) => Cardinality(Loose(m)') <= Cardinality(Loose(m))
           /\ lock # w /\ Left(w, m) /\ ~Left(w, m)' => Cardinality(Loose(m)') + 1 <= Cardinality(Loose(m))
           /\ Cardinality(Loose(m)') <= Cardinality(Loose(m)) + 1
<1>1. \A v \in Replica : v # w => (v \in Loose(m)' <=> v \in Loose(m))
  BY LeftStays DEF Loose
<1>2. (w \in Loose(m)' <=> lock # w /\ Left(w, m)') /\ (w \in Loose(m) <=> lock # w /\ Left(w, m))
  BY DEF Loose
<1>3. Loose(m)' \subseteq Replica /\ Loose(m) \subseteq Replica
  BY DEF Loose
<1>4. PICK T : T = Loose(m)'
  OBVIOUS
<1>5. PICK S : S = Loose(m)
  OBVIOUS
<1>6. T \subseteq S \cup {w}
  BY <1>1, <1>3, <1>4, <1>5
<1>7. ASSUME lock = w \/ (Left(w, m)' => Left(w, m)) PROVE Cardinality(T) <= Cardinality(S)
  <2>1. T \subseteq S
    BY <1>1, <1>2, <1>3, <1>4, <1>5, <1>7
  <2> QED
    BY <1>5, <2>1, Fewer
<1>8. ASSUME lock # w, Left(w, m), ~Left(w, m)' PROVE Cardinality(T) + 1 <= Cardinality(S)
  <2>1. w \in S /\ T \subseteq S \ {w}
    BY <1>1, <1>2, <1>3, <1>4, <1>5, <1>8
  <2> QED
    BY <1>5, <2>1, OneFewer
<1>9. IsFiniteSet(T) /\ Cardinality(T) \in Nat /\ Cardinality(S) \in Nat /\ Cardinality(T) <= Cardinality(S) + 1
  BY <1>5, <1>6, OneMore, FS_CardinalityType
<1> QED
  BY <1>4, <1>5, <1>7, <1>8, <1>9

\* A mail is due once or not at all.
LEMMA DueBounds == \A m : Due(m) \in {0, 1} /\ Due(m)' \in {0, 1}
  BY DEF Due

\* The same of the send that is due.
LEMMA DueAfter ==
    ASSUME MailTypeOK, NEW w \in Replica, Only(w), lock' = lock, NEW m
    PROVE  /\ lock # w /\ (RowOpen(m)' => RowOpen(m)) => Due(m)' <= Due(m)
           /\ lock = w /\ (Left(w, m)' <=> Left(w, m)) /\ (m \in job'[w].batch <=> m \in job[w].batch)
                 /\ (RowOpen(m)' => RowOpen(m)) => Due(m)' <= Due(m)
           /\ lock = w /\ m \in job'[w].batch /\ ~Left(w, m)' => Due(m)' = 0
           /\ lock = w /\ ~Left(w, m)' /\ ~RowOpen(m)' => Due(m)' = 0
           /\ lock = w /\ Left(w, m) => Due(m) = 1
<1>0. w # Nobody /\ lock \in Replica \cup {Nobody}
  BY QueueAssumption DEF MailTypeOK
<1>1. ASSUME lock # w, RowOpen(m)' => RowOpen(m) PROVE Due(m)' <= Due(m)
  <2>1. CASE lock = Nobody
    BY <1>1, <2>1 DEF Due
  <2>2. CASE lock \in Replica
    <3>1. Left(lock, m)' = Left(lock, m) /\ job'[lock] = job[lock]
      <4>1. PICK v \in Replica : v = lock /\ v # w
        BY <1>1, <2>2
      <4>2. Left(v, m)' = Left(v, m) /\ job'[v] = job[v]
        BY <4>1, LeftStays DEF Only
      <4>3. First(v)' = First(lock)' /\ First(v) = First(lock) /\ lock' = v
        BY <4>1 DEF First
      <4> QED
        BY <4>1, <4>2, <4>3 DEF Left
    <3> QED
      BY <1>1, <2>2, <3>1 DEF Due
  <2> QED
    BY <1>0, <2>1, <2>2
<1>2. ASSUME lock = w
      PROVE  /\ Due(m) = IF Left(w, m) \/ (RowOpen(m) /\ m \notin job[w].batch) THEN 1 ELSE 0
             /\ Due(m)' = IF Left(w, m)' \/ (RowOpen(m)' /\ m \notin job'[w].batch) THEN 1 ELSE 0
  <2>1. Left(lock, m) = Left(w, m) /\ Left(lock, m)' = Left(w, m)'
    BY <1>2 DEF Left, First
  <2> QED
    BY <1>0, <1>2, <2>1 DEF Due
<1> QED
  BY <1>1, <1>2

\* The terms of the account of one mail are numbers.
LEMMA PaidTyped ==
    ASSUME MailTypeOK, NEW m \in Email, Paid(m)
    PROVE  /\ accepted[m] \in Nat /\ faults \in Nat /\ Due(m) \in {0, 1} /\ Cardinality(Loose(m)) \in Nat
           /\ IsFiniteSet(Loose(m))
  BY DueBounds, FS_CardinalityType, QueueAssumption DEF MailTypeOK, Paid

\* An email that a step of w does not concern stays paid for.
LEMMA Spared ==
    ASSUME MailTypeOK, NEW w \in Replica, Only(w), lock' = lock, NEW m \in Email, Paid(m),
           accepted'[m] = accepted[m], RowOpen(m)' => RowOpen(m), Left(w, m)' <=> Left(w, m),
           m \in job'[w].batch <=> m \in job[w].batch, faults' \in {faults, faults + 1}
    PROVE  Paid(m)'
<1>1. /\ accepted[m] \in Nat /\ faults \in Nat /\ Due(m) \in {0, 1} /\ Cardinality(Loose(m)) \in Nat
      /\ IsFiniteSet(Loose(m))
  BY PaidTyped
<1>2. IsFiniteSet(Loose(m)') /\ Cardinality(Loose(m)') \in Nat /\ Cardinality(Loose(m)') <= Cardinality(Loose(m))
  BY <1>1, LooseAfter
<1>3. Due(m)' \in {0, 1} /\ Due(m)' <= Due(m)
  BY DueAfter, DueBounds
<1> QED
  BY <1>1, <1>2, <1>3 DEF Paid

\* A send pays for itself: it was due, and is due no more unless a fault hid it.
LEMMA ResendPaid ==
    ASSUME MailInv, NEW w \in Replica, Resend(w)
    PROVE  SendsPaid'
<1> SUFFICES ASSUME NEW m \in Email PROVE Paid(m)'
  BY DEF SendsPaid
<1>0. MailTypeOK /\ Paid(m)
  BY DEF MailInv, SendsPaid
<1>1. PICK pc \in {"mark", "count"} : job' = [job EXCEPT ![w].pc = pc]
  BY DEF Resend
<1>2. Only(w) /\ job'[w].pc = pc /\ job'[w].batch = job[w].batch /\ job[w].pc = "next"
  BY <1>0, <1>1, Walks DEF Resend
<1>3. First(w)' = First(w) /\ First(w) \in job[w].batch /\ First(w) \in Email
  BY <1>0, <1>2, FirstTyped DEF First, Resend
<1>4. lock' = lock /\ email' = email /\ RowOpen(m)' = RowOpen(m)
  BY DEF Resend, RowOpen
<1>5. /\ accepted[m] \in Nat /\ faults \in Nat /\ Due(m) \in {0, 1} /\ Cardinality(Loose(m)) \in Nat
      /\ IsFiniteSet(Loose(m))
  BY <1>0, PaidTyped
<1>6. CASE m # First(w)
  <2>1. Left(w, m)' <=> Left(w, m)
    BY <1>2, <1>3, <1>6 DEF Left
  <2>2. accepted'[m] = accepted[m] /\ faults' \in {faults, faults + 1}
    BY <1>0, <1>6 DEF Resend, Taken, Fault, MailTypeOK
  <2> QED
    BY <1>0, <1>2, <1>4, <2>1, <2>2, Spared
<1>7. CASE m = First(w)
  <2>1. Left(w, m)
    BY <1>2, <1>3, <1>7 DEF Left
  <2>2. m \in job'[w].batch /\ (Left(w, m)' <=> pc = "count")
    BY <1>1, <1>2, <1>3, <1>7 DEF Left
  <2>3. \/ accepted'[m] = accepted[m] + 1 /\ pc = "mark" /\ faults' = faults
        \/ accepted'[m] = accepted[m] /\ pc = "count" /\ faults' = faults
        \/ accepted'[m] = accepted[m] + 1 /\ pc = "count" /\ faults' = faults + 1
    <3>1. accepted \in [Email -> Nat] /\ job \in [Replica -> JobState]
      BY <1>0 DEF MailTypeOK
    <3>2. ASSUME job' = [job EXCEPT ![w].pc = "mark"] PROVE pc = "mark"
      BY <1>2, <3>1, <3>2 DEF JobState
    <3>3. ASSUME job' = [job EXCEPT ![w].pc = "count"] PROVE pc = "count"
      BY <1>2, <3>1, <3>3 DEF JobState
    <3> QED
      BY <1>7, <3>1, <3>2, <3>3 DEF Resend, Taken, Fault
  <2>4. Due(m)' \in {0, 1}
    BY DueBounds
  <2>5. CASE lock = w
    <3>1. Due(m) = 1 /\ (pc = "mark" => Due(m)' = 0)
      BY <1>0, <1>2, <1>4, <2>1, <2>2, <2>5, DueAfter
    <3>2. /\ IsFiniteSet(Loose(m)') /\ Cardinality(Loose(m)') \in Nat /\ Cardinality(Loose(m)') <= Cardinality(Loose(m))
      BY <1>2, <1>4, <1>5, <2>5, LooseAfter
    <3> QED
      BY <1>0, <1>5, <2>3, <2>4, <3>1, <3>2 DEF Paid
  <2>6. CASE lock # w
    <3>1. Due(m)' <= Due(m)
      BY <1>0, <1>2, <1>4, <2>6, DueAfter
    <3>2. /\ IsFiniteSet(Loose(m)') /\ Cardinality(Loose(m)') \in Nat /\ Cardinality(Loose(m)') <= Cardinality(Loose(m))
          /\ pc = "mark" => Cardinality(Loose(m)') + 1 <= Cardinality(Loose(m))
      BY <1>2, <1>4, <1>5, <2>1, <2>2, <2>6, LooseAfter
    <3> QED
      BY <1>0, <1>5, <2>3, <2>4, <3>1, <3>2 DEF Paid
  <2> QED
    BY <2>5, <2>6
<1> QED
  BY <1>6, <1>7

\* What the two UPDATEs do to the rows: one row that was queued is written, none is opened but by Tried.
LEMMA RowsWritten ==
    ASSUME MailTypeOK, NEW w \in Replica, job[w].batch # {},
           \/ email' = email \/ (Queued(First(w)) /\ Become(First(w), "sent")) \/ Tried(w)
    PROVE  /\ email' \in [Email -> QueueRow]
           /\ \A m \in Email : m # First(w) => email'[m] = email[m]
           /\ \A m \in Email : email'[m].status \in {"unsent", "refused"} <=> email[m].status \in {"unsent", "refused"}
<1>1. First(w) \in Email /\ job[w].attempts[First(w)] + 1 \in Nat /\ email \in [Email -> QueueRow]
  BY FirstTyped, JobTyped DEF MailTypeOK
<1>2. CASE email' = email
  BY <1>1, <1>2
<1>3. ASSUME Queued(First(w)), NEW row \in QueueRow, email' = [email EXCEPT ![First(w)] = row],
             row.status \in InQueue
      PROVE  /\ email' \in [Email -> QueueRow]
             /\ \A m \in Email : m # First(w) => email'[m] = email[m]
             /\ \A m \in Email : email'[m].status \in {"unsent", "refused"} <=> email[m].status \in {"unsent", "refused"}
  BY <1>1, <1>3 DEF Queued, InQueue
<1>4. CASE Queued(First(w)) /\ Become(First(w), "sent")
  <2> DEFINE row == [email[First(w)] EXCEPT !.status = "sent"]
  <2>1. row \in QueueRow /\ row.status \in InQueue /\ email' = [email EXCEPT ![First(w)] = row]
    BY <1>1, <1>4 DEF Become, QueueRow, InQueue
  <2> HIDE DEF row
  <2> QED
    BY <1>3, <1>4, <2>1
<1>5. CASE Tried(w)
  <2> DEFINE n == job[w].attempts[First(w)] + 1
             status == IF n >= MAX_ATTEMPTS THEN "failed" ELSE "pending"
             row == [email[First(w)] EXCEPT !.attempts = n, !.status = status]
  <2>1. CASE ~Queued(First(w))
    BY <1>2, <1>5, <2>1 DEF Tried
  <2>2. CASE Queued(First(w))
    <3>1. email' = [email EXCEPT ![First(w)].attempts = n, ![First(w)].status = status]
      BY <1>5, <2>2 DEF Tried
    <3>2. n \in Nat /\ status \in InQueue
      BY <1>1 DEF InQueue
    <3> HIDE DEF n, status
    <3>3. row \in QueueRow /\ row.status \in InQueue /\ email' = [email EXCEPT ![First(w)] = row]
      BY <1>1, <3>1, <3>2 DEF QueueRow, InQueue
    <3> HIDE DEF row
    <3> QED
      BY <1>3, <2>2, <3>3
  <2> QED
    BY <2>1, <2>2
<1> QED
  BY <1>2, <1>4, <1>5

\* Marking the row, or counting an attempt, of the email that was tried.
LEMMA WritePaid ==
    ASSUME MailInv, NEW w \in Replica, MarkSent(w) \/ MarkSentFails(w) \/ CountAttempt(w)
    PROVE  SendsPaid'
<1> SUFFICES ASSUME NEW m \in Email PROVE Paid(m)'
  BY DEF SendsPaid
<1>0. MailTypeOK /\ Paid(m) /\ BatchesFit
  BY DEF MailInv, SendsPaid
<1>1. lock' = lock /\ accepted' = accepted /\ job[w].pc \in {"mark", "count"}
  BY DEF MarkSent, MarkSentFails, CountAttempt
<1>2. job[w].batch # {} /\ First(w) \in job[w].batch /\ First(w) \in Email
  BY <1>0, <1>1, FirstTyped DEF MailTypeOK
<1>3. /\ email' \in [Email -> QueueRow]
      /\ \A e \in Email : e # First(w) => email'[e] = email[e]
      /\ \A e \in Email : email'[e].status \in {"unsent", "refused"} <=> email[e].status \in {"unsent", "refused"}
  BY <1>0, <1>2, RowsWritten DEF MarkSent, MarkSentFails, CountAttempt
<1>4. /\ accepted[m] \in Nat /\ faults \in Nat /\ Due(m) \in {0, 1} /\ Cardinality(Loose(m)) \in Nat
      /\ IsFiniteSet(Loose(m)) /\ Due(m)' \in {0, 1}
  BY <1>0, PaidTyped, DueBounds
<1>5. /\ Only(w)
      /\ \/ job'[w].pc = "next" /\ job'[w].batch = job[w].batch \ {First(w)} /\ ~MarkSentFails(w) /\ faults' = faults
         \/ job'[w].pc = "count" /\ job'[w].batch = job[w].batch /\ MarkSentFails(w) /\ faults' = faults + 1
  <2>1. CASE MarkSentFails(w)
    BY <1>0, <2>1, Walks DEF MarkSentFails, Fault
  <2>2. CASE (MarkSent(w) \/ CountAttempt(w)) /\ ~MarkSentFails(w)
    BY <1>0, <2>2, Drops DEF MarkSent, CountAttempt
  <2> QED
    BY <2>1, <2>2
<1>6. CASE m # First(w)
  <2>1. Left(w, m)' <=> m \in job'[w].batch
    BY <1>5 DEF Left
  <2>2. Left(w, m) <=> m \in job[w].batch
    BY <1>6 DEF Left
  <2>3. RowOpen(m)' <=> RowOpen(m)
    BY <1>3, <1>6 DEF RowOpen
  <2>4. m \in job'[w].batch <=> m \in job[w].batch
    BY <1>5, <1>6
  <2> QED
    BY <1>0, <1>1, <1>5, <2>1, <2>2, <2>3, <2>4, Spared
<1>7. CASE m = First(w) /\ MarkSent(w)
  <2>1. ~Left(w, m)
    BY <1>7 DEF Left, MarkSent
  <2>2. ~MarkSentFails(w) => ~Left(w, m)' /\ m \notin job'[w].batch /\ faults' = faults
    BY <1>5, <1>7 DEF Left
  <2>3. ~MarkSentFails(w)
    <3>1. job'[w].pc = "next"
      BY <1>0, <1>7, Drops DEF MarkSent
    <3> QED
      BY <1>5, <3>1
  <2>4. ~RowOpen(m)'
    <3>1. CASE Queued(m)
      BY <1>2, <1>7, <3>1 DEF MarkSent, Become, RowOpen, MailTypeOK, QueueRow, MailInv
    <3>2. CASE ~Queued(m)
      BY <1>0, <1>2, <1>7, <3>2 DEF MarkSent, RowOpen, BatchesFit, Queued, InQueue
    <3> QED
      BY <3>1, <3>2
  <2>5. Cardinality(Loose(m)') \in Nat /\ IsFiniteSet(Loose(m)') /\ Cardinality(Loose(m)') <= Cardinality(Loose(m))
    BY <1>1, <1>4, <1>5, <2>2, <2>3, LooseAfter
  <2>6. Due(m)' <= Due(m)
    <3>1. CASE lock = w
      <4>1. Due(m)' = 0
        BY <1>0, <1>1, <1>5, <2>2, <2>3, <2>4, <3>1, DueAfter
      <4> QED
        BY <1>4, <4>1
    <3>2. CASE lock # w
      BY <1>0, <1>1, <1>5, <2>4, <3>2, DueAfter
    <3> QED
      BY <3>1, <3>2
  <2> QED
    BY <1>0, <1>1, <1>4, <2>2, <2>3, <2>5, <2>6 DEF Paid
<1>8. CASE m = First(w) /\ MarkSentFails(w)
  <2>1. faults' = faults + 1 /\ (RowOpen(m)' => RowOpen(m))
    <3>1. CASE email' = email
      BY <1>8, <3>1 DEF MarkSentFails, Fault, RowOpen
    <3>2. CASE Become(m, "sent")
      BY <1>2, <1>8, <3>2 DEF MarkSentFails, Fault, Become, RowOpen, MailInv, MailTypeOK, QueueRow
    <3> QED
      BY <1>8, <3>1, <3>2 DEF MarkSentFails
  <2>2. /\ Cardinality(Loose(m)') \in Nat /\ IsFiniteSet(Loose(m)') /\ Cardinality(Loose(m)') <= Cardinality(Loose(m)) + 1
        /\ lock = w => Cardinality(Loose(m)') <= Cardinality(Loose(m))
    BY <1>1, <1>4, <1>5, LooseAfter
  <2>3. lock # w => Due(m)' <= Due(m)
    BY <1>0, <1>1, <1>5, <2>1, DueAfter
  <2> QED
    BY <1>0, <1>1, <1>4, <2>1, <2>2, <2>3 DEF Paid
<1>9. CASE m = First(w) /\ CountAttempt(w)
  <2>1. job'[w].pc = "next" /\ job'[w].batch = job[w].batch \ {First(w)} /\ faults' = faults
    BY <1>0, <1>9, Drops DEF CountAttempt
  <2>2. Left(w, m) /\ ~Left(w, m)'
    BY <1>2, <1>9, <2>1 DEF Left, CountAttempt
  <2>3. /\ Cardinality(Loose(m)') \in Nat /\ IsFiniteSet(Loose(m)') /\ Cardinality(Loose(m)') <= Cardinality(Loose(m))
        /\ lock # w => Cardinality(Loose(m)') + 1 <= Cardinality(Loose(m))
    BY <1>1, <1>4, <1>5, <2>2, LooseAfter
  <2>4. lock = w => Due(m) = 1
    BY <1>0, <1>1, <1>5, <2>2, DueAfter
  <2> QED
    BY <1>0, <1>1, <1>4, <2>1, <2>3, <2>4 DEF Paid
<1> QED
  BY <1>6, <1>7, <1>8, <1>9

\* The run of w ends, in order or by a fault, and gives the lock back if it has it.
LEMMA EndPaid ==
    ASSUME MailInv, NEW w \in Replica, EndRun(w) \/ CountFails(w) \/ Crash(w)
    PROVE  SendsPaid'
<1> SUFFICES ASSUME NEW m \in Email PROVE Paid(m)'
  BY DEF SendsPaid
<1>0. MailTypeOK /\ Paid(m) /\ w # Nobody
  BY QueueAssumption DEF MailInv, SendsPaid
<1>1. Only(w) /\ job'[w].pc = "idle" /\ job'[w].batch = {} /\ accepted' = accepted
  BY <1>0, Rests DEF EndRun, CountFails, Crash
<1>2. lock' = IF lock = w THEN Nobody ELSE lock
  BY DEF EndRun, CountFails, Crash, Unlock
<1>3. /\ accepted[m] \in Nat /\ faults \in Nat /\ Due(m) \in {0, 1} /\ Cardinality(Loose(m)) \in Nat
      /\ IsFiniteSet(Loose(m)) /\ Due(m)' \in {0, 1}
  BY <1>0, PaidTyped, DueBounds
<1>4. ~Left(w, m)'
  BY <1>1 DEF Left
<1>5. /\ Cardinality(Loose(m)') \in Nat /\ IsFiniteSet(Loose(m)') /\ Cardinality(Loose(m)') <= Cardinality(Loose(m))
  <2>1. CASE lock # w
    BY <1>1, <1>2, <1>3, <1>4, <2>1, LooseAfter
  <2>2. CASE lock = w
    <3>1. Loose(m)' \subseteq Loose(m)
      <4> SUFFICES ASSUME NEW v \in Replica, Left(v, m)' PROVE lock # v /\ Left(v, m)
        BY DEF Loose
      <4>1. v # w
        BY <1>4
      <4> QED
        BY <1>1, <2>2, <4>1, LeftStays
    <3> QED
      BY <1>3, <3>1, Fewer
  <2> QED
    BY <2>1, <2>2
<1>6. CASE faults' = faults + 1
  BY <1>0, <1>1, <1>3, <1>5, <1>6 DEF Paid
<1>7. CASE EndRun(w)
  <2>1. job[w].batch = {} /\ email' = email /\ faults' = faults
    BY <1>7 DEF EndRun
  <2>2. RowOpen(m)' = RowOpen(m) /\ ~Left(w, m)
    BY <2>1 DEF RowOpen, Left
  <2>3. CASE lock # w
    BY <1>0, <1>1, <1>2, <1>4, <2>1, <2>2, <2>3, Spared
  <2>4. CASE lock = w
    <3>1. Left(lock, m) = Left(w, m) /\ m \notin job[lock].batch
      BY <2>1, <2>4 DEF Left, First
    <3>2. Due(m) = (IF RowOpen(m) THEN 1 ELSE 0) /\ Due(m)' = (IF RowOpen(m) THEN 1 ELSE 0)
      BY <1>0, <1>2, <2>2, <2>4, <3>1 DEF Due
    <3> QED
      BY <1>0, <1>1, <1>3, <1>5, <2>1, <3>2 DEF Paid
  <2> QED
    BY <2>3, <2>4
<1> QED
  BY <1>6, <1>7 DEF CountFails, Crash, Fault

\* A tick takes the lock, and what it reads is due already.
LEMMA TickPaid ==
    ASSUME MailInv, NEW w \in Replica, Tick(w)
    PROVE  SendsPaid' /\ Only(w) /\ job'[w].pc = "next" /\ job'[w].batch = Pending
<1>0. MailTypeOK /\ BatchesFit /\ lock = Nobody /\ lock' = w /\ w # Nobody /\ job[w].pc = "idle" /\ faults' = faults
      /\ email' = email /\ accepted' = accepted
  BY QueueAssumption DEF MailInv, Tick
<1> DEFINE n == [pc |-> "next", batch |-> Pending, attempts |-> [m \in Email |-> email[m].attempts]]
<1>1. n \in JobState
  <2>1. Pending \subseteq Email
    BY DEF Pending
  <2>2. [m \in Email |-> email[m].attempts] \in [Email -> Nat]
    BY <1>0 DEF MailTypeOK, QueueRow
  <2> QED
    BY <2>1, <2>2 DEF JobState
<1>2. job' = [job EXCEPT ![w] = n]
  BY DEF Tick
<1>3. n.pc = "next" /\ n.batch = Pending
  OBVIOUS
<1> HIDE DEF n
<1>4. Only(w) /\ job'[w].pc = "next" /\ job'[w].batch = Pending
  BY <1>0, <1>1, <1>2, <1>3, OneRun DEF Only
<1>5. ASSUME NEW m \in Email PROVE Paid(m)'
  <2>1. Paid(m)
    BY DEF MailInv, SendsPaid
  <2>2. /\ accepted[m] \in Nat /\ faults \in Nat /\ Due(m) \in {0, 1} /\ Cardinality(Loose(m)) \in Nat
        /\ IsFiniteSet(Loose(m)) /\ Due(m)' \in {0, 1}
    BY <1>0, <2>1, PaidTyped, DueBounds
  <2>3. Loose(m)' \subseteq Loose(m)
    <3> SUFFICES ASSUME NEW v \in Replica, lock' # v, Left(v, m)' PROVE lock # v /\ Left(v, m)
      BY DEF Loose
    <3>1. v # w /\ lock # v
      BY <1>0, QueueAssumption
    <3> QED
      BY <1>4, <3>1, LeftStays
  <2>4. Cardinality(Loose(m)') \in Nat /\ IsFiniteSet(Loose(m)') /\ Cardinality(Loose(m)') <= Cardinality(Loose(m))
    BY <2>2, <2>3, Fewer
  <2>5. RowOpen(m)' = RowOpen(m) /\ (m \in Pending => RowOpen(m))
    BY <1>0 DEF RowOpen, Pending
  <2>6. Due(m) = IF RowOpen(m) THEN 1 ELSE 0
    BY <1>0 DEF Due
  <2>7. ~RowOpen(m) => Due(m)' = 0
    <3>1. Left(lock, m)' => m \in job'[lock'].batch
      BY DEF Left
    <3> QED
      BY <1>0, <1>4, <2>5, <3>1 DEF Due
  <2> QED
    BY <1>0, <2>1, <2>2, <2>4, <2>6, <2>7 DEF Paid
<1> QED
  BY <1>4, <1>5 DEF SendsPaid

\* A lock lost with its connection makes its run one more that may send: the fault pays for it.
LEMMA DropPaid ==
    ASSUME MailInv, DropSession
    PROVE  SendsPaid'
<1> SUFFICES ASSUME NEW m \in Email PROVE Paid(m)'
  BY DEF SendsPaid
<1>0. /\ MailTypeOK /\ Paid(m) /\ lock # Nobody /\ lock' = Nobody /\ faults' = faults + 1
      /\ email' = email /\ accepted' = accepted /\ job' = job
  BY DEF MailInv, SendsPaid, DropSession, Fault
<1>1. /\ accepted[m] \in Nat /\ faults \in Nat /\ Due(m) \in {0, 1} /\ Cardinality(Loose(m)) \in Nat
      /\ IsFiniteSet(Loose(m)) /\ Due(m)' \in {0, 1}
  BY <1>0, PaidTyped, DueBounds
<1>2. \A v : Left(v, m)' = Left(v, m)
  BY <1>0 DEF Left, First
<1>3. PICK T : T = Loose(m)'
  OBVIOUS
<1>4. CASE Left(lock, m)
  <2>1. T \subseteq Loose(m) \cup {lock}
    BY <1>2, <1>3 DEF Loose
  <2>2. IsFiniteSet(T) /\ Cardinality(T) \in Nat /\ Cardinality(T) <= Cardinality(Loose(m)) + 1
    BY <1>1, <2>1, OneMore
  <2>3. Due(m) = 1
    BY <1>0, <1>4 DEF Due
  <2> QED
    BY <1>0, <1>1, <1>3, <2>2, <2>3 DEF Paid
<1>5. CASE ~Left(lock, m)
  <2>1. T \subseteq Loose(m)
    BY <1>2, <1>3, <1>5 DEF Loose
  <2>2. IsFiniteSet(T) /\ Cardinality(T) \in Nat /\ Cardinality(T) <= Cardinality(Loose(m))
    BY <1>1, <2>1, Fewer
  <2> QED
    BY <1>0, <1>1, <1>3, <2>2 DEF Paid
<1> QED
  BY <1>4, <1>5

\* The rows change while no run steps: what was not due does not become due.
LEMMA RowsPaid ==
    ASSUME MailTypeOK, UNCHANGED <<lock, job>>, NEW m \in Email, Paid(m),
           accepted[m] \in Nat, accepted'[m] \in Nat, faults' \in Nat,
           \/ accepted'[m] = accepted[m] /\ (RowOpen(m)' => RowOpen(m)) /\ faults' >= faults
           \/ /\ accepted'[m] = accepted[m] + 1
              /\ \A w \in Replica : m \notin job[w].batch
              /\ RowOpen(m) /\ ((~RowOpen(m)' /\ faults' = faults) \/ faults' = faults + 1)
    PROVE  Paid(m)'
<1>1. \A v : Left(v, m)' = Left(v, m)
  BY DEF Left, First
<1>2. PICK T : T = Loose(m)'
  OBVIOUS
<1>3. T = Loose(m)
  BY <1>1, <1>2 DEF Loose
<1>4. /\ faults \in Nat /\ Due(m) \in {0, 1} /\ Cardinality(Loose(m)) \in Nat /\ IsFiniteSet(Loose(m)) /\ Due(m)' \in {0, 1}
  BY PaidTyped, DueBounds
<1>5. CASE accepted'[m] = accepted[m] /\ (RowOpen(m)' => RowOpen(m)) /\ faults' >= faults
  <2>1. Due(m)' <= Due(m)
    BY <1>1, <1>5 DEF Due
  <2> QED
    BY <1>2, <1>3, <1>4, <1>5, <2>1 DEF Paid
<1>6. CASE /\ accepted'[m] = accepted[m] + 1
           /\ \A w \in Replica : m \notin job[w].batch
           /\ RowOpen(m) /\ ((~RowOpen(m)' /\ faults' = faults) \/ faults' = faults + 1)
  <2>1. lock # Nobody => m \notin job[lock].batch /\ ~Left(lock, m)
    BY <1>6 DEF MailTypeOK, Left
  <2>2. Due(m) = 1 /\ (~RowOpen(m)' => Due(m)' = 0)
    BY <1>1, <1>6, <2>1 DEF Due
  <2> QED
    BY <1>2, <1>3, <1>4, <1>6, <2>2 DEF Paid
<1> QED
  BY <1>5, <1>6

\* A row of the table is of the type its statements keep, and none is taken back to before it was queued.
RowsFit ==
    /\ email' \in [Email -> QueueRow] /\ accepted' \in [Email -> Nat] /\ faults' \in 0..MaxFaults
    /\ \A m \in Email : email[m].status \notin {"unsent", "refused"} => email'[m].status \notin {"unsent", "refused"}

\* The request that sends a mail or queues it, and the passing of a week, keep the account of every mail.
LEMMA SendStep ==
    ASSUME MailInv, NEW e \in Email, Send(e) \/ Enqueue(e) \/ Week(e)
    PROVE  RowsFit /\ SendsPaid'
<1>0. /\ MailTypeOK /\ BatchesFit /\ SendsPaid /\ UNCHANGED <<lock, job>> /\ email \in [Email -> QueueRow]
      /\ accepted \in [Email -> Nat] /\ faults \in Nat /\ MaxFaults \in Nat /\ faults <= MaxFaults
  BY QueueAssumption DEF MailInv, MailTypeOK, Send, Enqueue, Week
<1>1. CASE Send(e)
  <2>1. /\ email[e].status = "unsent" /\ RowOpen(e)
        /\ \A w \in Replica : e \notin job[w].batch
    BY <1>0, <1>1 DEF Send, RowOpen, BatchesFit
  <2>2. PICK status \in {"delivered", "refused"} :
          /\ email' = [email EXCEPT ![e].status = status]
          /\ \/ accepted' = [accepted EXCEPT ![e] = @ + 1] /\ status = "delivered" /\ faults' = faults
             \/ accepted' = accepted /\ faults' = faults
             \/ accepted' = [accepted EXCEPT ![e] = @ + 1] /\ faults' = faults + 1 /\ faults < MaxFaults
    BY <1>1 DEF Send, Taken, Become, Fault
  <2>3. email'[e].status = status /\ email' \in [Email -> QueueRow] /\ \A m \in Email : m # e => email'[m] = email[m]
    <3>1. [email[e] EXCEPT !.status = status] \in QueueRow /\ [email[e] EXCEPT !.status = status].status = status
      BY <1>0, <2>2 DEF QueueRow, NoRow
    <3> QED
      BY <1>0, <2>2, <3>1
  <2>4. RowsFit
    BY <1>0, <2>1, <2>2, <2>3 DEF RowsFit
  <2>5. ASSUME NEW m \in Email PROVE Paid(m)'
    <3>1. accepted[m] \in Nat /\ accepted'[m] \in Nat /\ faults' \in Nat /\ faults' >= faults /\ Paid(m)
      BY <1>0, <2>2 DEF SendsPaid
    <3>2. CASE m # e
      <4>1. accepted'[m] = accepted[m] /\ (RowOpen(m)' => RowOpen(m))
        BY <1>0, <2>2, <2>3, <3>2 DEF RowOpen
      <4> QED
        BY <1>0, <3>1, <4>1, RowsPaid
    <3>3. CASE m = e
      <4>1. \/ accepted'[m] = accepted[m] /\ faults' = faults
            \/ accepted'[m] = accepted[m] + 1 /\ ((~RowOpen(m)' /\ faults' = faults) \/ faults' = faults + 1)
        BY <1>0, <2>2, <2>3, <3>3 DEF RowOpen
      <4> QED
        BY <1>0, <2>1, <3>1, <3>3, <4>1, RowsPaid
    <3> QED
      BY <3>2, <3>3
  <2> QED
    BY <2>4, <2>5 DEF SendsPaid
<1>2. ASSUME NEW row \in QueueRow, email' = [email EXCEPT ![e] = row], accepted' = accepted,
             faults' = faults \/ (faults' = faults + 1 /\ faults < MaxFaults),
             row.status \in {"unsent", "refused", "pending"} => RowOpen(e),
             email[e].status \notin {"unsent", "refused"} => row.status \notin {"unsent", "refused"}
      PROVE  RowsFit /\ SendsPaid'
  <2>1. RowsFit
    BY <1>0, <1>2 DEF RowsFit
  <2>2. ASSUME NEW m \in Email PROVE Paid(m)'
    <3>1. accepted[m] \in Nat /\ accepted'[m] = accepted[m] /\ faults' \in Nat /\ faults' >= faults /\ Paid(m)
      BY <1>0, <1>2 DEF SendsPaid
    <3>2. RowOpen(m)' => RowOpen(m)
      BY <1>0, <1>2 DEF RowOpen
    <3> QED
      BY <1>0, <3>1, <3>2, RowsPaid
  <2> QED
    BY <2>1, <2>2 DEF SendsPaid
<1>3. CASE Enqueue(e)
  <2>1. CASE email' = [email EXCEPT ![e].status = "pending", ![e].attempts = 1] /\ faults' = faults
    <3> DEFINE row == [email[e] EXCEPT !.status = "pending", !.attempts = 1]
    <3>1. row \in QueueRow /\ row.status = "pending" /\ email' = [email EXCEPT ![e] = row]
      BY <1>0, <2>1 DEF QueueRow, InQueue
    <3>2. RowOpen(e) /\ accepted' = accepted
      BY <1>3 DEF RowOpen, Enqueue
    <3> HIDE DEF row
    <3> QED
      BY <1>2, <2>1, <3>1, <3>2
  <2>2. CASE Become(e, "lost") /\ Fault
    <3> DEFINE row == [email[e] EXCEPT !.status = "lost"]
    <3>1. row \in QueueRow /\ row.status = "lost" /\ email' = [email EXCEPT ![e] = row]
      BY <1>0, <2>2 DEF QueueRow, NoRow, Become
    <3>2. accepted' = accepted /\ faults' = faults + 1 /\ faults < MaxFaults
      BY <1>3, <2>2 DEF Enqueue, Fault
    <3> HIDE DEF row
    <3> QED
      BY <1>2, <3>1, <3>2
  <2> QED
    BY <1>3, <2>1, <2>2 DEF Enqueue
<1>4. CASE Week(e)
  <2> DEFINE row == [email[e] EXCEPT !.old = TRUE]
  <2>1. row \in QueueRow /\ row.status = email[e].status /\ email' = [email EXCEPT ![e] = row]
    BY <1>0, <1>4 DEF QueueRow, Week
  <2>2. accepted' = accepted /\ faults' = faults
    BY <1>4 DEF Week
  <2> HIDE DEF row
  <2> QED
    BY <1>2, <2>1, <2>2 DEF RowOpen
<1> QED
  BY <1>1, <1>3, <1>4

\* The sweep takes rows away, and whoever holds one in its batch can only send less.
LEMMA RetentionStep ==
    ASSUME MailInv, Retention
    PROVE  RowsFit /\ SendsPaid'
<1>0. /\ MailTypeOK /\ SendsPaid /\ UNCHANGED <<lock, job>> /\ email \in [Email -> QueueRow]
      /\ accepted \in [Email -> Nat] /\ faults \in Nat /\ faults \in 0..MaxFaults
      /\ accepted' = accepted /\ faults' = faults
  BY QueueAssumption DEF MailInv, MailTypeOK, Retention
<1>1. \A m \in Email : /\ email'[m] \in QueueRow
                        /\ email'[m].status \in {email[m].status, "purged"}
  BY <1>0 DEF Retention, QueueRow, NoRow
<1>2. email' \in [Email -> QueueRow]
  <2> DEFINE v(m) == IF Queued(m) /\ email[m].old THEN [email[m] EXCEPT !.status = "purged"] ELSE email[m]
  <2>1. email' = [m \in Email |-> v(m)]
    BY DEF Retention
  <2>2. \A m \in Email : v(m) \in QueueRow
    BY <1>0 DEF QueueRow, NoRow
  <2> HIDE DEF v
  <2> QED
    BY <2>1, <2>2
<1>3. RowsFit
  BY <1>0, <1>1, <1>2 DEF RowsFit
<1>4. ASSUME NEW m \in Email PROVE Paid(m)'
  <2>1. (RowOpen(m)' => RowOpen(m)) /\ Paid(m) /\ accepted[m] \in Nat
    BY <1>0, <1>1 DEF RowOpen, SendsPaid
  <2> QED
    BY <1>0, <2>1, RowsPaid
<1> QED
  BY <1>3, <1>4 DEF SendsPaid

-----------------------------------------------------------------------------
\* What a run does to the rows, the counts, the lock and its own batch.
RunFits(w) ==
    /\ RowsFit /\ Only(w)
    /\ lock' \in {lock, Nobody} \/ lock' = w
    /\ lock' = w => job'[w].pc # "idle"
    /\ job'[w].pc \in {"mark", "count"} => job'[w].batch # {}
    /\ job'[w].pc = "idle" => job'[w].batch = {}
    /\ \A m \in job'[w].batch : email'[m].status \notin {"unsent", "refused"}

\* Each statement of a retry run, and each way it fails, keeps the account of every mail.
LEMMA RunStep ==
    ASSUME MailInv, NEW w \in Replica,
           Tick(w) \/ JobStep(w) \/ MarkSentFails(w) \/ CountFails(w) \/ Crash(w)
    PROVE  RunFits(w) /\ SendsPaid'
<1>0. /\ MailTypeOK /\ BatchesFit /\ email \in [Email -> QueueRow] /\ accepted \in [Email -> Nat]
      /\ faults \in Nat /\ MaxFaults \in Nat /\ faults <= MaxFaults /\ w # Nobody
      /\ lock = w => job[w].pc # "idle"
  BY QueueAssumption DEF MailInv, MailTypeOK
<1>1. \A m \in job[w].batch : m \in Email /\ email[m].status \notin {"unsent", "refused"}
  BY <1>0, JobTyped DEF BatchesFit
<1>2. CASE Tick(w)
  <2>1. /\ Only(w) /\ job'[w].pc = "next" /\ job'[w].batch = Pending /\ SendsPaid'
    BY <1>2, TickPaid
  <2>2. UNCHANGED <<email, accepted, faults>> /\ lock' = w
    BY <1>2 DEF Tick
  <2>3. \A m \in Pending : email'[m].status \notin {"unsent", "refused"}
    BY <2>2 DEF Pending
  <2>4. RowsFit
    BY <1>0, <2>2 DEF RowsFit
  <2> QED
    BY <2>1, <2>2, <2>3, <2>4 DEF RunFits
<1>3. CASE Resend(w)
  <2>1. PICK pc \in {"mark", "count"} : job' = [job EXCEPT ![w].pc = pc]
    BY <1>3 DEF Resend
  <2>2. Only(w) /\ job'[w].pc = pc /\ job'[w].batch = job[w].batch /\ job[w].batch # {}
    BY <1>0, <1>3, <2>1, Walks DEF Resend
  <2>3. First(w) \in Email
    BY <1>0, <2>2, FirstTyped
  <2>4. RowsFit
    BY <1>0, <1>3, <2>3 DEF RowsFit, Resend, Taken, Fault
  <2>5. email' = email /\ lock' = lock
    BY <1>3 DEF Resend
  <2>6. SendsPaid'
    BY <1>3, ResendPaid
  <2> QED
    BY <1>1, <2>1, <2>2, <2>4, <2>5, <2>6 DEF RunFits
<1>4. ASSUME job[w].batch # {}, accepted' = accepted, faults' = faults \/ (faults' = faults + 1 /\ faults < MaxFaults),
             \/ email' = email \/ (Queued(First(w)) /\ Become(First(w), "sent")) \/ Tried(w)
      PROVE  /\ RowsFit
             /\ \A m \in Email : email[m].status \notin {"unsent", "refused"} => email'[m].status \notin {"unsent", "refused"}
  BY <1>0, <1>4, RowsWritten DEF RowsFit
<1>5. CASE MarkSent(w) \/ MarkSentFails(w) \/ CountAttempt(w)
  <2>1. job[w].batch # {} /\ lock' = lock
    BY <1>0, <1>5 DEF MailTypeOK, MarkSent, MarkSentFails, CountAttempt
  <2>2. RowsFit /\ \A m \in Email : email[m].status \notin {"unsent", "refused"} => email'[m].status \notin {"unsent", "refused"}
    BY <1>4, <1>5, <2>1 DEF MarkSent, MarkSentFails, CountAttempt, Fault
  <2>3. /\ Only(w) /\ job'[w].pc \in {"next", "count"} /\ job'[w].batch \subseteq job[w].batch
        /\ job'[w].pc = "count" => job'[w].batch = job[w].batch
    BY <1>0, <1>5, Walks, Drops DEF MarkSent, MarkSentFails, CountAttempt
  <2>4. \A m \in job'[w].batch : email'[m].status \notin {"unsent", "refused"}
    BY <1>1, <2>2, <2>3
  <2>5. SendsPaid'
    BY <1>5, WritePaid
  <2> QED
    BY <2>1, <2>2, <2>3, <2>4, <2>5 DEF RunFits
<1>6. CASE EndRun(w) \/ CountFails(w) \/ Crash(w)
  <2>1. RowsFit
    <3>1. CASE CountFails(w)
      BY <1>0, <1>4, <3>1 DEF CountFails, MailTypeOK, Fault
    <3>2. CASE EndRun(w) \/ Crash(w)
      BY <1>0, <3>2 DEF EndRun, Crash, Fault, RowsFit
    <3> QED
      BY <1>6, <3>1, <3>2
  <2>2. Only(w) /\ job'[w].pc = "idle" /\ job'[w].batch = {}
    BY <1>0, <1>6, Rests DEF EndRun, CountFails, Crash
  <2>3. lock' = IF lock = w THEN Nobody ELSE lock
    BY <1>6 DEF EndRun, CountFails, Crash, Unlock
  <2>4. SendsPaid'
    BY <1>6, EndPaid
  <2> QED
    BY <1>0, <2>1, <2>2, <2>3, <2>4 DEF RunFits
<1> QED
  BY <1>2, <1>3, <1>5, <1>6 DEF JobStep

\* Every step keeps the invariant of the queue.
LEMMA MailStep == MailInv /\ [MailNext]_mailVars => MailInv'
<1> SUFFICES ASSUME MailInv, [MailNext]_mailVars PROVE MailInv'
  OBVIOUS
<1>0. MailTypeOK /\ BatchesFit /\ SendsPaid
  BY DEF MailInv
<1>1. ASSUME RowsFit, UNCHANGED job, lock' \in {lock, Nobody}
      PROVE  MailTypeOK' /\ BatchesFit'
  <2>1. MailTypeOK'
    BY <1>0, <1>1 DEF MailTypeOK, RowsFit
  <2>2. BatchesFit'
    BY <1>0, <1>1, JobTyped DEF BatchesFit, RowsFit
  <2> QED
    BY <2>1, <2>2
<1>2. CASE UNCHANGED mailVars
  <2>1. RowsFit
    BY <1>0, <1>2 DEF MailTypeOK, RowsFit, mailVars
  <2>2. ASSUME NEW m \in Email PROVE Paid(m)'
    <3>1. Paid(m) /\ accepted[m] \in Nat /\ faults \in Nat
      BY <1>0, PaidTyped DEF SendsPaid
    <3> QED
      BY <1>0, <1>2, <3>1, RowsPaid DEF mailVars, RowOpen
  <2> QED
    BY <1>1, <1>2, <2>1, <2>2 DEF MailInv, SendsPaid, mailVars
<1>3. ASSUME NEW e \in Email, Send(e) \/ Enqueue(e) \/ Week(e) PROVE MailInv'
  BY <1>1, <1>3, SendStep DEF MailInv, Send, Enqueue, Week
<1>4. CASE Retention
  BY <1>1, <1>4, RetentionStep DEF MailInv, Retention
<1>5. CASE DropSession
  <2>1. RowsFit
    BY <1>0, <1>5, QueueAssumption DEF DropSession, Fault, RowsFit, MailTypeOK
  <2> QED
    BY <1>1, <1>5, <2>1, DropPaid DEF MailInv, DropSession
<1>6. ASSUME NEW w \in Replica, Tick(w) \/ JobStep(w) \/ MarkSentFails(w) \/ CountFails(w) \/ Crash(w)
      PROVE  MailInv'
  <2>1. RunFits(w) /\ SendsPaid'
    BY <1>6, RunStep
  <2>2. lock' \in Replica \cup {Nobody} /\ (lock' # Nobody => job'[lock'].pc # "idle")
    <3>1. CASE lock' = w
      BY <2>1, <3>1 DEF RunFits
    <3>2. CASE lock' # w
      BY <1>0, <2>1, <3>2 DEF RunFits, Only, MailTypeOK
    <3> QED
      BY <3>1, <3>2
  <2>3. \A v \in Replica : job'[v].pc \in {"mark", "count"} => job'[v].batch # {}
    BY <1>0, <2>1 DEF RunFits, Only, MailTypeOK
  <2>4. MailTypeOK'
    BY <2>1, <2>2, <2>3 DEF RunFits, RowsFit, Only, MailTypeOK
  <2>5. BatchesFit'
    <3> SUFFICES ASSUME NEW v \in Replica
                 PROVE  /\ job'[v].pc = "idle" => job'[v].batch = {}
                        /\ \A m \in job'[v].batch : email'[m].status \notin {"unsent", "refused"}
      BY DEF BatchesFit
    <3>1. CASE v = w
      BY <2>1, <3>1 DEF RunFits
    <3>2. CASE v # w
      BY <1>0, <2>1, <3>2, JobTyped DEF RunFits, Only, RowsFit, BatchesFit
    <3> QED
      BY <3>1, <3>2
  <2> QED
    BY <2>1, <2>4, <2>5 DEF MailInv
<1> QED
  BY <1>2, <1>3, <1>4, <1>5, <1>6 DEF MailNext

\* It holds at the start: nothing was accepted, and each mail is due once.
LEMMA MailStart == MailInit => MailInv
<1> SUFFICES ASSUME MailInit PROVE MailInv
  OBVIOUS
<1>1. MailTypeOK /\ BatchesFit
  BY IdleTyped, QueueAssumption DEF MailInit, MailTypeOK, BatchesFit, QueueRow, NoRow
<1>2. ASSUME NEW m \in Email PROVE Paid(m)
  <2>1. \A w \in Replica : ~Left(w, m)
    BY IdleTyped DEF MailInit, Left
  <2>2. Loose(m) = {}
    BY <2>1 DEF Loose
  <2>3. IsFiniteSet(Loose(m)) /\ Cardinality(Loose(m)) = 0
    BY <2>2, FS_EmptySet
  <2>4. accepted[m] = 0 /\ faults = 0 /\ Due(m) \in {0, 1}
    BY DueBounds DEF MailInit
  <2> QED
    BY <2>3, <2>4 DEF Paid
<1> QED
  BY <1>1, <1>2 DEF MailInv, SendsPaid

\* The inductive invariant of the email queue (`emailQueueService.ts`): a batch holds only mails that were queued, and
\* what SendGrid accepted of a mail, with what is still due, is at most one beyond the faults.
THEOREM MailInvariant == MailSpec => []MailInv
  BY MailStart, MailStep, PTL DEF MailSpec

\* Every variable of the queue keeps its type, and the lock is held only by a run under way.
THEOREM MailIsTyped == MailSpec => []MailTypeOK
<1>1. MailInv => MailTypeOK
  BY DEF MailInv
<1> QED
  BY <1>1, MailInvariant, PTL

(***************************************************************************)
(* However many replicas and emails: each send of an email beyond its      *)
(* first was paid for by a fault (an answer lost, a row not marked, a      *)
(* crash, a lock dropped under a run), never by two runs in good order.    *)
(***************************************************************************)
THEOREM ResendsArePaid == MailSpec => []ResendsAreFaults
<1>1. MailInv => ResendsAreFaults
  <2> SUFFICES ASSUME MailInv, NEW m \in Email PROVE accepted[m] <= 1 + faults
    BY DEF ResendsAreFaults
  <2>1. MailTypeOK /\ Paid(m)
    BY DEF MailInv, SendsPaid
  <2>2. /\ accepted[m] \in Nat /\ faults \in Nat /\ Due(m) \in {0, 1} /\ Cardinality(Loose(m)) \in Nat
    BY <2>1, PaidTyped
  <2> QED
    BY <2>1, <2>2 DEF Paid
<1> QED
  BY <1>1, MailInvariant, PTL

-----------------------------------------------------------------------------
\* What a request carries once it has read what its route asks for; sure are the confirmed secrets.
RequestKnows(q, sure) ==
    /\ q.pc \in {"begin", "wrong", "clear", "issue"} \/ q.route = "verify" => q.challenge \in Challenge
    /\ q.code \in RecoveryCode => q.route \in {"verify", "disable"}
    /\ q.route = "none" => q.pc \in {"done", "wrong", "count"}
    /\ q.pc = "secret" => q.route # "enrol"
    /\ q.pc \in {"accept", "clear"} => q.route \notin {"enrol", "confirm", "move confirm"}
    /\ q.pc = "clear" => q.route = "verify"
    /\ q.pc = "act" /\ q.route \in {"confirm", "move confirm"} => q.code \in TotpCode
    /\ q.pc = "act" /\ q.route = "move confirm" => q.secret = q.code.secret /\ q.secret \in sure

RequestsKnow == \A r \in Request : RequestKnows(request[r], confirmed)

\* A challenge with a session, or about to have one, is spent, and has one issuer.
ChallengesSpent ==
    /\ \A c \in Challenge : sessions[c] > 0 => challenge[c].state = "spent" /\ sessions[c] = 1
    /\ \A r \in Request : request[r].pc = "issue" =>
          /\ challenge[request[r].challenge].state = "spent"
          /\ sessions[request[r].challenge] = 0
          /\ \A q \in Request : request[q].pc = "issue" /\ request[q].challenge = request[r].challenge => q = r

SecretsFit ==
    /\ factor.secret <= made.secrets /\ factor.pending <= made.secrets
    /\ factor.pending # NoSecret => factor.pending # factor.secret

\* A used code of the authenticator is of a secret given up, or no later than the last step accepted.
TotpUsed(c) ==
    /\ c.secret <= made.secrets /\ c.secret # factor.pending
    /\ c.secret = factor.secret => Active /\ c.step + 1 <= factor.last

UsesFit ==
    /\ CodesWorkOnce
    /\ \A c \in TotpCode : uses[c] > 0 => TotpUsed(c)
    /\ \A c \in RecoveryCode : c \in recovery => uses[c] = 0
    /\ \A c \in RecoveryCode : c \in recovery \/ uses[c] > 0 => c.set <= made.sets

FactorInv == FactorTypeOK /\ RequestsKnow /\ ChallengesSpent /\ SecretsFit /\ UsesFit

-----------------------------------------------------------------------------
\* TOTP codes, recovery codes and the wrong code are told apart.
LEMMA CodesApart ==
    /\ \A c \in TotpCode : c \notin RecoveryCode /\ c # Wrong
    /\ \A c \in RecoveryCode : c \notin TotpCode /\ c # Wrong
<1>1. \A c \in TotpCode : "step" \in DOMAIN c
  BY DEF TotpCode
<1>2. \A c \in RecoveryCode : "step" \notin DOMAIN c
  BY DEF RecoveryCode
<1> QED
  BY <1>1, <1>2, WrongAssumption

\* The fields of a code.
LEMMA CodeTyped ==
    /\ \A c \in TotpCode : c.secret \in Secret /\ c.step \in 0..MaxStep
    /\ \A c \in RecoveryCode : c.set \in 1..MaxSets
  BY DEF TotpCode, RecoveryCode

\* A request that has been answered has a typed state.
LEMMA DoneTyped == Done \in RequestState
  BY FactorAssumption DEF Done, RequestState, NoSecret

\* So has an account without a second factor.
LEMMA NoFactorTyped == NoFactor \in Factor /\ NoFactor.state = "none" /\ NoFactor.pending = NoSecret
  BY FactorAssumption DEF NoFactor, Factor, NoSecret

\* The request of r becomes n, the others stay.
LEMMA OneRequest ==
    ASSUME FactorTypeOK, NEW r \in Request, NEW n \in RequestState, request' = [request EXCEPT ![r] = n]
    PROVE  /\ request' \in [Request -> RequestState]
           /\ request'[r] = n /\ \A q \in Request \ {r} : request'[q] = request[q]
  BY DEF FactorTypeOK

\* The fields of a request.
LEMMA RequestTyped ==
    ASSUME FactorTypeOK, NEW r \in Request
    PROVE  /\ request[r] \in RequestState
           /\ request[r].route \in Route \cup {"none"} /\ request[r].challenge \in Challenge \cup {NoChallenge}
           /\ request[r].code \in TotpCode \cup RecoveryCode \cup {Wrong}
           /\ request[r].secret \in 0..MaxSecrets
  BY DEF FactorTypeOK, RequestState

Others(r) == \A q \in Request \ {r} : request'[q] = request[q]

Pc == {"done", "begin", "state", "secret", "accept", "clear", "wrong", "count", "act", "commit", "issue"}

\* A request that goes to another statement keeps all else.
LEMMA Goes ==
    ASSUME FactorTypeOK, NEW r \in Request, NEW pc \in Pc, Goto(r, pc)
    PROVE  /\ request' \in [Request -> RequestState] /\ Others(r)
           /\ request'[r] = [request[r] EXCEPT !.pc = pc]
  <1> DEFINE n == [request[r] EXCEPT !.pc = pc]
  <1>1. n \in RequestState
    BY RequestTyped DEF RequestState, Pc
  <1>2. request' = [request EXCEPT ![r] = n]
    BY DEF Goto
  <1> HIDE DEF n
  <1>3. request' \in [Request -> RequestState] /\ Others(r) /\ request'[r] = n
    BY <1>1, <1>2, OneRequest DEF Others
  <1> QED
    BY <1>3 DEF n

\* A request that ends forgets all it carried.
LEMMA Ends ==
    ASSUME FactorTypeOK, NEW r \in Request, End(r)
    PROVE  request' \in [Request -> RequestState] /\ Others(r) /\ request'[r] = Done
  BY DoneTyped DEF FactorTypeOK, End, Others

\* A request whose code was accepted goes on without the code.
LEMMA Accepts ==
    ASSUME FactorTypeOK, NEW r \in Request, NEW pc \in Pc, Accepted(r, pc)
    PROVE  /\ request' \in [Request -> RequestState] /\ Others(r)
           /\ request'[r] = [request[r] EXCEPT !.pc = pc, !.code = Wrong]
  <1> DEFINE n == [request[r] EXCEPT !.pc = pc, !.code = Wrong]
  <1>1. n \in RequestState
    BY RequestTyped DEF RequestState, Pc
  <1>2. request' = [request EXCEPT ![r] = n]
    <2>1. request' = [request EXCEPT ![r].pc = pc, ![r].code = Wrong]
      BY DEF Accepted
    <2>2. request \in [Request -> RequestState]
      BY DEF FactorTypeOK
    <2> QED
      BY <2>1, <2>2
  <1> HIDE DEF n
  <1>3. request' \in [Request -> RequestState] /\ Others(r) /\ request'[r] = n
    BY <1>1, <1>2, OneRequest DEF Others
  <1> QED
    BY <1>3 DEF n

\* A refused code is counted, on the challenge at sign-in and on the account elsewhere.
LEMMA Refuses ==
    ASSUME FactorTypeOK, NEW r \in Request, Refused(r)
    PROVE  /\ request' \in [Request -> RequestState] /\ Others(r)
           /\ request'[r] = [Done EXCEPT !.pc = IF request[r].route = "verify" THEN "wrong" ELSE "count",
                                         !.challenge = request[r].challenge]
  <1> DEFINE n == [Done EXCEPT !.pc = IF request[r].route = "verify" THEN "wrong" ELSE "count",
                               !.challenge = request[r].challenge]
  <1>1. n \in RequestState
    BY DoneTyped, RequestTyped DEF RequestState
  <1>2. request' = [request EXCEPT ![r] = n]
    BY DEF Refused
  <1> HIDE DEF n
  <1>3. request' \in [Request -> RequestState] /\ Others(r) /\ request'[r] = n
    BY <1>1, <1>2, OneRequest DEF Others
  <1> QED
    BY <1>3 DEF n

\* To keep what the requests know it is enough to look at the one that moves.
LEMMA KnowsAfter ==
    ASSUME RequestsKnow, NEW r \in Request, Others(r), confirmed \subseteq confirmed',
           RequestKnows(request'[r], confirmed')
    PROVE  RequestsKnow'
<1> SUFFICES ASSUME NEW q \in Request PROVE RequestKnows(request'[q], confirmed')
  BY DEF RequestsKnow
<1>1. CASE q = r
  BY <1>1
<1>2. CASE q # r
  <2>1. request'[q] = request[q] /\ RequestKnows(request[q], confirmed)
    BY <1>2 DEF Others, RequestsKnow
  <2> QED
    BY <2>1 DEF RequestKnows
<1> QED
  BY <1>1, <1>2

\* A request that has ended knows nothing.
LEMMA EndKnows ==
    ASSUME NEW sure PROVE RequestKnows(Done, sure)
  BY CodesApart, WrongAssumption DEF RequestKnows, Done

\* A request that keeps what it carries knows it at its next step, if that asks nothing new.
LEMMA GoKnows ==
    ASSUME FactorTypeOK, NEW r \in Request, RequestKnows(request[r], confirmed),
           NEW pc \in {"state", "secret", "accept", "act", "commit", "issue"},
           request[r].pc \notin {"done", "wrong", "count"},
           pc = "secret" => request[r].route # "enrol",
           pc = "accept" => request[r].route \notin {"enrol", "confirm", "move confirm"},
           pc = "issue" => request[r].route = "verify",
           pc = "act" => request[r].route \notin {"confirm", "move confirm"}
    PROVE  RequestKnows([request[r] EXCEPT !.pc = pc], confirmed)
  BY RequestTyped DEF RequestKnows, RequestState

\* A request past its accepted code knows what it knew.
LEMMA AcceptKnows ==
    ASSUME FactorTypeOK, NEW r \in Request, RequestKnows(request[r], confirmed), request[r].pc = "accept",
           NEW pc \in {"act", "clear"}, pc = "clear" => request[r].route = "verify"
    PROVE  RequestKnows([request[r] EXCEPT !.pc = pc, !.code = Wrong], confirmed)
  BY RequestTyped, CodesApart, WrongAssumption DEF RequestKnows, RequestState

\* A refused request has nothing left to act on.
LEMMA RefuseKnows ==
    ASSUME FactorTypeOK, NEW r \in Request, RequestKnows(request[r], confirmed), Refused(r), NEW sure
    PROVE  RequestKnows(request'[r], sure)
<1>1. /\ request'[r].route = "none" /\ request'[r].code = Wrong /\ request'[r].challenge = request[r].challenge
      /\ request'[r].pc = IF request[r].route = "verify" THEN "wrong" ELSE "count"
  BY Refuses DEF Done
<1> QED
  BY <1>1, WrongAssumption DEF RequestKnows

-----------------------------------------------------------------------------
\* What a step of the request r does to the requests.
Steps(r) ==
    /\ request' \in [Request -> RequestState] /\ Others(r)
    /\ confirmed \subseteq confirmed' /\ RequestKnows(request'[r], confirmed')
    /\ request'[r].pc = "issue" => Spend(r)

\* A request may end anywhere.
LEMMA EndSteps ==
    ASSUME FactorTypeOK, NEW r \in Request, End(r), confirmed \subseteq confirmed'
    PROVE  Steps(r)
  BY Ends, EndKnows DEF Steps, Done

\* A refused code leads to the count of failures.
LEMMA RefuseSteps ==
    ASSUME FactorTypeOK, NEW r \in Request, RequestKnows(request[r], confirmed), Refused(r), confirmed \subseteq confirmed'
    PROVE  Steps(r)
  BY Refuses, RefuseKnows DEF Steps, Done

\* A request may move to a statement its route has.
LEMMA GoSteps ==
    ASSUME FactorTypeOK, NEW r \in Request, RequestKnows(request[r], confirmed), UNCHANGED confirmed,
           NEW pc \in {"state", "secret", "accept", "act", "commit", "issue"}, Goto(r, pc),
           request[r].pc \notin {"done", "wrong", "count"},
           pc = "secret" => request[r].route # "enrol",
           pc = "accept" => request[r].route \notin {"enrol", "confirm", "move confirm"},
           pc = "issue" => request[r].route = "verify" /\ Spend(r),
           pc = "act" => request[r].route \notin {"confirm", "move confirm"}
    PROVE  Steps(r)
<1>1. pc \in Pc
  BY DEF Pc
<1>2. /\ request' \in [Request -> RequestState] /\ Others(r)
      /\ request'[r] = [request[r] EXCEPT !.pc = pc]
  BY <1>1, Goes
<1>3. RequestKnows(request'[r], confirmed')
  <2>1. RequestKnows([request[r] EXCEPT !.pc = pc], confirmed)
    BY GoKnows
  <2> QED
    BY <1>2, <2>1
<1>4. request'[r].pc = pc
  BY <1>2, RequestTyped DEF RequestState
<1> QED
  BY <1>2, <1>3, <1>4 DEF Steps

\* An accepted code leads to the route's own transaction, or to clearing the count.
LEMMA AcceptSteps ==
    ASSUME FactorTypeOK, NEW r \in Request, RequestKnows(request[r], confirmed), UNCHANGED confirmed,
           request[r].pc = "accept", NEW pc \in {"act", "clear"}, pc = "clear" => request[r].route = "verify",
           Accepted(r, pc)
    PROVE  Steps(r)
<1>1. pc \in Pc
  BY DEF Pc
<1>2. /\ request' \in [Request -> RequestState] /\ Others(r)
      /\ request'[r] = [request[r] EXCEPT !.pc = pc, !.code = Wrong]
  BY <1>1, Accepts
<1>3. RequestKnows(request'[r], confirmed')
  BY <1>2, AcceptKnows
<1>4. request'[r].pc = pc
  BY <1>2, RequestTyped DEF RequestState
<1> QED
  BY <1>2, <1>3, <1>4 DEF Steps

\* A new request starts with reading the state of the account.
LEMMA ArriveSteps ==
    ASSUME FactorTypeOK, NEW r \in Request, NEW route \in Route, Arrive(r, route)
    PROVE  Steps(r)
<1>1. PICK code \in IF route = "enrol" THEN {Wrong} ELSE Codes, c \in Challenge :
         /\ code \in RecoveryCode => route \in {"verify", "disable"}
         /\ request' = [request EXCEPT ![r] =
               [Done EXCEPT !.route = route, !.code = code,
                            !.pc = CASE route = "verify" -> "begin" [] route = "confirm" -> "secret" [] OTHER -> "state",
                            !.challenge = IF route = "verify" THEN c ELSE NoChallenge]]
  BY DEF Arrive
<1> DEFINE pc == CASE route = "verify" -> "begin" [] route = "confirm" -> "secret" [] OTHER -> "state"
           n == [Done EXCEPT !.route = route, !.code = code, !.pc = pc,
                             !.challenge = IF route = "verify" THEN c ELSE NoChallenge]
<1>2. pc \in {"begin", "secret", "state"} /\ (pc = "begin" => route = "verify") /\ (pc = "secret" => route # "enrol")
  OBVIOUS
<1>3. code \in TotpCode \cup RecoveryCode \cup {Wrong}
  BY DEF Codes, Matches
<1> HIDE DEF pc
<1>4. n \in RequestState
  BY <1>2, <1>3, DoneTyped DEF RequestState
<1>5. n.route = route /\ n.code = code /\ n.pc = pc /\ n.challenge = IF route = "verify" THEN c ELSE NoChallenge
  BY <1>4 DEF Done
<1>6. RequestKnows(n, confirmed)
  <2>1. route # "none"
    BY DEF Route
  <2> HIDE DEF n
  <2> QED
    BY <1>1, <1>2, <1>5, <2>1 DEF RequestKnows
<1>7. request' = [request EXCEPT ![r] = n]
  BY <1>1 DEF pc
<1> HIDE DEF n
<1>8. request' \in [Request -> RequestState] /\ Others(r) /\ request'[r] = n
  BY <1>4, <1>7, OneRequest DEF Others
<1>9. UNCHANGED confirmed
  BY DEF Arrive, history
<1> QED
  BY <1>2, <1>5, <1>6, <1>8, <1>9 DEF Steps

\* A request that reads the secret it will check against knows which one it is.
LEMMA ReadSecretSteps ==
    ASSUME FactorTypeOK, NEW r \in Request, RequestKnows(request[r], confirmed), ReadSecret(r)
    PROVE  Steps(r)
<1> DEFINE route == request[r].route
           secret == IF route = "move confirm" THEN factor.pending ELSE factor.secret
           code == request[r].code
           kept == IF route = "move confirm" THEN secret ELSE NoSecret
           pc == IF route \in {"confirm", "move confirm"} THEN "act" ELSE "accept"
           n == [request[r] EXCEPT !.secret = kept, !.pc = pc]
<1>0. request[r].pc = "secret"
  BY DEF ReadSecret
<1>1. CASE Matches(code, secret) /\ (route = "confirm" => ~Active)
  <2>1. /\ request' = [request EXCEPT ![r].secret = kept, ![r].pc = pc]
        /\ confirmed' = confirmed \cup {secret}
    BY <1>1 DEF ReadSecret
  <2>2. code \in TotpCode /\ code.secret = secret
    BY <1>1 DEF Matches
  <2>3. request[r] \in RequestState /\ kept \in 0..MaxSecrets
    <3>1. factor.pending \in 0..MaxSecrets /\ NoSecret \in 0..MaxSecrets
      BY FactorAssumption DEF FactorTypeOK, Factor, NoSecret
    <3> QED
      BY <3>1, RequestTyped
  <2>4. n \in RequestState
    BY <2>3 DEF RequestState
  <2>5. n.route = route /\ n.code = code /\ n.pc = pc /\ n.challenge = request[r].challenge /\ n.secret = kept
    BY <2>3 DEF RequestState
  <2>6. RequestKnows(n, confirmed')
    <3>1. code \notin RecoveryCode
      BY <2>2, CodesApart
    <3>2. route # "none" /\ route # "enrol" /\ (route = "verify" => request[r].challenge \in Challenge)
      BY <1>0 DEF RequestKnows
    <3>3. secret \in confirmed'
      BY <2>1
    <3>4. pc = "act" \/ (pc = "accept" /\ route \notin {"confirm", "move confirm"})
      OBVIOUS
    <3> HIDE DEF n, secret, pc, code
    <3>5. route = "move confirm" => kept = secret
      OBVIOUS
    <3> HIDE DEF kept
    <3> QED
      BY <2>2, <2>5, <3>1, <3>2, <3>3, <3>4, <3>5 DEF RequestKnows
  <2>7. request' = [request EXCEPT ![r] = n]
    BY <2>1 DEF FactorTypeOK
  <2> HIDE DEF n
  <2>8. request' \in [Request -> RequestState] /\ Others(r) /\ request'[r] = n
    BY <2>4, <2>7, OneRequest DEF Others
  <2> HIDE DEF secret, kept, code, route
  <2>9. pc # "issue"
    OBVIOUS
  <2> QED
    BY <2>1, <2>5, <2>6, <2>8, <2>9 DEF Steps
<1>2. CASE ~(Matches(code, secret) /\ (route = "confirm" => ~Active))
  <2>1. (End(r) \/ Refused(r)) /\ UNCHANGED confirmed
    BY <1>2 DEF ReadSecret
  <2> QED
    BY <2>1, EndSteps, RefuseSteps
<1> QED
  BY <1>1, <1>2

\* Every statement of every route moves its own request only, and leaves it knowing what its next one needs.
LEMMA RequestSteps ==
    ASSUME FactorTypeOK, RequestsKnow, NEW r \in Request,
           (\E route \in Route : Arrive(r, route)) \/ Serve(r) \/ Refuse(r)
    PROVE  Steps(r)
<1>0. RequestKnows(request[r], confirmed)
  BY DEF RequestsKnow
<1>1. CASE \E route \in Route : Arrive(r, route)
  BY <1>1, ArriveSteps
<1>2. CASE FindChallenge(r)
  <2>1. UNCHANGED confirmed /\ (End(r) \/ Goto(r, "state")) /\ request[r].pc = "begin"
    BY <1>2 DEF FindChallenge, history
  <2> QED
    BY <1>0, <2>1, EndSteps, GoSteps
<1>3. CASE ReadState(r)
  <2> DEFINE route == request[r].route
  <2>1. /\ UNCHANGED confirmed /\ request[r].pc = "state"
        /\ \/ End(r)
           \/ route = "enrol" /\ Goto(r, "act")
           \/ route # "enrol" /\ request[r].code \in RecoveryCode /\ Goto(r, "accept")
           \/ route # "enrol" /\ Goto(r, "secret")
    BY <1>3 DEF ReadState, history
  <2>2. request[r].code \in RecoveryCode => route \in {"verify", "disable"}
    BY <1>0 DEF RequestKnows
  <2> QED
    BY <1>0, <2>1, <2>2, EndSteps, GoSteps
<1>4. CASE ReadSecret(r)
  BY <1>0, <1>4, ReadSecretSteps
<1>5. CASE Accept(r)
  <2>1. /\ UNCHANGED confirmed /\ request[r].pc = "accept"
        /\ \/ Refused(r) \/ Accepted(r, "act")
           \/ Accepted(r, "clear") /\ request[r].route = "verify"
    BY <1>5 DEF Accept
  <2> QED
    BY <1>0, <2>1, RefuseSteps, AcceptSteps
<1>6. CASE ClearFailures(r)
  <2>1. UNCHANGED confirmed /\ request[r].pc = "clear" /\ Goto(r, "act")
    BY <1>6 DEF ClearFailures, history
  <2>2. request[r].route = "verify"
    BY <1>0, <2>1 DEF RequestKnows
  <2> QED
    BY <1>0, <2>1, <2>2, GoSteps
<1>7. CASE WrongForChallenge(r)
  <2>1. /\ UNCHANGED confirmed
        /\ request' = [request EXCEPT ![r] = [Done EXCEPT !.pc = "count"]]
    BY <1>7 DEF WrongForChallenge, history
  <2> DEFINE n == [Done EXCEPT !.pc = "count"]
  <2>2. n \in RequestState /\ n.pc = "count" /\ n.route = "none" /\ n.code = Wrong
    BY DoneTyped DEF RequestState, Done
  <2>3. RequestKnows(n, confirmed)
    BY <2>2, WrongAssumption DEF RequestKnows
  <2> HIDE DEF n
  <2>4. request' \in [Request -> RequestState] /\ Others(r) /\ request'[r] = n
    BY <2>1, <2>2, OneRequest DEF Others, n
  <2> QED
    BY <2>1, <2>2, <2>3, <2>4 DEF Steps
<1>8. CASE Spend(r)
  <2>1. /\ UNCHANGED confirmed /\ request[r].pc = "act" /\ request[r].route = "verify"
        /\ End(r) \/ Goto(r, "issue")
    BY <1>8 DEF Spend, At, history
  <2> QED
    BY <1>0, <1>8, <2>1, EndSteps, GoSteps
<1>9. CASE DeleteCodes(r)
  <2>1. /\ UNCHANGED confirmed /\ request[r].pc = "act" /\ request[r].route = "codes"
        /\ request' = [request EXCEPT ![r].pc = "commit", ![r].old = recovery]
    BY <1>9 DEF DeleteCodes, At, history
  <2> DEFINE n == [request[r] EXCEPT !.pc = "commit", !.old = recovery]
  <2>2. request[r] \in RequestState /\ recovery \subseteq RecoveryCode
    BY RequestTyped DEF FactorTypeOK
  <2>3. n \in RequestState
    BY <2>2 DEF RequestState
  <2>4. n.pc = "commit" /\ n.route = "codes" /\ n.code = request[r].code
    BY <2>1, <2>2 DEF RequestState
  <2>5. RequestKnows(n, confirmed)
    BY <1>0, <2>1, <2>4 DEF RequestKnows
  <2>6. request' = [request EXCEPT ![r] = n]
    BY <2>1 DEF FactorTypeOK
  <2> HIDE DEF n
  <2>7. request' \in [Request -> RequestState] /\ Others(r) /\ request'[r] = n
    BY <2>3, <2>6, OneRequest DEF Others
  <2> QED
    BY <2>1, <2>4, <2>5, <2>7 DEF Steps
<1>10. CASE \/ CountWrong(r) \/ Issue(r) \/ SavePending(r) \/ Activate(r) \/ InsertCodes(r)
            \/ StartMove(r) \/ CompleteMove(r) \/ Disable(r) \/ Refuse(r)
  <2>1. UNCHANGED confirmed /\ End(r)
    BY <1>10 DEF CountWrong, Issue, SavePending, Activate, InsertCodes, StartMove, CompleteMove, Disable, Refuse, history
  <2> QED
    BY <2>1, EndSteps
<1> QED
  BY <1>1, <1>2, <1>3, <1>4, <1>5, <1>6, <1>7, <1>8, <1>9, <1>10 DEF Serve

-----------------------------------------------------------------------------
\* The row of the factor, the codes and their uses, as the steps that write them leave them.
RowTypeOK ==
    /\ factor \in Factor /\ (factor.state = "none" => factor = NoFactor) /\ (factor.pending # NoSecret => Active)
    /\ recovery \subseteq RecoveryCode
    /\ made \in [secrets : 0..MaxSecrets, sets : 0..MaxSets, requests : 0..MaxRequests]
    /\ uses \in [TotpCode \cup RecoveryCode -> Nat]

\* The fields of the user_totp row.
LEMMA FactorFields ==
    ASSUME FactorTypeOK
    PROVE  /\ factor = [state |-> factor.state, secret |-> factor.secret, last |-> factor.last, failed |-> factor.failed,
                         locked |-> factor.locked, pending |-> factor.pending]
           /\ factor.state \in {"none", "pending", "active"} /\ factor.secret \in 0..MaxSecrets /\ factor.last \in Nat
           /\ factor.failed \in 0..TOTP_LOCK_AFTER /\ factor.locked \in BOOLEAN /\ factor.pending \in 0..MaxSecrets
           /\ made.secrets \in 0..MaxSecrets /\ made.sets \in 0..MaxSets /\ made.requests \in 0..MaxRequests
  BY DEF FactorTypeOK, Factor

RowInv == RowTypeOK /\ SecretsFit /\ UsesFit

\* The part of the types that is about the account.
LEMMA RowTyped == FactorTypeOK => RowTypeOK
  BY DEF FactorTypeOK, RowTypeOK

\* A used code of the authenticator is of a secret that exists.
LEMMA UsedSecrets ==
    ASSUME UsesFit, NEW c \in TotpCode
    PROVE  c.secret # NoSecret /\ c.secret \in Nat /\ c.step \in Nat /\ (uses[c] > 0 => TotpUsed(c))
  BY CodeTyped, FactorAssumption DEF UsesFit, Secret, NoSecret

\* Nothing is used, no code is added, and what the row says of used codes stays.
LEMMA UsesKept ==
    ASSUME UsesFit, UNCHANGED uses, recovery' \subseteq recovery, made'.sets = made.sets,
           \A c \in TotpCode : uses[c] > 0 /\ TotpUsed(c) => TotpUsed(c)'
    PROVE  UsesFit'
  BY DEF UsesFit, CodesWorkOnce

\* A code of the authenticator is used for the first time.
LEMMA TotpUse ==
    ASSUME RowTypeOK, UsesFit, NEW code \in TotpCode, recovery' \subseteq recovery, made' = made,
           Use(code), code.secret = factor'.secret => uses[code] = 0 /\ TotpUsed(code)',
           \A c \in TotpCode : uses[c] > 0 /\ TotpUsed(c) => TotpUsed(c)'
    PROVE  UsesFit' /\ uses' \in [TotpCode \cup RecoveryCode -> Nat]
<1>1. code \notin RecoveryCode /\ uses \in [TotpCode \cup RecoveryCode -> Nat]
  BY CodesApart DEF RowTypeOK
<1>2. CASE code.secret # factor'.secret
  <2>1. UNCHANGED uses
    BY <1>1, <1>2 DEF Use
  <2> QED
    BY <1>1, <2>1, UsesKept
<1>3. CASE code.secret = factor'.secret
  <2>1. uses' = [uses EXCEPT ![code] = @ + 1]
    BY <1>3 DEF Use
  <2>2. uses'[code] = 1 /\ \A c \in TotpCode \cup RecoveryCode : c # code => uses'[c] = uses[c]
    BY <1>1, <1>3, <2>1
  <2>3. uses' \in [TotpCode \cup RecoveryCode -> Nat]
    BY <1>1, <2>1
  <2>4. CodesWorkOnce'
    BY <2>2 DEF CodesWorkOnce, UsesFit
  <2>5. \A c \in TotpCode : uses'[c] > 0 => TotpUsed(c)'
    <3> SUFFICES ASSUME NEW c \in TotpCode, uses'[c] > 0 PROVE TotpUsed(c)'
      OBVIOUS
    <3>1. CASE c = code
      BY <1>3, <3>1
    <3>2. CASE c # code
      BY <2>2, <3>2 DEF UsesFit
    <3> QED
      BY <3>1, <3>2
  <2>6. \A c \in RecoveryCode : uses'[c] = uses[c]
    BY <1>1, <2>2
  <2> QED
    BY <2>3, <2>4, <2>5, <2>6 DEF UsesFit
<1> QED
  BY <1>2, <1>3

\* The codes are replaced, in whole or in part, by a set generated now.
LEMMA FreshUse ==
    ASSUME RowTypeOK, UsesFit, UNCHANGED uses, recovery' \subseteq recovery \cup FreshSet,
           made.sets \in Nat, made'.sets = made.sets + 1,
           \A c \in TotpCode : uses[c] > 0 /\ TotpUsed(c) => TotpUsed(c)'
    PROVE  UsesFit'
<1>1. \A c \in TotpCode : uses'[c] > 0 => TotpUsed(c)'
  BY DEF UsesFit
<1>2. \A c \in FreshSet : c \in RecoveryCode /\ c.set = made.sets + 1
  BY DEF FreshSet
<1>3. \A c \in RecoveryCode : c.set \in Nat /\ uses[c] \in Nat
  BY CodeTyped, FactorAssumption DEF RowTypeOK
<1>4. \A c \in RecoveryCode : c \in recovery' => uses'[c] = 0
  <2> SUFFICES ASSUME NEW c \in RecoveryCode, c \in recovery' PROVE uses[c] = 0
    OBVIOUS
  <2>1. CASE c \in recovery
    BY <2>1 DEF UsesFit
  <2>2. CASE c \in FreshSet
    <3>1. ~ (uses[c] > 0)
      BY <1>2, <1>3, <2>2 DEF UsesFit
    <3> QED
      BY <1>3, <3>1
  <2> QED
    BY <2>1, <2>2
<1>5. \A c \in RecoveryCode : c \in recovery' \/ uses'[c] > 0 => c.set <= made'.sets
  <2> SUFFICES ASSUME NEW c \in RecoveryCode, c \in recovery' \/ uses[c] > 0 PROVE c.set <= made.sets + 1
    OBVIOUS
  <2>1. CASE c \in FreshSet
    BY <1>2, <1>3, <2>1
  <2>2. CASE c \notin FreshSet
    <3>1. c.set <= made.sets
      BY <2>2 DEF UsesFit
    <3> QED
      BY <1>3, <3>1
  <2> QED
    BY <2>1, <2>2
<1>6. CodesWorkOnce'
  BY DEF UsesFit, CodesWorkOnce
<1> QED
  BY <1>1, <1>4, <1>5, <1>6 DEF UsesFit

\* A step that leaves the account alone keeps its part of the invariant.
LEMMA RowKept ==
    ASSUME RowInv, UNCHANGED <<factor, recovery, uses>>,
           made' = made \/ (made.requests < MaxRequests /\ made' = [made EXCEPT !.requests = @ + 1])
    PROVE  RowInv'
<1>1. made' \in [secrets : 0..MaxSecrets, sets : 0..MaxSets, requests : 0..MaxRequests]
      /\ made'.secrets = made.secrets /\ made'.sets = made.sets
  BY FactorAssumption DEF RowInv, RowTypeOK
<1>2. RowTypeOK'
  BY <1>1 DEF RowInv, RowTypeOK, Active
<1>3. SecretsFit'
  BY <1>1 DEF RowInv, SecretsFit
<1>4. UsesFit'
  BY <1>1, UsesKept DEF RowInv, TotpUsed, Active
<1> QED
  BY <1>2, <1>3, <1>4 DEF RowInv

\* The row keeps its secrets and its last step, and what it counts changes.
LEMMA CountKept ==
    ASSUME FactorTypeOK, RowInv, UNCHANGED <<recovery, uses, made>>, NEW failed \in 0..TOTP_LOCK_AFTER, NEW locked \in BOOLEAN,
           factor.state # "none", factor' = [factor EXCEPT !.failed = failed, !.locked = locked]
    PROVE  RowInv'
<1>1. /\ factor' \in Factor /\ factor'.state = factor.state /\ factor'.secret = factor.secret
      /\ factor'.last = factor.last /\ factor'.pending = factor.pending
  BY DEF RowInv, RowTypeOK, Factor
<1>2. RowTypeOK'
  BY <1>1 DEF RowInv, RowTypeOK, Active
<1>3. SecretsFit'
  BY <1>1 DEF RowInv, SecretsFit
<1>4. UsesFit'
  BY <1>1, UsesKept DEF RowInv, TotpUsed, Active
<1> QED
  BY <1>2, <1>3, <1>4 DEF RowInv

\* Disabling, and deleting the codes with it, leave an empty account.
LEMMA ResetRow ==
    ASSUME RowInv, factor' = NoFactor, recovery' = {}, UNCHANGED <<uses, made>>
    PROVE  RowInv'
<1>1. RowTypeOK'
  BY NoFactorTyped DEF RowInv, RowTypeOK
<1>2. SecretsFit'
  BY FactorAssumption DEF RowInv, RowTypeOK, SecretsFit, NoFactor, NoSecret
<1>3. UsesFit'
  <2>1. \A c \in TotpCode : uses[c] > 0 /\ TotpUsed(c) => TotpUsed(c)'
    BY UsedSecrets DEF RowInv, TotpUsed, NoFactor, NoSecret
  <2> QED
    BY <2>1, UsesKept DEF RowInv
<1> QED
  BY <1>1, <1>2, <1>3 DEF RowInv

\* The one UPDATE of acceptTotpStep, and of consumeRecoveryCode, when its WHERE holds.
LEMMA TotpRow ==
    ASSUME FactorTypeOK, RowInv, NEW code \in TotpCode, Active, Later(code),
           factor' = [factor EXCEPT !.last = code.step + 1, !.failed = 0],
           Use(code), recovery' = recovery, made' = made
    PROVE  RowInv'
<1>1. /\ code.secret # NoSecret /\ code.secret \in Nat /\ code.step \in Nat
      /\ uses[code] > 0 => TotpUsed(code)
  BY UsedSecrets DEF RowInv
<1>2. /\ factor' \in Factor /\ factor'.state = factor.state /\ factor'.secret = factor.secret
      /\ factor'.last = code.step + 1 /\ factor'.pending = factor.pending
  <2>1. code.step + 1 \in Nat /\ 0 \in 0..TOTP_LOCK_AFTER
    BY <1>1, FactorAssumption
  <2> QED
    BY <2>1 DEF RowInv, RowTypeOK, Factor
<1>3. factor.last \in Nat /\ factor.last < code.step + 1 /\ factor.secret \in Nat /\ factor.pending \in Nat
  BY FactorFields, FactorAssumption DEF Later
<1>4. \A c \in TotpCode : c.step \in Nat /\ (uses[c] > 0 /\ TotpUsed(c) => TotpUsed(c)')
  BY <1>2, <1>3, <1>1, UsedSecrets DEF RowInv, TotpUsed, Active
<1>5. uses[code] \in Nat
  BY DEF RowInv, RowTypeOK
<1>6. code.secret = factor'.secret => uses[code] = 0 /\ TotpUsed(code)'
  <2> SUFFICES ASSUME code.secret = factor.secret PROVE uses[code] = 0 /\ TotpUsed(code)'
    BY <1>2
  <2>1. ~ TotpUsed(code)
    BY <1>1, <1>3 DEF TotpUsed
  <2>2. uses[code] = 0
    BY <1>1, <1>5, <2>1
  <2>3. code.secret <= made'.secrets /\ code.secret # factor'.pending
    BY <1>1, <1>2 DEF RowInv, SecretsFit
  <2>4. Active' /\ code.step + 1 <= factor'.last
    BY <1>1, <1>2 DEF Active
  <2> QED
    BY <2>2, <2>3, <2>4 DEF TotpUsed
<1>7. UsesFit' /\ uses' \in [TotpCode \cup RecoveryCode -> Nat]
  BY <1>4, <1>6, TotpUse DEF RowInv
<1>8. RowTypeOK'
  BY <1>2, <1>7 DEF RowInv, RowTypeOK, Active
<1>9. SecretsFit'
  BY <1>2 DEF RowInv, SecretsFit
<1> QED
  BY <1>7, <1>8, <1>9 DEF RowInv

\* A recovery code is used and gone in one DELETE.
LEMMA RecoveryRow ==
    ASSUME RowInv, NEW code \in RecoveryCode, code \in recovery, recovery' = recovery \ {code},
           Use(code), factor' = factor, made' = made
    PROVE  RowInv'
<1>1. uses' = [uses EXCEPT ![code] = @ + 1] /\ uses \in [TotpCode \cup RecoveryCode -> Nat]
  BY DEF Use, RowInv, RowTypeOK
<1>2. uses[code] = 0 /\ code.set <= made.sets
  BY DEF RowInv, UsesFit
<1>3. /\ uses' \in [TotpCode \cup RecoveryCode -> Nat] /\ uses'[code] = 1
      /\ \A c \in TotpCode \cup RecoveryCode : c # code => uses'[c] = uses[c]
  BY <1>1, <1>2
<1>4. CodesWorkOnce'
  BY <1>3 DEF RowInv, UsesFit, CodesWorkOnce
<1>5. \A c \in TotpCode : uses'[c] > 0 => TotpUsed(c)'
  <2> SUFFICES ASSUME NEW c \in TotpCode, uses'[c] > 0 PROVE TotpUsed(c)'
    OBVIOUS
  <2>1. c # code
    BY CodesApart
  <2>2. TotpUsed(c)
    BY <1>3, <2>1 DEF RowInv, UsesFit
  <2> QED
    BY <2>2 DEF TotpUsed, Active
<1>6. \A c \in RecoveryCode : c \in recovery' => uses'[c] = 0
  BY <1>3 DEF RowInv, UsesFit
<1>7. \A c \in RecoveryCode : c \in recovery' \/ uses'[c] > 0 => c.set <= made'.sets
  <2> SUFFICES ASSUME NEW c \in RecoveryCode, c \in recovery' \/ uses'[c] > 0 PROVE c.set <= made.sets
    OBVIOUS
  <2>1. CASE c = code
    BY <1>2, <2>1
  <2>2. CASE c # code
    BY <1>3, <2>2 DEF RowInv, UsesFit
  <2> QED
    BY <2>1, <2>2
<1>8. UsesFit'
  BY <1>4, <1>5, <1>6, <1>7 DEF UsesFit
<1>9. RowTypeOK' /\ SecretsFit'
  BY <1>3 DEF RowInv, RowTypeOK, SecretsFit, Active
<1> QED
  BY <1>8, <1>9 DEF RowInv

\* Accepting a code moves last_used_step past it, so it was not used on this secret before.
LEMMA AcceptRow ==
    ASSUME FactorTypeOK, RowInv, NEW r \in Request, Accept(r)
    PROVE  RowInv'
<1>1. PICK code : code = request[r].code
  OBVIOUS
<1>2. made' = made
  BY DEF Accept
<1>3. \/ UNCHANGED <<factor, recovery, uses>>
      \/ /\ code \in TotpCode /\ Active /\ Later(code)
         /\ factor' = [factor EXCEPT !.last = code.step + 1, !.failed = 0]
         /\ Use(code) /\ recovery' = recovery
      \/ /\ code \in RecoveryCode /\ code \in recovery
         /\ recovery' = recovery \ {code} /\ Use(code) /\ factor' = factor
  BY <1>1 DEF Accept
<1> QED
  BY <1>2, <1>3, RowKept, TotpRow, RecoveryRow

\* A secret generated now, as the row's or as the one waiting, is of no code used before.
LEMMA SavePendingRow ==
    ASSUME FactorTypeOK, RowInv, NEW r \in Request, SavePending(r)
    PROVE  RowInv'
<1>1. UNCHANGED <<recovery, uses>>
  BY DEF SavePending, history
<1>2. CASE Active
  BY <1>1, <1>2, RowKept DEF SavePending
<1>3. CASE ~Active
  <2> DEFINE new == made.secrets + 1
  <2>1. /\ made.secrets < MaxSecrets /\ made' = [made EXCEPT !.secrets = new]
        /\ factor' = IF factor.state = "pending" THEN [factor EXCEPT !.secret = new]
                     ELSE [NoFactor EXCEPT !.state = "pending", !.secret = new]
    BY <1>3 DEF SavePending, NewSecret
  <2>2. new \in 1..MaxSecrets /\ made.secrets \in Nat
    BY <2>1, FactorFields, FactorAssumption
  <2>3. /\ made' \in [secrets : 0..MaxSecrets, sets : 0..MaxSets, requests : 0..MaxRequests]
        /\ made'.secrets = new /\ made'.sets = made.sets
    BY <2>1, <2>2 DEF RowInv, RowTypeOK
  <2>4. factor.pending = NoSecret
    BY <1>3 DEF RowInv, RowTypeOK
  <2>5. /\ factor' \in Factor /\ factor'.state = "pending" /\ factor'.secret = new /\ factor'.pending = NoSecret
    <3>1. CASE factor.state = "pending"
      BY <2>1, <2>2, <2>4, <3>1 DEF RowInv, RowTypeOK, Factor
    <3>2. CASE factor.state # "pending"
      <4>1. factor' = [NoFactor EXCEPT !.state = "pending", !.secret = new] /\ new \in 0..MaxSecrets
        BY <2>1, <2>2, <3>2, FactorAssumption
      <4> HIDE DEF new
      <4> QED
        BY <4>1, NoFactorTyped DEF Factor
    <3> QED
      BY <3>1, <3>2
  <2>6. RowTypeOK'
    BY <1>1, <2>3, <2>5 DEF RowInv, RowTypeOK
  <2>7. SecretsFit'
    BY <2>2, <2>3, <2>5 DEF SecretsFit, NoSecret
  <2>8. \A c \in TotpCode : uses[c] > 0 /\ TotpUsed(c) => TotpUsed(c)'
    <3> SUFFICES ASSUME NEW c \in TotpCode, TotpUsed(c) PROVE TotpUsed(c)'
      OBVIOUS
    <3>1. c.secret # NoSecret /\ c.secret \in Nat /\ c.secret <= made.secrets
      BY UsedSecrets DEF RowInv, TotpUsed
    <3> QED
      BY <2>2, <2>3, <2>5, <3>1 DEF TotpUsed
  <2>9. UsesFit'
    BY <1>1, <2>3, <2>8, UsesKept DEF RowInv
  <2> QED
    BY <2>6, <2>7, <2>9 DEF RowInv
<1> QED
  BY <1>2, <1>3

\* A move starts with a secret never used before.
LEMMA StartMoveRow ==
    ASSUME FactorTypeOK, RowInv, NEW r \in Request, StartMove(r)
    PROVE  RowInv'
<1>1. UNCHANGED <<recovery, uses>>
  BY DEF StartMove, history
<1>2. CASE ~Active
  BY <1>1, <1>2, RowKept DEF StartMove, MayMove
<1>3. CASE Active
  <2> DEFINE new == made.secrets + 1
  <2>1. /\ made.secrets < MaxSecrets /\ made' = [made EXCEPT !.secrets = new]
        /\ factor' = [factor EXCEPT !.pending = new]
    BY <1>3 DEF StartMove, NewSecret, MayMove
  <2>2. new \in 1..MaxSecrets /\ made.secrets \in Nat /\ factor.secret \in Nat
    BY <2>1, FactorFields, FactorAssumption
  <2>3. /\ made' \in [secrets : 0..MaxSecrets, sets : 0..MaxSets, requests : 0..MaxRequests]
        /\ made'.secrets = new /\ made'.sets = made.sets
    BY <2>1, <2>2 DEF RowInv, RowTypeOK
  <2>4. /\ factor' \in Factor /\ factor'.state = "active" /\ factor'.secret = factor.secret
        /\ factor'.pending = new /\ factor'.last = factor.last
    BY <1>3, <2>1, <2>2 DEF RowInv, RowTypeOK, Factor, Active
  <2>5. RowTypeOK'
    BY <1>1, <2>3, <2>4 DEF RowInv, RowTypeOK, Active
  <2>6. SecretsFit'
    BY <2>2, <2>3, <2>4 DEF RowInv, SecretsFit
  <2>7. \A c \in TotpCode : uses[c] > 0 /\ TotpUsed(c) => TotpUsed(c)'
    <3> SUFFICES ASSUME NEW c \in TotpCode, TotpUsed(c) PROVE TotpUsed(c)'
      OBVIOUS
    <3>1. c.secret \in Nat /\ c.secret <= made.secrets
      BY UsedSecrets DEF RowInv, TotpUsed
    <3> QED
      BY <2>2, <2>3, <2>4, <3>1 DEF TotpUsed, Active
  <2>8. UsesFit'
    BY <1>1, <2>3, <2>7, UsesKept DEF RowInv
  <2> QED
    BY <2>5, <2>6, <2>8 DEF RowInv
<1> QED
  BY <1>2, <1>3

\* New recovery codes are of a set never issued before.
LEMMA InsertCodesRow ==
    ASSUME FactorTypeOK, RowInv, NEW r \in Request, InsertCodes(r)
    PROVE  RowInv'
<1>1. /\ factor' = factor /\ uses' = uses /\ made.sets < MaxSets
      /\ recovery' = (recovery \ request[r].old) \cup FreshSet
      /\ made' = [made EXCEPT !.sets = @ + 1]
  BY DEF InsertCodes, history
<1>2. made.sets \in Nat /\ made.sets + 1 \in 0..MaxSets
  BY <1>1, FactorFields, FactorAssumption
<1>3. /\ made' \in [secrets : 0..MaxSecrets, sets : 0..MaxSets, requests : 0..MaxRequests]
      /\ made'.secrets = made.secrets /\ made'.sets = made.sets + 1
  BY <1>1, <1>2 DEF RowInv, RowTypeOK
<1>4. recovery' \subseteq recovery \cup FreshSet /\ FreshSet \subseteq RecoveryCode
  BY <1>1 DEF FreshSet
<1>5. RowTypeOK' /\ SecretsFit'
  BY <1>1, <1>3, <1>4 DEF RowInv, RowTypeOK, SecretsFit, Active
<1>6. \A c \in TotpCode : uses[c] > 0 /\ TotpUsed(c) => TotpUsed(c)'
  BY <1>1, <1>3 DEF TotpUsed, Active
<1>7. UsesFit'
  BY <1>1, <1>2, <1>3, <1>4, <1>6, FreshUse DEF RowInv
<1> QED
  BY <1>5, <1>7 DEF RowInv

\* A code used before the factor was on is of a secret thrown away, so the enrolment's is new.
LEMMA ActivateRow ==
    ASSUME FactorTypeOK, RequestsKnow, RowInv, NEW r \in Request, Activate(r)
    PROVE  RowInv'
<1>1. PICK code : code = request[r].code
  OBVIOUS
<1>2. code \in TotpCode
  BY <1>1 DEF RequestsKnow, RequestKnows, Activate, At
<1>3. CASE factor.state # "pending"
  BY <1>3, RowKept DEF Activate
<1>4. CASE factor.state = "pending"
  <2>1. /\ made.sets < MaxSets
        /\ factor' = [factor EXCEPT !.state = "active", !.last = code.step + 1, !.failed = 0, !.locked = FALSE]
        /\ recovery' = FreshSet
        /\ made' = [made EXCEPT !.sets = @ + 1]
        /\ Use(code)
    BY <1>1, <1>4 DEF Activate
  <2>2. made.sets \in Nat /\ made.sets + 1 \in 0..MaxSets
    BY <2>1, FactorFields, FactorAssumption
  <2>3. /\ made' \in [secrets : 0..MaxSecrets, sets : 0..MaxSets, requests : 0..MaxRequests]
        /\ made'.secrets = made.secrets /\ made'.sets = made.sets + 1
    BY <2>1, <2>2 DEF RowInv, RowTypeOK
  <2>4. /\ code.secret # NoSecret /\ code.secret \in Nat /\ code.step \in Nat
        /\ uses[code] > 0 => TotpUsed(code)
    BY <1>2, UsedSecrets DEF RowInv
  <2>5. /\ factor' \in Factor /\ factor'.state = "active" /\ factor'.secret = factor.secret
        /\ factor'.pending = NoSecret /\ factor'.last = code.step + 1
    <3>1. code.step + 1 \in Nat /\ 0 \in 0..TOTP_LOCK_AFTER /\ factor.pending = NoSecret
      BY <1>4, <2>4, FactorAssumption DEF RowInv, RowTypeOK, Active
    <3> QED
      BY <2>1, <3>1 DEF RowInv, RowTypeOK, Factor
  <2>6. \A c \in TotpCode : uses[c] > 0 => c.secret # factor.secret
    BY <1>4, UsedSecrets DEF RowInv, TotpUsed, Active
  <2>7. \A c \in TotpCode : uses[c] > 0 => TotpUsed(c)'
    BY <2>3, <2>5, <2>6, UsedSecrets DEF RowInv, TotpUsed
  <2>8. code \notin RecoveryCode /\ uses \in [TotpCode \cup RecoveryCode -> Nat]
    BY <1>2, CodesApart DEF RowInv, RowTypeOK
  <2>9. \/ uses' = uses
        \/ uses' = [uses EXCEPT ![code] = @ + 1] /\ code.secret = factor.secret
    BY <2>1, <2>5, <2>8 DEF Use
  <2>10. CASE uses' = uses
    <3>1. UsesFit'
      BY <2>1, <2>2, <2>3, <2>7, <2>10, FreshUse DEF RowInv
    <3>2. RowTypeOK' /\ SecretsFit'
      BY <2>1, <2>3, <2>5, <2>10 DEF RowInv, RowTypeOK, SecretsFit, Active, FreshSet, NoSecret
    <3> QED
      BY <3>1, <3>2 DEF RowInv
  <2>11. CASE uses' = [uses EXCEPT ![code] = @ + 1] /\ code.secret = factor.secret
    <3>1. uses[code] = 0
      <4>1. uses[code] \in Nat /\ ~ (uses[code] > 0)
        BY <1>2, <2>6, <2>8, <2>11
      <4> QED
        BY <4>1
    <3>2. /\ uses' \in [TotpCode \cup RecoveryCode -> Nat] /\ uses'[code] = 1
          /\ \A c \in TotpCode \cup RecoveryCode : c # code => uses'[c] = uses[c]
      BY <1>2, <2>8, <2>11, <3>1
    <3>3. CodesWorkOnce'
      BY <3>2 DEF RowInv, UsesFit, CodesWorkOnce
    <3>4. TotpUsed(code)'
      <4>1. factor.secret <= made.secrets /\ factor'.last \in Nat
        BY <2>4, <2>5 DEF RowInv, SecretsFit
      <4> QED
        BY <2>3, <2>4, <2>5, <2>11, <4>1 DEF TotpUsed, Active
    <3>5. \A c \in TotpCode : uses'[c] > 0 => TotpUsed(c)'
      <4> SUFFICES ASSUME NEW c \in TotpCode, uses'[c] > 0 PROVE TotpUsed(c)'
        OBVIOUS
      <4>1. CASE c = code
        BY <3>4, <4>1
      <4>2. CASE c # code
        BY <2>7, <3>2, <4>2
      <4> QED
        BY <4>1, <4>2
    <3>6. \A c \in RecoveryCode : uses'[c] = uses[c] /\ c.set \in Nat /\ uses[c] \in Nat
      BY <2>8, <3>2, CodeTyped, FactorAssumption
    <3>7. \A c \in RecoveryCode : c \in recovery' => uses'[c] = 0
      BY <2>1, <2>2, <3>6 DEF FreshSet, RowInv, UsesFit
    <3>8. \A c \in RecoveryCode : c \in recovery' \/ uses'[c] > 0 => c.set <= made'.sets
      BY <2>1, <2>2, <2>3, <3>6 DEF FreshSet, RowInv, UsesFit
    <3>9. UsesFit'
      BY <3>3, <3>5, <3>7, <3>8 DEF UsesFit
    <3>10. RowTypeOK' /\ SecretsFit'
      BY <2>1, <2>3, <2>5, <3>2 DEF RowInv, RowTypeOK, SecretsFit, Active, FreshSet, NoSecret
    <3> QED
      BY <3>9, <3>10 DEF RowInv
  <2> QED
    BY <2>9, <2>10, <2>11
<1> QED
  BY <1>3, <1>4

\* No code of a waiting secret was used, so the one that ends the move is new.
LEMMA CompleteMoveRow ==
    ASSUME FactorTypeOK, RequestsKnow, RowInv, NEW r \in Request, CompleteMove(r)
    PROVE  RowInv'
<1>1. PICK code : code = request[r].code
  OBVIOUS
<1>2. code \in TotpCode /\ request[r].secret = code.secret
  BY <1>1 DEF RequestsKnow, RequestKnows, CompleteMove, At
<1>3. UNCHANGED <<recovery, made>>
  BY DEF CompleteMove
<1>4. CASE ~(Active /\ SameMove(r))
  BY <1>3, <1>4, RowKept DEF CompleteMove
<1>5. CASE Active /\ SameMove(r)
  <2>1. /\ factor.pending = code.secret
        /\ factor' = [factor EXCEPT !.secret = factor.pending, !.pending = NoSecret,
                                    !.last = code.step + 1, !.failed = 0, !.locked = FALSE]
        /\ Use(code)
    BY <1>1, <1>2, <1>5 DEF CompleteMove, SameMove
  <2>2. /\ code.secret # NoSecret /\ code.secret \in Nat /\ code.step \in Nat
        /\ uses[code] > 0 => TotpUsed(code)
    BY <1>2, UsedSecrets DEF RowInv
  <2>3. /\ factor' \in Factor /\ factor'.state = "active" /\ factor'.secret = code.secret
        /\ factor'.pending = NoSecret /\ factor'.last = code.step + 1
    <3>1. code.step + 1 \in Nat /\ 0 \in 0..TOTP_LOCK_AFTER /\ NoSecret \in 0..MaxSecrets
      BY <2>2, FactorAssumption DEF NoSecret
    <3> QED
      BY <1>5, <2>1, <3>1 DEF RowInv, RowTypeOK, Factor, Active
  <2>4. code.secret <= made.secrets
    BY <2>1 DEF RowInv, SecretsFit
  <2>5. \A c \in TotpCode : uses[c] > 0 /\ TotpUsed(c) => TotpUsed(c)'
    BY <1>3, <2>1, <2>3, UsedSecrets DEF RowInv, TotpUsed
  <2>6. uses[code] = 0
    <3>1. uses[code] \in Nat /\ ~ (uses[code] > 0)
      BY <1>2, <2>1, <2>2 DEF RowInv, RowTypeOK, TotpUsed
    <3> QED
      BY <3>1
  <2>7. TotpUsed(code)'
    BY <1>3, <2>2, <2>3, <2>4 DEF TotpUsed, Active
  <2>8. UsesFit' /\ uses' \in [TotpCode \cup RecoveryCode -> Nat]
    BY <1>2, <1>3, <2>1, <2>5, <2>6, <2>7, TotpUse DEF RowInv
  <2>9. RowTypeOK'
    BY <1>3, <2>3, <2>8 DEF RowInv, RowTypeOK, Active
  <2>10. SecretsFit'
    BY <1>3, <2>3, <2>4, FactorFields, FactorAssumption DEF SecretsFit, NoSecret
  <2> QED
    BY <2>8, <2>9, <2>10 DEF RowInv
<1> QED
  BY <1>4, <1>5

\* Every step keeps the account's part of the invariant.
LEMMA RowStep ==
    ASSUME FactorTypeOK, RequestsKnow, RowInv, [Next]_vars
    PROVE  RowInv'
<1>1. CASE UNCHANGED vars
  BY <1>1, RowKept DEF vars
<1>2. ASSUME NEW r \in Request, (\E route \in Route : Arrive(r, route)) \/ Serve(r) \/ Refuse(r)
      PROVE  RowInv'
  <2>1. CASE \E route \in Route : Arrive(r, route)
    BY <2>1, RowKept DEF Arrive, history
  <2>2. CASE Accept(r)
    BY <1>2, <2>2, AcceptRow
  <2>3. CASE ClearFailures(r)
    <3>1. UNCHANGED <<recovery, uses, made>> /\ factor' = IF Active THEN [factor EXCEPT !.failed = 0] ELSE factor
      BY <2>3 DEF ClearFailures, history
    <3>2. CASE Active
      <4>1. 0 \in 0..TOTP_LOCK_AFTER /\ factor.locked \in BOOLEAN /\ factor.state # "none"
        BY <3>2, FactorFields, FactorAssumption DEF Active
      <4>2. factor' = [factor EXCEPT !.failed = 0, !.locked = factor.locked]
        BY <3>1, <3>2 DEF RowInv, RowTypeOK, Factor
      <4> QED
        BY <3>1, <4>1, <4>2, CountKept
    <3> QED
      BY <3>1, <3>2, RowKept
  <2>4. CASE CountWrong(r)
    <3> DEFINE failed == IF factor.failed < TOTP_LOCK_AFTER THEN factor.failed + 1 ELSE TOTP_LOCK_AFTER
               locked == factor.locked \/ failed = TOTP_LOCK_AFTER
    <3>1. /\ UNCHANGED <<recovery, uses, made>>
          /\ factor' = IF factor.state = "none" THEN factor ELSE [factor EXCEPT !.failed = failed, !.locked = locked]
      BY <2>4 DEF CountWrong, history
    <3>2. CASE factor.state # "none"
      <4>1. failed \in 0..TOTP_LOCK_AFTER
        BY FactorFields, FactorAssumption
      <4>2. locked \in BOOLEAN
        BY FactorFields
      <4>3. factor' = [factor EXCEPT !.failed = failed, !.locked = locked]
        BY <3>1, <3>2
      <4>4. PICK f \in 0..TOTP_LOCK_AFTER : f = failed
        BY <4>1
      <4>5. PICK l \in BOOLEAN : l = locked
        BY <4>2
      <4>6. factor' = [factor EXCEPT !.failed = f, !.locked = l]
        BY <4>3, <4>4, <4>5
      <4> QED
        BY <3>1, <3>2, <4>6, CountKept
    <3>3. CASE factor.state = "none"
      BY <3>1, <3>3, RowKept
    <3> QED
      BY <3>2, <3>3
  <2>5. CASE SavePending(r)
    BY <1>2, <2>5, SavePendingRow
  <2>6. CASE Activate(r)
    BY <1>2, <2>6, ActivateRow
  <2>7. CASE InsertCodes(r)
    BY <1>2, <2>7, InsertCodesRow
  <2>8. CASE StartMove(r)
    BY <1>2, <2>8, StartMoveRow
  <2>9. CASE CompleteMove(r)
    BY <1>2, <2>9, CompleteMoveRow
  <2>10. CASE Disable(r)
    BY <2>10, RowKept, ResetRow DEF Disable, history
  <2>11. CASE \/ FindChallenge(r) \/ ReadState(r) \/ ReadSecret(r) \/ WrongForChallenge(r)
              \/ Spend(r) \/ Issue(r) \/ DeleteCodes(r) \/ Refuse(r)
    <3>1. UNCHANGED <<factor, recovery, uses>> /\ made' = made
      BY <2>11 DEF FindChallenge, ReadState, ReadSecret, WrongForChallenge, Spend, Issue, DeleteCodes, Refuse, history
    <3> QED
      BY <3>1, RowKept
  <2> QED
    BY <1>2, <2>1, <2>2, <2>3, <2>4, <2>5, <2>6, <2>7, <2>8, <2>9, <2>10, <2>11 DEF Serve
<1>3. CASE \E c \in Challenge : PasswordStep(c)
  BY <1>3, RowKept DEF PasswordStep, history
<1>4. CASE \E on \in BOOLEAN : SetRequired(on)
  BY <1>4, RowKept DEF SetRequired, history
<1>5. CASE BreakGlass
  BY <1>5, ResetRow DEF BreakGlass, history
<1>6. CASE Time
  <2>1. UNCHANGED <<recovery, uses>> /\ made' = made
    BY <1>6 DEF Time, history
  <2>2. CASE UNCHANGED factor
    BY <2>1, <2>2, RowKept
  <2>3. CASE factor.locked /\ factor' = [factor EXCEPT !.locked = FALSE]
    <3>1. factor.state # "none"
      BY <2>3 DEF RowInv, RowTypeOK, NoFactor
    <3>2. factor.failed \in 0..TOTP_LOCK_AFTER
      BY FactorFields
    <3>3. PICK f \in 0..TOTP_LOCK_AFTER : f = factor.failed
      BY <3>2
    <3>4. factor' = [factor EXCEPT !.failed = f, !.locked = FALSE]
      BY <2>3, <3>3 DEF RowInv, RowTypeOK, Factor
    <3> QED
      BY <2>1, <3>1, <3>4, CountKept
  <2>4. CASE factor.pending # NoSecret /\ factor' = [factor EXCEPT !.pending = NoSecret]
    <3>1. Active /\ NoSecret \in 0..MaxSecrets
      BY <2>4, FactorAssumption DEF RowInv, RowTypeOK, NoSecret
    <3>2. /\ factor' \in Factor /\ factor'.state = factor.state /\ factor'.secret = factor.secret
          /\ factor'.last = factor.last /\ factor'.pending = NoSecret
      BY <2>4, <3>1 DEF RowInv, RowTypeOK, Factor
    <3>3. RowTypeOK'
      BY <2>1, <3>1, <3>2 DEF RowInv, RowTypeOK, Active
    <3>4. SecretsFit'
      BY <2>1, <3>2, FactorFields, FactorAssumption DEF RowInv, SecretsFit, NoSecret
    <3>5. \A c \in TotpCode : uses[c] > 0 /\ TotpUsed(c) => TotpUsed(c)'
      BY <2>1, <3>2, UsedSecrets DEF RowInv, TotpUsed, Active
    <3>6. UsesFit'
      BY <2>1, <3>5, UsesKept DEF RowInv
    <3> QED
      BY <3>3, <3>4, <3>6 DEF RowInv
  <2> QED
    BY <1>6, <2>2, <2>3, <2>4 DEF Time
<1> QED
  BY <1>1, <1>2, <1>3, <1>4, <1>5, <1>6 DEF Next

-----------------------------------------------------------------------------
\* A step is of one request, or of none.
LEMMA StepSteps ==
    ASSUME FactorTypeOK, RequestsKnow, [Next]_vars
    PROVE  (\E r \in Request : Steps(r)) \/ UNCHANGED <<request, confirmed, sessions>>
<1>1. ASSUME NEW r \in Request, (\E route \in Route : Arrive(r, route)) \/ Serve(r) \/ Refuse(r)
      PROVE  \E q \in Request : Steps(q)
  BY <1>1, RequestSteps
<1>2. CASE (\E c \in Challenge : PasswordStep(c)) \/ (\E on \in BOOLEAN : SetRequired(on)) \/ BreakGlass \/ Time
  BY <1>2 DEF PasswordStep, SetRequired, BreakGlass, Time, history
<1>3. CASE UNCHANGED vars
  BY <1>3 DEF vars
<1> QED
  BY <1>1, <1>2, <1>3 DEF Next

\* Every step keeps what the requests know.
LEMMA KnowStep ==
    ASSUME FactorTypeOK, RequestsKnow, [Next]_vars
    PROVE  RequestsKnow'
<1>1. CASE \E r \in Request : Steps(r)
  BY <1>1, KnowsAfter DEF Steps
<1>2. CASE UNCHANGED <<request, confirmed, sessions>>
  BY <1>2 DEF RequestsKnow, RequestKnows
<1> QED
  BY <1>1, <1>2, StepSteps

ChallengeTypeOK ==
    /\ challenge \in [Challenge -> [state : {"none", "live", "spent", "expired"}, attempts : Nat]]
    /\ sessions \in [Challenge -> Nat]

\* Every step keeps the challenges typed.
LEMMA ChallengeStep ==
    ASSUME FactorTypeOK, RequestsKnow, [Next]_vars
    PROVE  ChallengeTypeOK'
<1>0. ChallengeTypeOK
  BY DEF FactorTypeOK, ChallengeTypeOK
<1>1. CASE UNCHANGED <<challenge, sessions>>
  BY <1>0, <1>1 DEF ChallengeTypeOK
<1>2. ASSUME NEW c \in Challenge, PasswordStep(c) PROVE ChallengeTypeOK'
  BY <1>0, <1>2 DEF PasswordStep, ChallengeTypeOK, history
<1>3. CASE Time
  <2>1. /\ sessions' = sessions
        /\ \/ challenge' = challenge
           \/ \E c \in Challenge : challenge' = [challenge EXCEPT ![c].state = "expired"]
    BY <1>3 DEF Time, history
  <2> QED
    BY <1>0, <2>1 DEF ChallengeTypeOK
<1>4. ASSUME NEW r \in Request, WrongForChallenge(r) PROVE ChallengeTypeOK'
  <2>1. request[r].challenge \in Challenge
    BY <1>4 DEF WrongForChallenge, RequestsKnow, RequestKnows
  <2>2. sessions' = sessions /\ challenge' = [challenge EXCEPT ![request[r].challenge].attempts = @ + 1]
    BY <1>4 DEF WrongForChallenge, history
  <2> QED
    BY <1>0, <2>1, <2>2 DEF ChallengeTypeOK
<1>5. ASSUME NEW r \in Request, Spend(r) PROVE ChallengeTypeOK'
  <2>1. request[r].challenge \in Challenge
    BY <1>5 DEF Spend, At, RequestsKnow, RequestKnows
  <2>2. /\ sessions' = sessions
        /\ challenge' = challenge \/ challenge' = [challenge EXCEPT ![request[r].challenge].state = "spent"]
    BY <1>5 DEF Spend, history
  <2> QED
    BY <1>0, <2>1, <2>2 DEF ChallengeTypeOK
<1>6. ASSUME NEW r \in Request, Issue(r) PROVE ChallengeTypeOK'
  <2>1. request[r].challenge \in Challenge
    BY <1>6 DEF Issue, RequestsKnow, RequestKnows
  <2>2. challenge' = challenge /\ sessions' = [sessions EXCEPT ![request[r].challenge] = @ + 1]
    BY <1>6 DEF Issue
  <2> QED
    BY <1>0, <2>1, <2>2 DEF ChallengeTypeOK
<1>7. ASSUME NEW r \in Request, \/ \E route \in Route : Arrive(r, route)
                                \/ FindChallenge(r) \/ ReadState(r) \/ ReadSecret(r) \/ Accept(r) \/ ClearFailures(r)
                                \/ CountWrong(r) \/ SavePending(r) \/ Activate(r) \/ DeleteCodes(r) \/ InsertCodes(r)
                                \/ StartMove(r) \/ CompleteMove(r) \/ Disable(r) \/ Refuse(r)
      PROVE  UNCHANGED <<challenge, sessions>>
  BY <1>7 DEF Arrive, FindChallenge, ReadState, ReadSecret, Accept, ClearFailures, CountWrong, SavePending, Activate,
              DeleteCodes, InsertCodes, StartMove, CompleteMove, Disable, Refuse, history
<1>8. CASE (\E on \in BOOLEAN : SetRequired(on)) \/ BreakGlass \/ UNCHANGED vars
  BY <1>1, <1>8 DEF SetRequired, BreakGlass, vars, history
<1> QED
  BY <1>1, <1>2, <1>3, <1>4, <1>5, <1>6, <1>7, <1>8 DEF Next, Serve

\* Only Spend makes a challenge spent, only Issue opens a session, and nothing revives a spent one.
LEMMA OnlySpend ==
    ASSUME FactorTypeOK, RequestsKnow, [Next]_vars
    PROVE  /\ \A c \in Challenge : challenge[c].state = "spent" => challenge'[c].state = "spent"
           /\ UNCHANGED sessions \/ \E r \in Request : Issue(r)
<1>0. challenge \in [Challenge -> [state : {"none", "live", "spent", "expired"}, attempts : Nat]]
  BY DEF FactorTypeOK
<1>1. CASE UNCHANGED <<challenge, sessions>>
  BY <1>1
<1>2. ASSUME NEW c \in Challenge, PasswordStep(c)
      PROVE  UNCHANGED sessions /\ \A d \in Challenge : challenge[d].state = "spent" => challenge'[d].state = "spent"
  BY <1>0, <1>2 DEF PasswordStep, history
<1>3. CASE Time
  <2>1. /\ sessions' = sessions
        /\ \/ challenge' = challenge
           \/ \E c \in Challenge : challenge[c].state = "live" /\ challenge' = [challenge EXCEPT ![c].state = "expired"]
    BY <1>3 DEF Time, history
  <2> QED
    BY <1>0, <2>1
<1>4. ASSUME NEW r \in Request, WrongForChallenge(r) \/ Spend(r)
      PROVE  UNCHANGED sessions /\ \A d \in Challenge : challenge[d].state = "spent" => challenge'[d].state = "spent"
  <2>1. /\ sessions' = sessions
        /\ \/ challenge' = challenge
           \/ challenge' = [challenge EXCEPT ![request[r].challenge].attempts = @ + 1]
           \/ challenge' = [challenge EXCEPT ![request[r].challenge].state = "spent"]
    BY <1>4 DEF Spend, WrongForChallenge, history
  <2> QED
    BY <1>0, <2>1
<1>5. ASSUME NEW r \in Request, Issue(r)
      PROVE  challenge' = challenge
  BY <1>5 DEF Issue
<1>6. ASSUME NEW r \in Request, \/ \E route \in Route : Arrive(r, route)
                                \/ FindChallenge(r) \/ ReadState(r) \/ ReadSecret(r) \/ Accept(r) \/ ClearFailures(r)
                                \/ CountWrong(r) \/ SavePending(r) \/ Activate(r) \/ DeleteCodes(r) \/ InsertCodes(r)
                                \/ StartMove(r) \/ CompleteMove(r) \/ Disable(r) \/ Refuse(r)
      PROVE  UNCHANGED <<challenge, sessions>>
  BY <1>6 DEF Arrive, FindChallenge, ReadState, ReadSecret, Accept, ClearFailures, CountWrong, SavePending, Activate,
              DeleteCodes, InsertCodes, StartMove, CompleteMove, Disable, Refuse, history
<1>7. CASE (\E on \in BOOLEAN : SetRequired(on)) \/ BreakGlass \/ UNCHANGED vars
  BY <1>1, <1>7 DEF SetRequired, BreakGlass, vars, history
<1> QED
  BY <1>1, <1>2, <1>3, <1>4, <1>5, <1>6, <1>7 DEF Next, Serve

\* A challenge is spent by one request, which opens its session or dies first.
LEMMA SpentStep ==
    ASSUME FactorTypeOK, RequestsKnow, ChallengesSpent, [Next]_vars
    PROVE  ChallengesSpent'
<1>0. /\ challenge \in [Challenge -> [state : {"none", "live", "spent", "expired"}, attempts : Nat]]
      /\ sessions \in [Challenge -> Nat]
      /\ \A q \in Request : request[q].pc = "issue" => request[q].challenge \in Challenge
  BY DEF FactorTypeOK, RequestsKnow, RequestKnows
<1>1. \A c \in Challenge : challenge[c].state = "spent" => challenge'[c].state = "spent"
  BY OnlySpend
<1>2. ASSUME NEW r \in Request, Issue(r) PROVE ChallengesSpent'
  <2> DEFINE c == request[r].challenge
  <2>1. request[r].pc = "issue" /\ c \in Challenge /\ sessions[c] = 0 /\ challenge[c].state = "spent"
    BY <1>0, <1>2 DEF Issue, ChallengesSpent
  <2>2. challenge' = challenge /\ sessions' = [sessions EXCEPT ![c] = @ + 1]
    BY <1>2 DEF Issue
  <2>3. request'[r] = Done /\ \A q \in Request \ {r} : request'[q] = request[q]
    BY <1>2, Ends DEF Issue, Others
  <2>4. \A q \in Request : request'[q].pc = "issue" => q # r /\ request'[q] = request[q] /\ request[q].challenge # c
    BY <2>1, <2>3 DEF Done, ChallengesSpent
  <2>5. \A d \in Challenge : sessions'[d] = IF d = c THEN 1 ELSE sessions[d]
    BY <1>0, <2>1, <2>2
  <2>6. \A d \in Challenge : sessions'[d] > 0 => challenge'[d].state = "spent" /\ sessions'[d] = 1
    BY <2>1, <2>2, <2>5 DEF ChallengesSpent
  <2>7. \A q \in Request : request'[q].pc = "issue" =>
           challenge'[request'[q].challenge].state = "spent" /\ sessions'[request'[q].challenge] = 0
    BY <1>0, <2>2, <2>4, <2>5 DEF ChallengesSpent
  <2>8. \A p, q \in Request : request'[p].pc = "issue" /\ request'[q].pc = "issue"
                              /\ request'[q].challenge = request'[p].challenge => q = p
    BY <2>4 DEF ChallengesSpent
  <2> QED
    BY <2>6, <2>7, <2>8 DEF ChallengesSpent
<1>3. ASSUME UNCHANGED sessions, NEW r \in Request, Steps(r) PROVE ChallengesSpent'
  <2>1. \A q \in Request \ {r} : request'[q] = request[q]
    BY <1>3 DEF Steps, Others
  <2>2. \A d \in Challenge : sessions'[d] > 0 => challenge'[d].state = "spent" /\ sessions'[d] = 1
    BY <1>1, <1>3 DEF ChallengesSpent
  <2>3. CASE request'[r].pc # "issue"
    <3>1. \A q \in Request : request'[q].pc = "issue" => request'[q] = request[q]
      BY <2>1, <2>3
    <3> QED
      BY <1>0, <1>1, <1>3, <2>2, <3>1 DEF ChallengesSpent
  <2>4. CASE request'[r].pc = "issue"
    <3> DEFINE c == request[r].challenge
    <3>1. Spend(r) /\ c \in Challenge
      BY <1>3, <2>4 DEF Steps, Spend, At, RequestsKnow, RequestKnows
    <3>2. challenge[c].state = "live" /\ challenge' = [challenge EXCEPT ![c].state = "spent"] /\ Goto(r, "issue")
      BY <2>4, <3>1, Ends DEF Spend, Done
    <3>3. request'[r].challenge = c
      BY <3>2, Goes, RequestTyped DEF Pc, RequestState
    <3>4. challenge'[c].state = "spent" /\ sessions[c] = 0
      <4>1. ~ (sessions[c] > 0) /\ sessions[c] \in Nat
        BY <1>0, <3>1, <3>2 DEF ChallengesSpent
      <4> QED
        BY <1>0, <3>1, <3>2, <4>1
    <3>5. \A q \in Request \ {r} : request'[q].pc = "issue" => request[q].pc = "issue" /\ request'[q].challenge # c
      BY <2>1, <3>2 DEF ChallengesSpent
    <3>6. \A q \in Request : request'[q].pc = "issue" =>
             challenge'[request'[q].challenge].state = "spent" /\ sessions'[request'[q].challenge] = 0
      BY <1>0, <1>1, <1>3, <2>1, <3>3, <3>4, <3>5 DEF ChallengesSpent
    <3>7. \A p, q \in Request : request'[p].pc = "issue" /\ request'[q].pc = "issue"
                                /\ request'[q].challenge = request'[p].challenge => q = p
      BY <2>1, <3>3, <3>5 DEF ChallengesSpent
    <3> QED
      BY <2>2, <3>6, <3>7 DEF ChallengesSpent
  <2> QED
    BY <2>3, <2>4
<1>4. CASE UNCHANGED <<request, confirmed, sessions>>
  BY <1>0, <1>1, <1>4 DEF ChallengesSpent
<1> QED
  BY <1>2, <1>3, <1>4, OnlySpend, StepSteps

\* The invariant holds at the start.
LEMMA FactorInit == Init => FactorInv
<1> SUFFICES ASSUME Init PROVE FactorInv
  OBVIOUS
<1>1. request = [r \in Request |-> Done] /\ challenge = [c \in Challenge |-> [state |-> "none", attempts |-> 0]]
      /\ sessions = [c \in Challenge |-> 0] /\ uses = [c \in TotpCode \cup RecoveryCode |-> 0]
  BY DEF Init
<1>2. RequestsKnow
  BY <1>1, EndKnows DEF RequestsKnow
<1>3. ChallengesSpent
  BY <1>1 DEF ChallengesSpent, Done
<1>4. 1 \in 0..MaxSecrets /\ 1 \in 0..MaxSets
  BY FactorAssumption
<1>5. ASSUME factor = NoFactor, recovery = {}, confirmed = {}, made = [secrets |-> 0, sets |-> 0, requests |-> 0]
      PROVE  FactorInv
  <2>1. FactorTypeOK
    BY <1>1, <1>5, DoneTyped, NoFactorTyped, FactorAssumption DEF FactorTypeOK, Init
  <2>2. SecretsFit /\ UsesFit
    BY <1>1, <1>5 DEF SecretsFit, UsesFit, CodesWorkOnce, NoFactor, NoSecret
  <2> QED
    BY <1>2, <1>3, <2>1, <2>2 DEF FactorInv
<1>6. ASSUME factor = [NoFactor EXCEPT !.state = "active", !.secret = 1], recovery = {c \in RecoveryCode : c.set = 1},
             confirmed = {1}, made = [secrets |-> 1, sets |-> 1, requests |-> 0]
      PROVE  FactorInv
  <2>1. factor \in Factor /\ factor.state = "active" /\ factor.secret = 1 /\ factor.pending = NoSecret
    BY <1>4, <1>6, NoFactorTyped DEF Factor
  <2>2. /\ made \in [secrets : 0..MaxSecrets, sets : 0..MaxSets, requests : 0..MaxRequests]
        /\ confirmed \subseteq Secret /\ recovery \subseteq RecoveryCode
    BY <1>4, <1>6, FactorAssumption DEF Secret
  <2>3. FactorTypeOK
    BY <1>1, <2>1, <2>2, DoneTyped, FactorAssumption DEF FactorTypeOK, Init, Active
  <2>4. SecretsFit
    BY <1>6, <2>1 DEF SecretsFit, NoSecret
  <2>5. UsesFit
    BY <1>1, <1>6 DEF UsesFit, CodesWorkOnce
  <2> QED
    BY <1>2, <1>3, <2>3, <2>4, <2>5 DEF FactorInv
<1> QED
  BY <1>5, <1>6 DEF Init

\* Every step keeps it.
LEMMA FactorStep == FactorInv /\ [Next]_vars => FactorInv'
<1> SUFFICES ASSUME FactorInv, [Next]_vars PROVE FactorInv'
  OBVIOUS
<1>1. FactorTypeOK /\ RequestsKnow /\ ChallengesSpent /\ RowInv
  BY RowTyped DEF FactorInv, RowInv
<1>2. RowInv'
  BY <1>1, RowStep
<1>3. RequestsKnow' /\ ChallengesSpent' /\ ChallengeTypeOK'
  BY <1>1, KnowStep, SpentStep, ChallengeStep
<1>4. request' \in [Request -> RequestState]
  <2>1. CASE \E r \in Request : Steps(r)
    BY <2>1 DEF Steps
  <2>2. CASE UNCHANGED <<request, confirmed, sessions>>
    BY <1>1, <2>2 DEF FactorTypeOK
  <2> QED
    BY <1>1, <2>1, <2>2, StepSteps
<1>5. required' \in BOOLEAN
  <2>1. required \in BOOLEAN
    BY <1>1 DEF FactorTypeOK
  <2>2. UNCHANGED required \/ \E on \in BOOLEAN : SetRequired(on)
    BY DEF Next, vars, Serve, Arrive, PasswordStep, FindChallenge, ReadState, ReadSecret, Accept, ClearFailures,
           WrongForChallenge, CountWrong, Spend, Issue, SavePending, Activate, DeleteCodes, InsertCodes, StartMove,
           CompleteMove, Disable, BreakGlass, Time, Refuse
  <2> QED
    BY <2>1, <2>2 DEF SetRequired
<1>6. now' \in 0..MaxStep
  <2>1. now \in 0..MaxStep
    BY <1>1 DEF FactorTypeOK
  <2>2. UNCHANGED now \/ Time
    BY DEF Next, vars, Serve, Arrive, PasswordStep, FindChallenge, ReadState, ReadSecret, Accept, ClearFailures,
           WrongForChallenge, CountWrong, Spend, Issue, SavePending, Activate, DeleteCodes, InsertCodes, StartMove,
           CompleteMove, Disable, BreakGlass, SetRequired, Refuse
  <2>3. now' = now \/ (now < MaxStep /\ now' = now + 1)
    BY <2>2 DEF Time
  <2> QED
    BY <2>1, <2>3, FactorAssumption
<1>7. confirmed' \subseteq Secret
  <2>1. confirmed \subseteq Secret
    BY <1>1 DEF FactorTypeOK
  <2>2. UNCHANGED confirmed \/ \E r \in Request : ReadSecret(r)
    BY DEF Next, vars, Serve, Arrive, PasswordStep, FindChallenge, ReadState, Accept, ClearFailures,
           WrongForChallenge, CountWrong, Spend, Issue, SavePending, Activate, DeleteCodes, InsertCodes, StartMove,
           CompleteMove, Disable, BreakGlass, SetRequired, Time, Refuse, history
  <2>3. ASSUME NEW r \in Request, ReadSecret(r)
        PROVE  confirmed' \subseteq Secret
    <3> DEFINE secret == IF request[r].route = "move confirm" THEN factor.pending ELSE factor.secret
    <3>1. confirmed' = confirmed \/ (confirmed' = confirmed \cup {secret} /\ Matches(request[r].code, secret))
      BY <2>3 DEF ReadSecret
    <3>2. Matches(request[r].code, secret) => secret \in Secret
      BY CodeTyped DEF Matches
    <3> QED
      BY <2>1, <3>1, <3>2
  <2> QED
    BY <2>1, <2>2, <2>3
<1>8. FactorTypeOK'
  BY <1>2, <1>3, <1>4, <1>5, <1>6, <1>7 DEF FactorTypeOK, RowInv, RowTypeOK, ChallengeTypeOK
<1> QED
  BY <1>2, <1>3, <1>8 DEF FactorInv, RowInv

\* The inductive invariant of the second factor (`routes/twoFactor.ts`, `twoFactorStore.ts`): what each request
\* knows at its statement, that a challenge with a session is spent and has only that one, and
\* which codes were used.
THEOREM FactorInvariant == Spec => []FactorInv
  BY FactorInit, FactorStep, PTL DEF Spec

\* The state of the factor, its codes and the requests stay what the code takes them to be.
THEOREM FactorIsTyped == Spec => []FactorTypeOK
<1>1. FactorInv => FactorTypeOK
  BY DEF FactorInv
<1> QED
  BY <1>1, FactorInvariant, PTL

(***************************************************************************)
(* However many requests present a code, on whichever routes, one of them  *)
(* has it accepted: acceptTotpStep compares with the last step in the same *)
(* statement that sets it, a secret given up is never the stored one       *)
(* again, and no code of a secret that only waits is accepted.             *)
(***************************************************************************)
THEOREM CodesAreUsedOnce == Spec => []CodesWorkOnce
<1>1. FactorInv => CodesWorkOnce
  BY DEF FactorInv, UsesFit
<1> QED
  BY <1>1, FactorInvariant, PTL

\* spendChallenge gives the challenge to one request, so that it opens one session.
THEOREM ChallengesOpenOnce == Spec => []OneSessionPerChallenge
<1>1. FactorInv => OneSessionPerChallenge
  <2> SUFFICES ASSUME FactorInv, NEW c \in Challenge
               PROVE  sessions[c] <= 1 /\ (sessions[c] = 1 => challenge[c].state # "live")
    BY DEF OneSessionPerChallenge
  <2>1. sessions[c] \in Nat /\ (sessions[c] > 0 => challenge[c].state = "spent" /\ sessions[c] = 1)
    BY DEF FactorInv, FactorTypeOK, ChallengesSpent
  <2> QED
    BY <2>1
<1> QED
  BY <1>1, FactorInvariant, PTL

\* completeDeviceMove puts in place only the secret that its code was checked against.
THEOREM MovesEndConfirmed == Spec => MovesAreConfirmed
<1>1. ASSUME FactorInv, [Next]_vars, Active, factor'.state = "active", factor'.secret # factor.secret
      PROVE  factor'.secret \in confirmed
  <2>1. factor \in Factor /\ RequestsKnow
    BY <1>1 DEF FactorInv, FactorTypeOK
  <2>2. PICK r \in Request : CompleteMove(r)
    <3>1. ASSUME NEW r \in Request, Serve(r), ~CompleteMove(r) PROVE FALSE
      <4>1. factor' # factor
        BY <1>1
      <4>2. \/ Accept(r) \/ ClearFailures(r) \/ CountWrong(r) \/ SavePending(r) \/ Activate(r) \/ StartMove(r) \/ Disable(r)
        BY <3>1, <4>1 DEF Serve, FindChallenge, ReadState, ReadSecret, WrongForChallenge, Spend, Issue, DeleteCodes, InsertCodes
      <4>3. CASE Accept(r)
        <5>1. factor' = [factor EXCEPT !.last = request[r].code.step + 1, !.failed = 0]
          BY <4>1, <4>3 DEF Accept
        <5> QED
          BY <1>1, <2>1, <5>1 DEF Factor
      <4>4. CASE ClearFailures(r)
        BY <1>1, <2>1, <4>4 DEF ClearFailures, Factor
      <4>5. CASE CountWrong(r)
        BY <1>1, <2>1, <4>5 DEF CountWrong, Factor
      <4>6. CASE SavePending(r)
        BY <1>1, <4>6 DEF SavePending
      <4>7. CASE Activate(r)
        BY <1>1, <2>1, <4>7 DEF Activate, Factor, Active
      <4>8. CASE StartMove(r)
        BY <1>1, <2>1, <4>8 DEF StartMove, Factor
      <4>9. CASE Disable(r)
        BY <1>1, <4>1, <4>9, NoFactorTyped DEF Disable
      <4> QED
        BY <4>2, <4>3, <4>4, <4>5, <4>6, <4>7, <4>8, <4>9
    <3>2. ASSUME NEW r \in Request, (\E route \in Route : Arrive(r, route)) \/ Refuse(r) PROVE FALSE
      BY <1>1, <3>2 DEF Arrive, Refuse
    <3>3. CASE \/ \E c \in Challenge : PasswordStep(c)
               \/ \E on \in BOOLEAN : SetRequired(on)
               \/ BreakGlass \/ Time \/ UNCHANGED vars
      BY <1>1, <2>1, <3>3 DEF PasswordStep, SetRequired, BreakGlass, Time, vars, NoFactor, Factor
    <3> QED
      BY <1>1, <3>1, <3>2, <3>3 DEF Next
  <2>3. factor'.secret = factor.pending /\ factor.pending = request[r].secret
    BY <1>1, <2>1, <2>2 DEF CompleteMove, SameMove, Factor
  <2>4. request[r].secret \in confirmed
    BY <2>1, <2>2 DEF RequestsKnow, RequestKnows, CompleteMove, At
  <2> QED
    BY <2>3, <2>4
<1>2. FactorInv /\ [Next]_vars =>
        [Active /\ factor'.state = "active" /\ factor'.secret # factor.secret => factor'.secret \in confirmed]_vars
  BY <1>1
<1> QED
  BY <1>2, FactorInvariant, PTL DEF Spec, MovesAreConfirmed

\* disableTwoFactor reads the requirement again in its transaction, so none that it marks is turned off.
THEOREM RequiredIsKept == Spec => RequiredStaysOn
<1>1. ASSUME FactorInv, [Next]_vars, NEW r \in Request, At(r, "disable", "act"), Active, required, request'[r] = Done
      PROVE  factor' # NoFactor
  <2>1. factor # NoFactor /\ request[r].pc = "act" /\ request \in [Request -> RequestState]
    BY <1>1 DEF Active, NoFactor, At, FactorInv, FactorTypeOK
  <2>2. request'[r] # request[r]
    BY <1>1, <2>1 DEF Done
  <2>3. CASE Disable(r) \/ Refuse(r)
    BY <1>1, <2>1, <2>3 DEF Disable, MayDisable, Refuse
  <2>4. CASE ~(Disable(r) \/ Refuse(r))
    <3>1. PICK q \in Request : (\E route \in Route : Arrive(q, route)) \/ Serve(q) \/ Refuse(q)
      BY <1>1, <2>2 DEF Next, vars, PasswordStep, SetRequired, BreakGlass, Time
    <3>2. Others(q)
      BY <1>1, <3>1, RequestSteps DEF Steps, FactorInv
    <3>3. q = r
      BY <2>2, <3>2 DEF Others
    <3> QED
      BY <1>1, <2>1, <2>4, <3>1, <3>3 DEF At, Serve, Arrive, FindChallenge, ReadState, ReadSecret, Accept, ClearFailures,
         WrongForChallenge, CountWrong, Spend, Issue, SavePending, Activate, DeleteCodes, InsertCodes, StartMove, CompleteMove
  <2> QED
    BY <2>3, <2>4
<1>2. FactorInv /\ [Next]_vars =>
        [\A r \in Request : At(r, "disable", "act") /\ Active /\ required => (request'[r] = Done => factor' # NoFactor)]_vars
  BY <1>1
<1> QED
  BY <1>2, FactorInvariant, PTL DEF Spec, RequiredStaysOn
=============================================================================
