---------------------------- MODULE ClassResults ----------------------------
(***************************************************************************)
(* One class's results for one term: the marks teachers enter subject by   *)
(* subject, the submission of each subject, and the approval, publication  *)
(* and return of the class, with the report cards made from it.  The       *)
(* status of a subject (subject_result_status) and of a pupil              *)
(* (result_status) are rows that no handler locks: each reads what it      *)
(* needs, one statement at a time, and writes in a later one.  A request   *)
(* or a report-card batch may die between two statements.                  *)
(*                                                                         *)
(* A pupil's marks in a subject stand for all its components.  The         *)
(* subjects taught are fixed for the term; pupils join and leave.  A row   *)
(* that is absent reads as "draft".  The legacy pupil status 'submitted'   *)
(* is not written since migration 030.                                     *)
(***************************************************************************)
EXTENDS FiniteSets

CONSTANTS
    Pupil,        \* the pupils who are in the class at some time
    Mover,        \* those of them who may join or leave during the term
    Subject,      \* the subjects assigned for the class and term
    Mark,         \* what may be entered
    Batch,        \* the sets of pupils a request may enter scores for
    NoMark,       \* no score row
    Followed,     \* bound: the pupils whose report cards are followed
    Worker        \* requests and batches in flight

ASSUME ResultsAssumption ==
    /\ Mover \subseteq Pupil /\ Batch \subseteq SUBSET Pupil /\ Followed \subseteq Pupil /\ NoMark \notin Mark /\ Subject # {}

Stayer == Pupil \ Mover
Sheet == [Subject -> Mark \cup {NoMark}]
NoPdf == [x \in {} |-> NoMark]

VARIABLES
    enrolled,     \* student_classes
    score,        \* scores
    subject,      \* subject_result_status.status
    result,       \* result_status.status
    pdf,          \* the report card in storage, its marks
    card,         \* report_cards: no row ("none"), is_published FALSE ("held") or TRUE ("released")
    task          \* per worker, its next statement and what it has read

vars == <<enrolled, score, subject, result, pdf, card, task>>
cards == <<pdf, card>>

Idle == [pc |-> "idle"]
Final == {"approved", "published"}

ResultsInit ==
    /\ enrolled \in {Stayer \cup m : m \in SUBSET Mover}
    /\ score = [s \in Pupil |-> [x \in Subject |-> NoMark]]
    /\ subject = [x \in Subject |-> "draft"]
    /\ result = [s \in Pupil |-> "draft"]
    /\ pdf = [s \in Pupil |-> NoPdf]
    /\ card = [s \in Pupil |-> "none"]
    /\ task = [w \in Worker |-> Idle]

At(w, pc) == task[w].pc = pc
Then(w, t) == task' = [task EXCEPT ![w] = t]
Continue(w, pc) == Then(w, [task[w] EXCEPT !.pc = pc])
Finish(w) == Then(w, Idle)
Reads == UNCHANGED <<enrolled, score, subject, result, cards>>

Complete(sheet) == \A x \in Subject : sheet[x] # NoMark

\* Mutant of Upserted: one row at a time, and the request died after the first.
UpsertedFirst(roll, from, new) ==
    LET first == CHOOSE s \in roll : TRUE IN
    [s \in Pupil |-> IF s \in roll /\ s = first /\ result[s] \in from THEN new ELSE result[s]]

\* batchUpsertStatuses: the rows of roll go to status new, those in one of the statuses from.
Upserted(roll, from, new) ==
    [s \in Pupil |-> IF s \in roll /\ result[s] \in from THEN new ELSE result[s]]

Move(s) ==
    /\ enrolled' = IF s \in enrolled THEN enrolled \ {s} ELSE enrolled \cup {s}
    /\ UNCHANGED <<score, subject, result, cards, task>>

\* Another class of the school approves, publishes or returns a pupil who is there.
Elsewhere(s) ==
    /\ s \notin enrolled
    /\ \E st \in {"draft", "approved", "published"} : result' = [result EXCEPT ![s] = st]
    /\ UNCHANGED <<enrolled, score, subject, cards, task>>

-----------------------------------------------------------------------------
(* Entering scores, one (after a check that the pupil is enrolled) or a batch. *)

StartEntry(w, x, batch, v) ==
    /\ At(w, "idle")
    /\ \E bulk \in BOOLEAN :
        /\ ~bulk => batch \subseteq enrolled /\ Cardinality(batch) = 1
        /\ Then(w, [pc |-> "entry subject", subject |-> x, batch |-> batch, mark |-> v, bulk |-> bulk])
    /\ Reads

EntrySubject(w) ==
    /\ At(w, "entry subject")
    /\ IF subject[task[w].subject] = "submitted" THEN Finish(w) ELSE Continue(w, "entry result")
    /\ Reads

EntryResult(w) ==
    LET t == task[w] IN
    /\ At(w, "entry result")
    /\ IF /\ \A s \in t.batch : result[s] \notin Final
          /\ t.bulk => t.batch \subseteq enrolled
       THEN Then(w, [pc |-> "entry write", subject |-> t.subject, batch |-> t.batch, mark |-> t.mark])
       ELSE Finish(w)
    /\ Reads

EntryWrite(w) ==
    LET t == task[w] IN
    /\ At(w, "entry write")
    /\ score' = [s \in Pupil |-> IF s \in t.batch THEN [score[s] EXCEPT ![t.subject] = t.mark] ELSE score[s]]
    /\ Finish(w)
    /\ UNCHANGED <<enrolled, subject, result, cards>>

-----------------------------------------------------------------------------
(* Submitting a subject. *)

StartSubmit(w, x) ==
    /\ At(w, "idle") /\ enrolled # {}
    /\ Then(w, [pc |-> "submit scores", subject |-> x, roll |-> enrolled])
    /\ Reads

\* Mutant of SubmitScores: one pupil's mark is enough.
SubmitScoresAny(w) ==
    LET t == task[w] IN
    /\ At(w, "submit scores")
    /\ IF \E s \in t.roll : score[s][t.subject] # NoMark THEN Continue(w, "submit result") ELSE Finish(w)
    /\ Reads

SubmitScores(w) ==
    LET t == task[w] IN
    /\ At(w, "submit scores")
    /\ IF \A s \in t.roll : score[s][t.subject] # NoMark THEN Continue(w, "submit result") ELSE Finish(w)
    /\ Reads

SubmitResult(w) ==
    /\ At(w, "submit result")
    /\ IF \A s \in enrolled : result[s] \notin Final THEN Continue(w, "submit write") ELSE Finish(w)
    /\ Reads

SubmitWrite(w) ==
    /\ At(w, "submit write")
    /\ subject' = [subject EXCEPT ![task[w].subject] = "submitted"]
    /\ Finish(w)
    /\ UNCHANGED <<enrolled, score, result, cards>>

-----------------------------------------------------------------------------
(* Approving, publishing and returning the class. *)

StartApprove(w) ==
    /\ At(w, "idle") /\ enrolled # {}
    /\ \A s \in enrolled : result[s] \notin Final
    /\ Then(w, [pc |-> "approve subjects", roll |-> enrolled])
    /\ Reads

\* Mutant of ApproveSubjects: one submitted subject is enough, as before migration 030.
ApproveSubjectsAny(w) ==
    /\ At(w, "approve subjects")
    /\ IF \E x \in Subject : subject[x] = "submitted" THEN Continue(w, "approve write") ELSE Finish(w)
    /\ Reads

ApproveSubjects(w) ==
    /\ At(w, "approve subjects")
    /\ IF \A x \in Subject : subject[x] = "submitted" THEN Continue(w, "approve write") ELSE Finish(w)
    /\ Reads

ApproveWrite(w) ==
    /\ At(w, "approve write")
    /\ result' = Upserted(task[w].roll, {"draft"}, "approved")
    /\ Finish(w)
    /\ UNCHANGED <<enrolled, score, subject, cards>>

StartPublish(w) ==
    /\ At(w, "idle") /\ enrolled # {}
    /\ \A s \in enrolled : result[s] = "approved"
    /\ Then(w, [pc |-> "publish write", roll |-> enrolled])
    /\ Reads

PublishWrite(w) ==
    /\ At(w, "publish write")
    /\ result' = Upserted(task[w].roll, {"approved"}, "published")
    /\ Continue(w, "publish cards")
    /\ UNCHANGED <<enrolled, score, subject, cards>>

PublishCards(w) ==
    /\ At(w, "publish cards")
    /\ card' = [s \in Pupil |-> IF s \in task[w].roll /\ card[s] = "held" THEN "released" ELSE card[s]]
    /\ Finish(w)
    /\ UNCHANGED <<enrolled, score, subject, result, pdf>>

\* One subject, or every one of them; the pupils to reset are those read approved, and the
\* write that resets them does not look at their status again.
StartReturn(w, xs) ==
    /\ At(w, "idle") /\ enrolled # {}
    /\ \A s \in enrolled : result[s] # "published"
    /\ Then(w, [pc |-> "return write", subjects |-> xs, roll |-> {s \in enrolled : result[s] # "draft"}])
    /\ Reads

ReturnWrite(w) ==
    /\ At(w, "return write")
    /\ result' = Upserted(task[w].roll, {"draft"} \cup Final, "draft")
    /\ Continue(w, "return subjects")
    /\ UNCHANGED <<enrolled, score, subject, cards>>

\* Mutant of ReturnSubjects: the status the pupils' rows had before migration 030.
ReturnSubjectsLegacy(w) ==
    /\ At(w, "return subjects")
    /\ subject' = [x \in Subject |-> IF x \in task[w].subjects THEN "returned" ELSE subject[x]]
    /\ Finish(w)
    /\ UNCHANGED <<enrolled, score, result, cards>>

ReturnSubjects(w) ==
    /\ At(w, "return subjects")
    /\ subject' = [x \in Subject |-> IF x \in task[w].subjects THEN "draft" ELSE subject[x]]
    /\ Finish(w)
    /\ UNCHANGED <<enrolled, score, result, cards>>

-----------------------------------------------------------------------------
(* Report cards: a batch goes on after its request was answered. *)

\* Mutant of StartCards: the whole class, whatever its status.
StartCardsForAll(w) ==
    /\ At(w, "idle") /\ enrolled # {}
    /\ Then(w, [pc |-> "cards compute", roll |-> enrolled \cap Followed])
    /\ Reads

StartCards(w) ==
    LET eligible == {s \in enrolled : result[s] \in Final} IN
    /\ At(w, "idle") /\ eligible # {}
    /\ Then(w, [pc |-> "cards compute", roll |-> eligible \cap Followed])
    /\ Reads

\* The next card of roll, or the end of the batch.
Render(w, roll, sheets) ==
    Then(w, IF roll = {} THEN Idle ELSE [pc |-> "cards upload", roll |-> roll, sheets |-> sheets])

ComputeCards(w) ==
    /\ At(w, "cards compute")
    /\ Render(w, task[w].roll, [s \in Pupil |-> IF s \in task[w].roll THEN score[s] ELSE NoPdf])
    /\ Reads

\* The file is overwritten before its row is; a card that fails is counted and left out.
Upload(w, s) ==
    LET t == task[w] IN
    /\ At(w, "cards upload") /\ s \in t.roll
    /\ \/ /\ pdf' = [pdf EXCEPT ![s] = t.sheets[s]]
          /\ Then(w, [pc |-> "cards row", roll |-> t.roll, sheets |-> t.sheets, of |-> s])
       \/ /\ Render(w, t.roll \ {s}, t.sheets)
          /\ UNCHANGED pdf
    /\ UNCHANGED <<enrolled, score, subject, result, card>>

\* A new row is released if the result is published by now; an old row keeps what it says.  A
\* row that cannot be written is counted as a failure, and the batch goes on.
CardRow(w) ==
    LET t == task[w] IN
    /\ At(w, "cards row")
    /\ \/ card' = [card EXCEPT ![t.of] =
                      IF @ # "none" THEN @ ELSE IF result[t.of] = "published" THEN "released" ELSE "held"]
       \/ UNCHANGED card
    /\ Render(w, t.roll \ {t.of}, t.sheets)
    /\ UNCHANGED <<enrolled, score, subject, result, pdf>>

-----------------------------------------------------------------------------

\* The server stops, or the statement fails.
Die(w) == ~At(w, "idle") /\ Finish(w) /\ Reads

Start(w) ==
    \/ \E x \in Subject, batch \in Batch, v \in Mark : StartEntry(w, x, batch, v)
    \/ \E x \in Subject : StartSubmit(w, x)
    \/ StartApprove(w) \/ StartPublish(w) \/ StartCards(w)
    \/ \E xs \in {{x} : x \in Subject} \cup {Subject} : StartReturn(w, xs)

Step(w) ==
    \/ EntrySubject(w) \/ EntryResult(w) \/ EntryWrite(w)
    \/ SubmitScores(w) \/ SubmitResult(w) \/ SubmitWrite(w)
    \/ ApproveSubjects(w) \/ ApproveWrite(w)
    \/ PublishWrite(w) \/ PublishCards(w)
    \/ ReturnWrite(w) \/ ReturnSubjects(w)
    \/ ComputeCards(w) \/ CardRow(w) \/ \E s \in Pupil : Upload(w, s)

Next ==
    \/ \E w \in Worker : Start(w) \/ Step(w) \/ Die(w)
    \/ \E s \in Mover : Move(s) \/ Elsewhere(s)

ResultsSpec == ResultsInit /\ [][Next]_vars

-----------------------------------------------------------------------------

Task ==
    [pc: {"idle"}]
    \cup [pc: {"entry subject", "entry result"}, subject: Subject, batch: Batch, mark: Mark, bulk: BOOLEAN]
    \cup [pc: {"entry write"}, subject: Subject, batch: Batch, mark: Mark]
    \cup [pc: {"submit scores", "submit result", "submit write"}, subject: Subject, roll: SUBSET Pupil]
    \cup [pc: {"approve subjects", "approve write", "publish write", "publish cards", "cards compute"},
          roll: SUBSET Pupil]
    \cup [pc: {"return write", "return subjects"}, subjects: SUBSET Subject, roll: SUBSET Pupil]
    \cup [pc: {"cards upload"}, roll: SUBSET Pupil, sheets: [Pupil -> Sheet \cup {NoPdf}]]
    \cup [pc: {"cards row"}, roll: SUBSET Pupil, sheets: [Pupil -> Sheet \cup {NoPdf}], of: Pupil]

\* Every variable has its type: the rows of results.ts, scores.ts and reportCards.ts hold
\* statuses of their own column, and a worker is at one statement of one handler.
ResultsTypeOK ==
    /\ enrolled \in SUBSET Pupil
    /\ score \in [Pupil -> Sheet]
    /\ subject \in [Subject -> {"draft", "submitted"}]
    /\ result \in [Pupil -> {"draft", "approved", "published"}]
    /\ pdf \in [Pupil -> Sheet \cup {NoPdf}]
    /\ card \in [Pupil -> {"none", "held", "released"}]
    /\ task \in [Worker -> Task]

\* A submitted subject has a mark for every pupil who has been in the class all along, however
\* entries, submissions and returns of other requests fall between the check and the write
\* (POST /results/submit).
SubmittedIsComplete ==
    \A x \in Subject, s \in Stayer : subject[x] = "submitted" => score[s][x] # NoMark

\* No result is approved or published with a subject unmarked, for such a pupil: what migration
\* 030 promises of POST /results/approve and /results/publish.
ApprovedIsComplete == \A s \in Stayer : result[s] # "draft" => Complete(score[s])

\* No report card is printed with a blank mark, although its batch computes the marks after the
\* check that the result is final and results may be returned meanwhile (runBatch).
CardsAreComplete == \A s \in Stayer : pdf[s] # NoPdf => Complete(pdf[s])

\* The pupils who have been in the class all along are approved, published and returned together:
\* a class split between published and approved could never be published nor returned again.
StayersTogether == \A s, t \in Stayer : result[s] = result[t]
=============================================================================
