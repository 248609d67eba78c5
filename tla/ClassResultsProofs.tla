------------------------- MODULE ClassResultsProofs -------------------------
(***************************************************************************)
(* Proofs about ClassResults, for every class, set of subjects, marks and  *)
(* number of workers.  The inductive invariant ResultsInv adds to the      *)
(* properties what the requests and batches in flight have established     *)
(* and no write of another can undo: a mark, once there, stays.            *)
(***************************************************************************)
EXTENDS ClassResults, TLAPS

StayersIn == Stayer \subseteq enrolled

Marked(x) == \A s \in Stayer : score[s][x] # NoMark

\* What a worker knows of the pupils who stay, at each of its statements.
Knows(t) ==
    /\ t.pc \in {"submit scores", "approve subjects", "approve write", "publish write"} => Stayer \subseteq t.roll
    /\ t.pc \in {"submit result", "submit write"} => Marked(t.subject)
    /\ t.pc = "approve write" => \A s \in Stayer : Complete(score[s])
    /\ t.pc = "return write" => Stayer \subseteq t.roll \/ Stayer \cap t.roll = {}
    /\ t.pc = "cards compute" => \A s \in Stayer \cap t.roll : Complete(score[s])
    /\ t.pc \in {"cards upload", "cards row"} => \A s \in Stayer \cap t.roll : Complete(t.sheets[s])

WorkersKnow == \A w \in Worker : Knows(task[w])

ResultsInv ==
    /\ ResultsTypeOK /\ StayersIn /\ WorkersKnow
    /\ SubmittedIsComplete /\ ApprovedIsComplete /\ CardsAreComplete /\ StayersTogether

-----------------------------------------------------------------------------
(* The type invariant. *)

LEMMA ThenTyped ==
    ASSUME NEW w \in Worker, NEW t \in Task, task \in [Worker -> Task], Then(w, t)
    PROVE  task' \in [Worker -> Task]
  BY DEF Then

LEMMA IdleTyped == Idle \in Task
  BY DEF Idle, Task

LEMMA FinishTyped ==
    ASSUME NEW w \in Worker, task \in [Worker -> Task], Finish(w)
    PROVE  task' \in [Worker -> Task]
  BY IdleTyped, ThenTyped DEF Finish

\* The fields of a task, at each statement that uses them.
LEMMA Fields ==
    ASSUME NEW t \in Task
    PROVE  /\ t.pc \in {"entry subject", "entry result"} =>
                t \in [pc: {"entry subject", "entry result"}, subject: Subject, batch: Batch, mark: Mark, bulk: BOOLEAN]
           /\ t.pc = "entry write" =>
                t \in [pc: {"entry write"}, subject: Subject, batch: Batch, mark: Mark]
           /\ t.pc \in {"submit scores", "submit result", "submit write"} =>
                t \in [pc: {"submit scores", "submit result", "submit write"}, subject: Subject, roll: SUBSET Pupil]
           /\ t.pc \in {"approve subjects", "approve write", "publish write", "publish cards", "cards compute"} =>
                t \in [pc: {"approve subjects", "approve write", "publish write", "publish cards", "cards compute"},
                       roll: SUBSET Pupil]
           /\ t.pc \in {"return write", "return subjects"} =>
                t \in [pc: {"return write", "return subjects"}, subjects: SUBSET Subject, roll: SUBSET Pupil]
           /\ t.pc = "cards upload" =>
                t \in [pc: {"cards upload"}, roll: SUBSET Pupil, sheets: [Pupil -> Sheet \cup {NoPdf}]]
           /\ t.pc = "cards row" =>
                t \in [pc: {"cards row"}, roll: SUBSET Pupil, sheets: [Pupil -> Sheet \cup {NoPdf}], of: Pupil]
  BY DEF Task

\* Going on to another statement changes that and nothing else of a task.
LEMMA EntryGoesOn ==
    ASSUME NEW p, NEW t \in [pc: {"entry subject", "entry result"}, subject: Subject, batch: Batch, mark: Mark, bulk: BOOLEAN]
    PROVE  [t EXCEPT !.pc = p].pc = p
  OBVIOUS

LEMMA SubmitGoesOn ==
    ASSUME NEW p, NEW t \in [pc: {"submit scores", "submit result", "submit write"}, subject: Subject, roll: SUBSET Pupil]
    PROVE  [t EXCEPT !.pc = p].pc = p /\ [t EXCEPT !.pc = p].subject = t.subject
  OBVIOUS

LEMMA RollGoesOn ==
    ASSUME NEW p, NEW t \in [pc: {"approve subjects", "approve write", "publish write", "publish cards", "cards compute"},
                             roll: SUBSET Pupil]
    PROVE  [t EXCEPT !.pc = p].pc = p /\ [t EXCEPT !.pc = p].roll = t.roll
  OBVIOUS

LEMMA ReturnGoesOn ==
    ASSUME NEW p, NEW t \in [pc: {"return write", "return subjects"}, subjects: SUBSET Subject, roll: SUBSET Pupil]
    PROVE  [t EXCEPT !.pc = p].pc = p
  OBVIOUS

LEMMA RenderTyped ==
    ASSUME NEW w \in Worker, task \in [Worker -> Task],
           NEW roll \in SUBSET Pupil, NEW sheets \in [Pupil -> Sheet \cup {NoPdf}], Render(w, roll, sheets)
    PROVE  task' \in [Worker -> Task]
<1>1. [pc |-> "cards upload", roll |-> roll, sheets |-> sheets] \in Task
  BY DEF Task
<1> QED BY <1>1, IdleTyped, ThenTyped DEF Render

\* A worker that only reads keeps the rows' types: its task is what has to be typed.
LEMMA ReadsTyped ==
    ASSUME ResultsTypeOK, Reads, task' \in [Worker -> Task]
    PROVE  ResultsTypeOK'
  BY DEF ResultsTypeOK, Reads, cards

LEMMA UpsertTyped ==
    ASSUME NEW roll, NEW from, NEW new \in {"draft", "approved", "published"},
           result \in [Pupil -> {"draft", "approved", "published"}]
    PROVE  Upserted(roll, from, new) \in [Pupil -> {"draft", "approved", "published"}]
  BY DEF Upserted

LEMMA StartTyped ==
    ASSUME ResultsTypeOK, NEW w \in Worker, Start(w)
    PROVE  ResultsTypeOK'
<1> USE DEF ResultsTypeOK
<1>1. ASSUME NEW x \in Subject, NEW batch \in Batch, NEW v \in Mark, StartEntry(w, x, batch, v)
      PROVE  ResultsTypeOK'
  <2>1. PICK bulk \in BOOLEAN :
          Then(w, [pc |-> "entry subject", subject |-> x, batch |-> batch, mark |-> v, bulk |-> bulk])
    BY <1>1 DEF StartEntry
  <2>2. [pc |-> "entry subject", subject |-> x, batch |-> batch, mark |-> v, bulk |-> bulk] \in Task
    BY DEF Task
  <2>3. task' \in [Worker -> Task]
    BY <2>1, <2>2, ThenTyped
  <2> QED BY <1>1, <2>3, ReadsTyped DEF StartEntry
<1>2. ASSUME NEW x \in Subject, StartSubmit(w, x) PROVE ResultsTypeOK'
  <2>1. [pc |-> "submit scores", subject |-> x, roll |-> enrolled] \in Task
    BY DEF Task
  <2> QED BY <1>2, <2>1, ThenTyped, ReadsTyped DEF StartSubmit
<1>3. CASE StartApprove(w)
  <2>1. [pc |-> "approve subjects", roll |-> enrolled] \in Task
    BY DEF Task
  <2> QED BY <1>3, <2>1, ThenTyped, ReadsTyped DEF StartApprove
<1>4. CASE StartPublish(w)
  <2>1. [pc |-> "publish write", roll |-> enrolled] \in Task
    BY DEF Task
  <2> QED BY <1>4, <2>1, ThenTyped, ReadsTyped DEF StartPublish
<1>5. CASE StartCards(w)
  <2>1. [pc |-> "cards compute", roll |-> {s \in enrolled : result[s] \in Final} \cap Followed] \in Task
    BY DEF Task
  <2> QED BY <1>5, <2>1, ThenTyped, ReadsTyped DEF StartCards
<1>6. ASSUME NEW xs \in SUBSET Subject, StartReturn(w, xs) PROVE ResultsTypeOK'
  <2>1. [pc |-> "return write", subjects |-> xs, roll |-> {s \in enrolled : result[s] # "draft"}] \in Task
    BY DEF Task
  <2> QED BY <1>6, <2>1, ThenTyped, ReadsTyped DEF StartReturn
<1> QED BY <1>1, <1>2, <1>3, <1>4, <1>5, <1>6 DEF Start

LEMMA StepTyped ==
    ASSUME ResultsTypeOK, NEW w \in Worker, Step(w)
    PROVE  ResultsTypeOK'
<1> DEFINE t == task[w]
<1> USE DEF ResultsTypeOK
<1>t. t \in Task
  OBVIOUS
<1>1. ASSUME NEW pc, [t EXCEPT !.pc = pc] \in Task, Continue(w, pc)
      PROVE  task' \in [Worker -> Task]
  BY <1>1, ThenTyped DEF Continue
<1>2. CASE EntrySubject(w)
  <2>1. [t EXCEPT !.pc = "entry result"] \in Task
    BY <1>2, <1>t, Fields DEF Task, EntrySubject, At
  <2> QED BY <1>2, <2>1, <1>1, FinishTyped, ReadsTyped DEF EntrySubject
<1>3. CASE EntryResult(w)
  <2>1. [pc |-> "entry write", subject |-> t.subject, batch |-> t.batch, mark |-> t.mark] \in Task
    BY <1>3, <1>t, Fields DEF Task, EntryResult, At
  <2> QED BY <1>3, <2>1, ThenTyped, FinishTyped, ReadsTyped DEF EntryResult
<1>4. CASE EntryWrite(w)
  <2>1. t.mark \in Mark /\ t.subject \in Subject
    BY <1>4, <1>t, Fields DEF EntryWrite, At
  <2>2. \A s \in Pupil : [score[s] EXCEPT ![t.subject] = t.mark] \in Sheet
    BY <2>1 DEF Sheet
  <2>3. score' \in [Pupil -> Sheet]
    BY <1>4, <2>2 DEF EntryWrite
  <2> QED BY <1>4, <2>3, FinishTyped DEF EntryWrite, cards
<1>5. CASE SubmitScores(w)
  <2>1. [t EXCEPT !.pc = "submit result"] \in Task
    BY <1>5, <1>t, Fields DEF Task, SubmitScores, At
  <2> QED BY <1>5, <2>1, <1>1, FinishTyped, ReadsTyped DEF SubmitScores
<1>6. CASE SubmitResult(w)
  <2>1. [t EXCEPT !.pc = "submit write"] \in Task
    BY <1>6, <1>t, Fields DEF Task, SubmitResult, At
  <2> QED BY <1>6, <2>1, <1>1, FinishTyped, ReadsTyped DEF SubmitResult
<1>7. CASE SubmitWrite(w)
  BY <1>7, FinishTyped DEF SubmitWrite, cards
<1>8. CASE ApproveSubjects(w)
  <2>1. [t EXCEPT !.pc = "approve write"] \in Task
    BY <1>8, <1>t, Fields DEF Task, ApproveSubjects, At
  <2> QED BY <1>8, <2>1, <1>1, FinishTyped, ReadsTyped DEF ApproveSubjects
<1>9. CASE ApproveWrite(w)
  BY <1>9, FinishTyped, UpsertTyped DEF ApproveWrite, cards
<1>10. CASE PublishWrite(w)
  <2>1. [t EXCEPT !.pc = "publish cards"] \in Task
    BY <1>10, <1>t, Fields DEF Task, PublishWrite, At
  <2> QED BY <1>10, <2>1, <1>1, UpsertTyped DEF PublishWrite, cards
<1>11. CASE PublishCards(w)
  BY <1>11, FinishTyped DEF PublishCards
<1>12. CASE ReturnWrite(w)
  <2>1. [t EXCEPT !.pc = "return subjects"] \in Task
    BY <1>12, <1>t, Fields DEF Task, ReturnWrite, At
  <2> QED BY <1>12, <2>1, <1>1, UpsertTyped DEF ReturnWrite, cards
<1>13. CASE ReturnSubjects(w)
  BY <1>13, FinishTyped DEF ReturnSubjects, cards
<1>14. CASE ComputeCards(w)
  <2>1. t.roll \in SUBSET Pupil
    BY <1>14, <1>t, Fields DEF ComputeCards, At
  <2>2. [s \in Pupil |-> IF s \in t.roll THEN score[s] ELSE NoPdf] \in [Pupil -> Sheet \cup {NoPdf}]
    OBVIOUS
  <2>3. task' \in [Worker -> Task]
    BY <1>14, <2>1, <2>2, RenderTyped DEF ComputeCards
  <2> QED BY <1>14, <2>3, ReadsTyped DEF ComputeCards
<1>15. CASE CardRow(w)
  <2>1. t.roll \in SUBSET Pupil /\ t.sheets \in [Pupil -> Sheet \cup {NoPdf}] /\ t.of \in Pupil
    BY <1>15, <1>t, Fields DEF CardRow, At
  <2>2. task' \in [Worker -> Task]
    BY <1>15, <2>1, RenderTyped DEF CardRow
  <2> QED BY <1>15, <2>1, <2>2 DEF CardRow
<1>16. ASSUME NEW s \in Pupil, Upload(w, s) PROVE ResultsTypeOK'
  <2>1. t.roll \in SUBSET Pupil /\ t.sheets \in [Pupil -> Sheet \cup {NoPdf}]
    BY <1>16, <1>t, Fields DEF Upload, At
  <2>2. [pc |-> "cards row", roll |-> t.roll, sheets |-> t.sheets, of |-> s] \in Task
    BY <2>1 DEF Task
  <2>3. task' \in [Worker -> Task]
    BY <1>16, <2>1, <2>2, ThenTyped, RenderTyped DEF Upload
  <2> QED BY <1>16, <2>1, <2>3 DEF Upload
<1> QED BY <1>2, <1>3, <1>4, <1>5, <1>6, <1>7, <1>8, <1>9, <1>10, <1>11, <1>12, <1>13, <1>14, <1>15, <1>16 DEF Step

LEMMA NextTyped ==
    ASSUME ResultsTypeOK, [Next]_vars
    PROVE  ResultsTypeOK'
<1>1. ASSUME NEW w \in Worker, Die(w) PROVE ResultsTypeOK'
  BY <1>1, FinishTyped, ReadsTyped DEF Die, ResultsTypeOK
<1>2. ASSUME NEW s \in Mover, Move(s) \/ Elsewhere(s) PROVE ResultsTypeOK'
  BY <1>2, ResultsAssumption DEF Move, Elsewhere, ResultsTypeOK, cards
<1>3. CASE UNCHANGED vars
  BY <1>3 DEF vars, cards, ResultsTypeOK
<1> QED BY <1>1, <1>2, <1>3, StartTyped, StepTyped DEF Next

-----------------------------------------------------------------------------
(* The other conjuncts. *)

MarksStay == \A s \in Pupil, x \in Subject : score[s][x] # NoMark => score'[s][x] # NoMark

\* What a worker knows stays true while no mark is taken away.
LEMMA KnowsStays ==
    ASSUME NEW t \in Task, Knows(t), MarksStay
    PROVE  Knows(t)'
<1>1. ASSUME t.pc \in {"submit result", "submit write"} PROVE Marked(t.subject)'
  <2>1. t.subject \in Subject
    BY <1>1, Fields
  <2> QED BY <1>1, <2>1 DEF Knows, MarksStay, Marked, Stayer
<1>2. ASSUME NEW s \in Stayer, Complete(score[s]) PROVE Complete(score[s])'
  BY <1>2 DEF Complete, MarksStay, Stayer
<1>3. ASSUME t.pc = "approve write", NEW s \in Stayer PROVE Complete(score[s])'
  BY <1>2, <1>3 DEF Knows
<1>4. ASSUME t.pc = "cards compute", NEW s \in Stayer \cap t.roll PROVE Complete(score[s])'
  BY <1>2, <1>4 DEF Knows
<1>5. ASSUME t.pc \in {"cards upload", "cards row"}, NEW s \in Stayer \cap t.roll PROVE Complete(t.sheets[s])'
  BY <1>5 DEF Knows, Complete
<1> QED BY <1>1, <1>3, <1>4, <1>5 DEF Knows

\* Only worker w moves.
Only(w) == \A v \in Worker \ {w} : task'[v] = task[v]

LEMMA WorkersKeep ==
    ASSUME ResultsTypeOK, WorkersKnow, MarksStay, NEW w \in Worker, Only(w), Knows(task[w])'
    PROVE  WorkersKnow'
<1>1. \A u \in Task : Knows(u) => Knows(u)'
  BY KnowsStays
<1>2. ASSUME NEW v \in Worker \ {w} PROVE Knows(task[v])'
  <2>1. Knows(task[v]) /\ task[v] \in Task /\ task'[v] = task[v]
    BY DEF WorkersKnow, ResultsTypeOK, Only
  <2> QED BY <1>1, <2>1 DEF Knows, Marked
<1> QED BY <1>2 DEF WorkersKnow

LEMMA Unmarked ==
    ASSUME UNCHANGED score
    PROVE  MarksStay
  BY DEF MarksStay

\* A step of a worker that writes no row.
LEMMA ReadsKeep ==
    ASSUME ResultsInv, NEW w \in Worker, Only(w), Reads, ResultsTypeOK', Knows(task[w])'
    PROVE  ResultsInv'
<1>1. WorkersKnow'
  BY WorkersKeep, Unmarked DEF ResultsInv, Reads
<1> QED BY <1>1 DEF ResultsInv, Reads, cards, StayersIn, SubmittedIsComplete, ApprovedIsComplete,
                    CardsAreComplete, StayersTogether

\* A step of a worker that ends it.
LEMMA FinishKnows ==
    ASSUME ResultsTypeOK, WorkersKnow, MarksStay, NEW w \in Worker, Finish(w)
    PROVE  WorkersKnow'
<1>1. task'[w].pc = "idle" /\ Only(w)
  BY DEF Finish, Then, Idle, Only, ResultsTypeOK
<1>2. Knows(task[w])'
  BY <1>1 DEF Knows
<1> QED BY <1>1, <1>2, WorkersKeep

LEMMA FinishKeeps ==
    ASSUME ResultsInv, NEW w \in Worker, Finish(w), Reads, ResultsTypeOK'
    PROVE  ResultsInv'
<1>1. WorkersKnow'
  BY FinishKnows, Unmarked DEF ResultsInv, Reads
<1> QED BY <1>1 DEF ResultsInv, Reads, cards, StayersIn, SubmittedIsComplete, ApprovedIsComplete,
                    CardsAreComplete, StayersTogether

LEMMA StartKeeps ==
    ASSUME ResultsInv, NEW w \in Worker, Start(w), ResultsTypeOK'
    PROVE  ResultsInv'
<1> USE DEF ResultsInv
<1>1. ASSUME NEW x \in Subject, NEW batch \in Batch, NEW v \in Mark, StartEntry(w, x, batch, v)
      PROVE  ResultsInv'
  <2>1. PICK bulk \in BOOLEAN :
          Then(w, [pc |-> "entry subject", subject |-> x, batch |-> batch, mark |-> v, bulk |-> bulk])
    BY <1>1 DEF StartEntry
  <2>2. task'[w].pc = "entry subject" /\ Only(w)
    BY <2>1 DEF Then, Only, ResultsTypeOK
  <2>3. Knows(task[w])'
    BY <2>2 DEF Knows
  <2> QED BY <1>1, <2>2, <2>3, ReadsKeep DEF StartEntry
<1>2. ASSUME NEW x \in Subject, StartSubmit(w, x) PROVE ResultsInv'
  <2>1. task'[w].pc = "submit scores" /\ task'[w].subject = x /\ task'[w].roll = enrolled /\ Only(w)
    BY <1>2 DEF StartSubmit, Then, Only, ResultsTypeOK
  <2>2. Knows(task[w])'
    BY <2>1 DEF Knows, StayersIn
  <2> QED BY <1>2, <2>1, <2>2, ReadsKeep DEF StartSubmit
<1>3. CASE StartApprove(w)
  <2>1. task'[w].pc = "approve subjects" /\ task'[w].roll = enrolled /\ Only(w)
    BY <1>3 DEF StartApprove, Then, Only, ResultsTypeOK
  <2>2. Knows(task[w])'
    BY <2>1 DEF Knows, StayersIn
  <2> QED BY <1>3, <2>1, <2>2, ReadsKeep DEF StartApprove
<1>4. CASE StartPublish(w)
  <2>1. task'[w].pc = "publish write" /\ task'[w].roll = enrolled /\ Only(w)
    BY <1>4 DEF StartPublish, Then, Only, ResultsTypeOK
  <2>2. Knows(task[w])'
    BY <2>1 DEF Knows, StayersIn
  <2> QED BY <1>4, <2>1, <2>2, ReadsKeep DEF StartPublish
<1>5. CASE StartCards(w)
  <2>1. task'[w].pc = "cards compute" /\ task'[w].roll = {s \in enrolled : result[s] \in Final} \cap Followed /\ Only(w)
    BY <1>5 DEF StartCards, Then, Only, ResultsTypeOK
  <2>2. \A s \in Stayer \cap task'[w].roll : Complete(score[s])
    BY <2>1 DEF ApprovedIsComplete, Final
  <2>3. score' = score
    BY <1>5 DEF StartCards, Reads
  <2>4. Knows(task[w])'
    BY <2>1, <2>2, <2>3 DEF Knows, Complete
  <2> QED BY <1>5, <2>1, <2>4, ReadsKeep DEF StartCards
<1>6. ASSUME NEW xs, StartReturn(w, xs) PROVE ResultsInv'
  <2>1. task'[w].pc = "return write" /\ task'[w].subjects = xs /\ task'[w].roll = {s \in enrolled : result[s] # "draft"} /\ Only(w)
    BY <1>6 DEF StartReturn, Then, Only, ResultsTypeOK
  <2>2. Stayer \subseteq task'[w].roll \/ Stayer \cap task'[w].roll = {}
    BY <2>1 DEF StayersTogether, StayersIn
  <2>3. Knows(task[w])'
    BY <2>1, <2>2 DEF Knows
  <2> QED BY <1>6, <2>1, <2>3, ReadsKeep DEF StartReturn
<1> QED BY <1>1, <1>2, <1>3, <1>4, <1>5, <1>6 DEF Start

\* The steps that read.
LEMMA ReadStepsKeep ==
    ASSUME ResultsInv, NEW w \in Worker, ResultsTypeOK',
           EntrySubject(w) \/ EntryResult(w) \/ SubmitScores(w) \/ SubmitResult(w)
           \/ ApproveSubjects(w) \/ ComputeCards(w)
    PROVE  ResultsInv'
<1> DEFINE t == task[w]
<1> USE DEF ResultsInv
<1>t. t \in Task /\ Knows(t)
  BY DEF ResultsTypeOK, WorkersKnow
<1>0. CASE Finish(w)
  BY <1>0, FinishKeeps DEF EntrySubject, EntryResult, SubmitScores, SubmitResult, ApproveSubjects,
        ComputeCards
<1>1. CASE EntrySubject(w) /\ ~Finish(w)
  <2>0. t.pc = "entry subject"
    BY <1>1 DEF EntrySubject, At
  <2>1. task'[w].pc = "entry result" /\ Only(w)
    <3>1. t \in [pc: {"entry subject", "entry result"}, subject: Subject, batch: Batch, mark: Mark, bulk: BOOLEAN]
      BY <2>0, <1>t, Fields
    <3>2. task' = [task EXCEPT ![w] = [t EXCEPT !.pc = "entry result"]]
      BY <1>1 DEF EntrySubject, Continue, Then
    <3>3. task'[w] = [t EXCEPT !.pc = "entry result"] /\ Only(w)
      BY <3>2 DEF Only, ResultsTypeOK
    <3> QED BY <3>1, <3>3, EntryGoesOn
  <2>2. Knows(task[w])'
    BY <2>1 DEF Knows
  <2> QED BY <1>1, <2>1, <2>2, ReadsKeep DEF EntrySubject
<1>2. CASE EntryResult(w) /\ ~Finish(w)
  <2>0. Then(w, [pc |-> "entry write", subject |-> t.subject, batch |-> t.batch, mark |-> t.mark])
    BY <1>2 DEF EntryResult
  <2>1. task'[w].pc = "entry write" /\ Only(w)
    BY <2>0 DEF Then, Only, ResultsTypeOK
  <2>2. Knows(task[w])'
    BY <2>1 DEF Knows
  <2> QED BY <1>2, <2>1, <2>2, ReadsKeep DEF EntryResult
<1>3. CASE SubmitScores(w) /\ ~Finish(w)
  <2>1. t.pc = "submit scores"
    BY <1>3 DEF SubmitScores, At
  <2>2. task'[w].pc = "submit result" /\ task'[w].subject = t.subject /\ Only(w)
    <3>1. t \in [pc: {"submit scores", "submit result", "submit write"}, subject: Subject, roll: SUBSET Pupil]
      BY <2>1, <1>t, Fields
    <3>2. task' = [task EXCEPT ![w] = [t EXCEPT !.pc = "submit result"]]
      BY <1>3 DEF SubmitScores, Continue, Then
    <3>3. task'[w] = [t EXCEPT !.pc = "submit result"] /\ Only(w)
      BY <3>2 DEF Only, ResultsTypeOK
    <3> QED BY <3>1, <3>3, SubmitGoesOn
  <2>3. \A s \in Stayer : score[s][t.subject] # NoMark
    BY <1>3, <2>1, <1>t DEF SubmitScores, Knows
  <2>4. score' = score
    BY <1>3 DEF SubmitScores, Reads
  <2>5. Knows(task[w])'
    BY <2>2, <2>3, <2>4 DEF Knows, Marked
  <2> QED BY <1>3, <2>2, <2>5, ReadsKeep DEF SubmitScores
<1>4. CASE SubmitResult(w) /\ ~Finish(w)
  <2>1. t.pc = "submit result"
    BY <1>4 DEF SubmitResult, At
  <2>2. task'[w].pc = "submit write" /\ task'[w].subject = t.subject /\ Only(w)
    <3>1. t \in [pc: {"submit scores", "submit result", "submit write"}, subject: Subject, roll: SUBSET Pupil]
      BY <2>1, <1>t, Fields
    <3>2. task' = [task EXCEPT ![w] = [t EXCEPT !.pc = "submit write"]]
      BY <1>4 DEF SubmitResult, Continue, Then
    <3>3. task'[w] = [t EXCEPT !.pc = "submit write"] /\ Only(w)
      BY <3>2 DEF Only, ResultsTypeOK
    <3> QED BY <3>1, <3>3, SubmitGoesOn
  <2>3. Marked(t.subject) /\ score' = score
    BY <1>4, <2>1, <1>t DEF SubmitResult, Reads, Knows
  <2>4. Knows(task[w])'
    BY <2>2, <2>3 DEF Knows, Marked
  <2> QED BY <1>4, <2>2, <2>4, ReadsKeep DEF SubmitResult
<1>5. CASE ApproveSubjects(w) /\ ~Finish(w)
  <2>1. t.pc = "approve subjects"
    BY <1>5 DEF ApproveSubjects, At
  <2>2. task'[w].pc = "approve write" /\ task'[w].roll = t.roll /\ Only(w)
    <3>1. t \in [pc: {"approve subjects", "approve write", "publish write", "publish cards", "cards compute"},
                 roll: SUBSET Pupil]
      BY <2>1, <1>t, Fields
    <3>2. task' = [task EXCEPT ![w] = [t EXCEPT !.pc = "approve write"]]
      BY <1>5 DEF ApproveSubjects, Continue, Then
    <3>3. task'[w] = [t EXCEPT !.pc = "approve write"] /\ Only(w)
      BY <3>2 DEF Only, ResultsTypeOK
    <3> QED BY <3>1, <3>3, RollGoesOn
  <2>3. Stayer \subseteq t.roll /\ score' = score
    BY <1>5, <2>1, <1>t DEF ApproveSubjects, Reads, Knows
  <2>4. \A s \in Stayer : Complete(score[s])
    BY <1>5 DEF ApproveSubjects, SubmittedIsComplete, Complete
  <2>5. Knows(task[w])'
    BY <2>2, <2>3, <2>4 DEF Knows, Complete
  <2> QED BY <1>5, <2>2, <2>5, ReadsKeep DEF ApproveSubjects
<1>6. CASE ComputeCards(w) /\ ~Finish(w)
  <2>1. t.pc = "cards compute"
    BY <1>6 DEF ComputeCards, At
  <2>2. /\ task'[w].pc = "cards upload" /\ task'[w].roll = t.roll /\ Only(w)
        /\ task'[w].sheets = [s \in Pupil |-> IF s \in t.roll THEN score[s] ELSE NoPdf]
    BY <1>6 DEF ComputeCards, Render, Finish, Then, Only, ResultsTypeOK
  <2>3. \A s \in Stayer \cap t.roll : Complete(score[s])
    BY <2>1, <1>t DEF Knows
  <2>4. \A s \in Stayer \cap task'[w].roll : Complete(task'[w].sheets[s])
    BY <2>2, <2>3 DEF Stayer
  <2>5. Knows(task[w])'
    BY <2>2, <2>4 DEF Knows, Complete
  <2> QED BY <1>6, <2>2, <2>5, ReadsKeep DEF ComputeCards
<1> QED BY <1>0, <1>1, <1>2, <1>3, <1>4, <1>5, <1>6

\* Entering scores takes no mark away.
LEMMA EntryKeeps ==
    ASSUME ResultsInv, NEW w \in Worker, ResultsTypeOK', EntryWrite(w)
    PROVE  ResultsInv'
<1> DEFINE t == task[w]
<1> USE DEF ResultsInv
<1>1. t.mark \in Mark /\ t.subject \in Subject
  <2>1. t \in Task /\ t.pc = "entry write"
    BY DEF EntryWrite, At, ResultsTypeOK
  <2> QED BY <2>1, Fields
<1>2. MarksStay
  <2> SUFFICES ASSUME NEW s \in Pupil, NEW x \in Subject, score[s][x] # NoMark
               PROVE  score'[s][x] # NoMark
    BY DEF MarksStay
  <2>1. score[s] \in Sheet
    BY DEF ResultsTypeOK
  <2>2. score'[s] = IF s \in t.batch THEN [score[s] EXCEPT ![t.subject] = t.mark] ELSE score[s]
    BY DEF EntryWrite
  <2> QED BY <1>1, <2>1, <2>2, ResultsAssumption DEF Sheet
<1>3. WorkersKnow'
  BY <1>2, FinishKnows DEF EntryWrite
<1>4. SubmittedIsComplete' /\ ApprovedIsComplete'
  BY <1>2 DEF EntryWrite, MarksStay, SubmittedIsComplete, ApprovedIsComplete, Complete, Stayer
<1> QED BY <1>3, <1>4 DEF EntryWrite, cards, StayersIn, CardsAreComplete, StayersTogether

\* The two statements that write a subject's row.
LEMMA SubjectStepsKeep ==
    ASSUME ResultsInv, NEW w \in Worker, ResultsTypeOK', SubmitWrite(w) \/ ReturnSubjects(w)
    PROVE  ResultsInv'
<1> DEFINE t == task[w]
<1> USE DEF ResultsInv
<1>1. WorkersKnow'
  BY FinishKnows, Unmarked DEF SubmitWrite, ReturnSubjects
<1>2. SubmittedIsComplete'
  <2>1. CASE SubmitWrite(w)
    <3>1. Marked(t.subject)
      BY <2>1 DEF SubmitWrite, At, WorkersKnow, Knows
    <3>2. score' = score /\ \A x \in Subject : x # t.subject => subject'[x] = subject[x]
      BY <2>1 DEF SubmitWrite, ResultsTypeOK
    <3> SUFFICES ASSUME NEW x \in Subject, NEW s \in Stayer, subject'[x] = "submitted"
                 PROVE  score[s][x] # NoMark
      BY <3>2 DEF SubmittedIsComplete
    <3>3. CASE x = t.subject
      BY <3>1, <3>3 DEF Marked
    <3>4. CASE x # t.subject
      BY <3>2, <3>4 DEF SubmittedIsComplete
    <3> QED BY <3>3, <3>4
  <2>2. CASE ReturnSubjects(w)
    BY <2>2 DEF ReturnSubjects, SubmittedIsComplete
  <2> QED BY <2>1, <2>2
<1> QED BY <1>1, <1>2 DEF SubmitWrite, ReturnSubjects, cards, StayersIn, ApprovedIsComplete,
                          CardsAreComplete, StayersTogether

\* The three statements that write the pupils' rows: each moves all the pupils who stay, or none.
LEMMA ResultStepsKeep ==
    ASSUME ResultsInv, NEW w \in Worker, ResultsTypeOK', ApproveWrite(w) \/ PublishWrite(w) \/ ReturnWrite(w)
    PROVE  ResultsInv'
<1> DEFINE t == task[w]
<1> USE DEF ResultsInv
<1>t. t \in Task /\ Knows(t)
  BY DEF ResultsTypeOK, WorkersKnow
<1>s. score' = score /\ subject' = subject /\ enrolled' = enrolled /\ pdf' = pdf
  BY DEF ApproveWrite, PublishWrite, ReturnWrite, cards
<1>1. WorkersKnow'
  <2>1. CASE ApproveWrite(w)
    BY <2>1, FinishKnows, Unmarked DEF ApproveWrite
  <2>2. CASE PublishWrite(w)
    <3>0. t.pc = "publish write"
      BY <2>2 DEF PublishWrite, At
    <3>1. task'[w].pc = "publish cards" /\ Only(w)
      <4>1. t \in [pc: {"approve subjects", "approve write", "publish write", "publish cards", "cards compute"},
                 roll: SUBSET Pupil]
        BY <3>0, <1>t, Fields
      <4>2. task' = [task EXCEPT ![w] = [t EXCEPT !.pc = "publish cards"]]
        BY <2>2 DEF PublishWrite, Continue, Then
      <4>3. task'[w] = [t EXCEPT !.pc = "publish cards"] /\ Only(w)
        BY <4>2 DEF Only, ResultsTypeOK
      <4> QED BY <4>1, <4>3, RollGoesOn
    <3>2. Knows(task[w])'
      BY <3>1 DEF Knows
    <3> QED BY <1>s, <3>1, <3>2, WorkersKeep, Unmarked
  <2>3. CASE ReturnWrite(w)
    <3>0. t.pc = "return write"
      BY <2>3 DEF ReturnWrite, At
    <3>1. task'[w].pc = "return subjects" /\ Only(w)
      <4>1. t \in [pc: {"return write", "return subjects"}, subjects: SUBSET Subject, roll: SUBSET Pupil]
        BY <3>0, <1>t, Fields
      <4>2. task' = [task EXCEPT ![w] = [t EXCEPT !.pc = "return subjects"]]
        BY <2>3 DEF ReturnWrite, Continue, Then
      <4>3. task'[w] = [t EXCEPT !.pc = "return subjects"] /\ Only(w)
        BY <4>2 DEF Only, ResultsTypeOK
      <4> QED BY <4>1, <4>3, ReturnGoesOn
    <3>2. Knows(task[w])'
      BY <3>1 DEF Knows
    <3> QED BY <1>s, <3>1, <3>2, WorkersKeep, Unmarked
  <2> QED BY <2>1, <2>2, <2>3
<1>2. StayersTogether'
  <2>1. ASSUME NEW roll, NEW from, NEW new, result' = Upserted(roll, from, new),
               Stayer \subseteq roll \/ Stayer \cap roll = {}
        PROVE  StayersTogether'
    BY <2>1 DEF Upserted, StayersTogether, Stayer
  <2>2. CASE ApproveWrite(w)
    <3>1. Stayer \subseteq t.roll
      BY <2>2, <1>t DEF ApproveWrite, At, Knows
    <3> QED BY <2>1, <2>2, <3>1 DEF ApproveWrite
  <2>3. CASE PublishWrite(w)
    <3>1. Stayer \subseteq t.roll
      BY <2>3, <1>t DEF PublishWrite, At, Knows
    <3> QED BY <2>1, <2>3, <3>1 DEF PublishWrite
  <2>4. CASE ReturnWrite(w)
    <3>1. Stayer \subseteq t.roll \/ Stayer \cap t.roll = {}
      BY <2>4, <1>t DEF ReturnWrite, At, Knows
    <3> QED BY <2>1, <2>4, <3>1 DEF ReturnWrite
  <2> QED BY <2>2, <2>3, <2>4
<1>3. ApprovedIsComplete'
  <2> SUFFICES ASSUME NEW s \in Stayer, result'[s] # "draft"
               PROVE  Complete(score[s])
    BY <1>s DEF ApprovedIsComplete, Complete
  <2>s. s \in Pupil
    BY DEF Stayer
  <2>1. CASE ApproveWrite(w)
    BY <2>1, <1>t DEF ApproveWrite, At, Knows
  <2>2. CASE PublishWrite(w)
    <3>1. result[s] # "draft"
      BY <2>2, <2>s DEF PublishWrite, Upserted
    <3> QED BY <3>1 DEF ApprovedIsComplete
  <2>3. CASE ReturnWrite(w)
    <3>1. result[s] # "draft"
      BY <2>3, <2>s DEF ReturnWrite, Upserted
    <3> QED BY <3>1 DEF ApprovedIsComplete
  <2> QED BY <2>1, <2>2, <2>3
<1> QED BY <1>s, <1>1, <1>2, <1>3 DEF StayersIn, SubmittedIsComplete, CardsAreComplete

\* The statements that write report cards.
LEMMA CardStepsKeep ==
    ASSUME ResultsInv, NEW w \in Worker, ResultsTypeOK',
           PublishCards(w) \/ CardRow(w) \/ \E s \in Pupil : Upload(w, s)
    PROVE  ResultsInv'
<1> DEFINE t == task[w]
<1> USE DEF ResultsInv
<1>t. t \in Task /\ Knows(t)
  BY DEF ResultsTypeOK, WorkersKnow
<1>s. score' = score /\ subject' = subject /\ enrolled' = enrolled /\ result' = result
  BY DEF PublishCards, CardRow, Upload
<1>1. ASSUME NEW roll \in SUBSET t.roll, t.pc \in {"cards upload", "cards row"}, Render(w, roll, t.sheets)
      PROVE  WorkersKnow'
  <2>1. CASE roll = {}
    BY <1>1, <2>1, <1>s, FinishKnows, Unmarked DEF Render, Finish
  <2>2. CASE roll # {}
    <3>1. task'[w].pc = "cards upload" /\ task'[w].roll = roll /\ task'[w].sheets = t.sheets /\ Only(w)
      BY <1>1, <2>2 DEF Render, Then, Only, ResultsTypeOK
    <3>2. \A s \in Stayer \cap roll : Complete(t.sheets[s])
      BY <1>1, <1>t DEF Knows
    <3>3. Knows(task[w])'
      BY <3>1, <3>2 DEF Knows, Complete
    <3> QED BY <1>s, <3>1, <3>3, WorkersKeep, Unmarked
  <2> QED BY <2>1, <2>2
<1>2. CASE PublishCards(w)
  <2>1. WorkersKnow'
    BY <1>2, <1>s, FinishKnows, Unmarked DEF PublishCards
  <2> QED BY <1>2, <1>s, <2>1 DEF PublishCards, StayersIn, SubmittedIsComplete, ApprovedIsComplete,
                                  CardsAreComplete, StayersTogether
<1>3. CASE CardRow(w)
  <2>1. WorkersKnow'
    BY <1>1, <1>3 DEF CardRow, At
  <2> QED BY <1>3, <1>s, <2>1 DEF CardRow, StayersIn, SubmittedIsComplete, ApprovedIsComplete,
                                  CardsAreComplete, StayersTogether
<1>4. ASSUME NEW s \in Pupil, Upload(w, s) PROVE ResultsInv'
  <2>0. t.pc = "cards upload" /\ s \in t.roll
    BY <1>4 DEF Upload, At
  <2>1. CASE Render(w, t.roll \ {s}, t.sheets) /\ pdf' = pdf
    <3>1. WorkersKnow'
      BY <1>1, <2>0, <2>1
    <3> QED BY <2>1, <3>1, <1>s DEF StayersIn, SubmittedIsComplete, ApprovedIsComplete,
                                    CardsAreComplete, StayersTogether
  <2>2. CASE /\ pdf' = [pdf EXCEPT ![s] = t.sheets[s]]
             /\ Then(w, [pc |-> "cards row", roll |-> t.roll, sheets |-> t.sheets, of |-> s])
    <3>1. task'[w].pc = "cards row" /\ task'[w].roll = t.roll /\ task'[w].sheets = t.sheets /\ Only(w)
      BY <2>2 DEF Then, Only, ResultsTypeOK
    <3>2. \A p \in Stayer \cap t.roll : Complete(t.sheets[p])
      BY <2>0, <1>t DEF Knows
    <3>3. Knows(task[w])'
      BY <3>1, <3>2 DEF Knows, Complete
    <3>4. WorkersKnow'
      BY <1>s, <3>1, <3>3, WorkersKeep, Unmarked
    <3>5. CardsAreComplete'
      <4> SUFFICES ASSUME NEW p \in Stayer, pdf'[p] # NoPdf
                   PROVE  Complete(pdf'[p])
        BY DEF CardsAreComplete, Complete
      <4>1. CASE p = s
        BY <2>0, <2>2, <3>2, <4>1 DEF ResultsTypeOK
      <4>2. CASE p # s
        BY <2>2, <4>2 DEF ResultsTypeOK, Stayer, CardsAreComplete
      <4> QED BY <4>1, <4>2
    <3> QED BY <3>4, <3>5, <1>s DEF StayersIn, SubmittedIsComplete, ApprovedIsComplete, StayersTogether
  <2> QED BY <1>4, <2>1, <2>2 DEF Upload
<1> QED BY <1>2, <1>3, <1>4

-----------------------------------------------------------------------------
LEMMA InitInv == ResultsInit => ResultsInv
<1> SUFFICES ASSUME ResultsInit PROVE ResultsInv
  OBVIOUS
<1> USE DEF ResultsInit
<1>1. ResultsTypeOK /\ StayersIn
  BY IdleTyped, ResultsAssumption DEF ResultsTypeOK, StayersIn, Sheet, Stayer
<1>2. WorkersKnow
  BY DEF WorkersKnow, Knows, Idle
<1>3. SubmittedIsComplete /\ ApprovedIsComplete /\ StayersTogether
  BY DEF SubmittedIsComplete, ApprovedIsComplete, StayersTogether, Stayer
<1>4. CardsAreComplete
  BY DEF CardsAreComplete, Stayer
<1> QED BY <1>1, <1>2, <1>3, <1>4 DEF ResultsInv

LEMMA NextInv == ResultsInv /\ [Next]_vars => ResultsInv'
<1> SUFFICES ASSUME ResultsInv, [Next]_vars PROVE ResultsInv'
  OBVIOUS
<1>t. ResultsTypeOK'
  BY NextTyped DEF ResultsInv
<1>1. ASSUME NEW w \in Worker, Start(w) PROVE ResultsInv'
  BY <1>1, <1>t, StartKeeps
<1>2. ASSUME NEW w \in Worker, Step(w) PROVE ResultsInv'
  BY <1>2, <1>t, ReadStepsKeep, EntryKeeps, SubjectStepsKeep, ResultStepsKeep, CardStepsKeep DEF Step
<1>3. ASSUME NEW w \in Worker, Die(w) PROVE ResultsInv'
  BY <1>3, <1>t, FinishKeeps DEF Die
<1>4. ASSUME NEW s \in Mover, Move(s) \/ Elsewhere(s) PROVE ResultsInv'
  <2>1. /\ score' = score /\ subject' = subject /\ pdf' = pdf /\ task' = task
        /\ \A p \in Stayer : result'[p] = result[p]
        /\ StayersIn'
    BY <1>4 DEF Move, Elsewhere, cards, Stayer, StayersIn, ResultsInv, ResultsTypeOK
  <2>2. WorkersKnow'
    BY <2>1 DEF WorkersKnow, ResultsInv, Knows, Marked, Complete
  <2> QED BY <1>t, <2>1, <2>2 DEF ResultsInv, SubmittedIsComplete, ApprovedIsComplete,
                                  CardsAreComplete, StayersTogether, Complete
<1>5. CASE UNCHANGED vars
  <2>1. WorkersKnow'
    BY <1>5 DEF vars, WorkersKnow, ResultsInv, Knows, Marked, Complete
  <2> QED BY <1>t, <1>5, <2>1 DEF vars, cards, ResultsInv, StayersIn, SubmittedIsComplete,
                                  ApprovedIsComplete, CardsAreComplete, StayersTogether, Complete
<1> QED BY <1>1, <1>2, <1>3, <1>4, <1>5 DEF Next

LEMMA InvAlways == ResultsSpec => []ResultsInv
  BY InitInv, NextInv, PTL DEF ResultsSpec

\* Every reachable state is typed (routes/results.ts, routes/scores.ts).
THEOREM ResultsTypeCorrect == ResultsSpec => []ResultsTypeOK
<1>1. ResultsInv => ResultsTypeOK
  BY DEF ResultsInv
<1> QED BY <1>1, InvAlways, PTL

\* POST /results/submit leaves no subject submitted with a pupil unmarked who was there all along.
THEOREM SubjectsComplete == ResultsSpec => []SubmittedIsComplete
<1>1. ResultsInv => SubmittedIsComplete
  BY DEF ResultsInv
<1> QED BY <1>1, InvAlways, PTL

\* POST /results/approve and /results/publish leave no such pupil's result final and unmarked.
THEOREM ResultsComplete == ResultsSpec => []ApprovedIsComplete
<1>1. ResultsInv => ApprovedIsComplete
  BY DEF ResultsInv
<1> QED BY <1>1, InvAlways, PTL

\* runBatch prints no such pupil's report card with a blank mark.
THEOREM ReportCardsComplete == ResultsSpec => []CardsAreComplete
<1>1. ResultsInv => CardsAreComplete
  BY DEF ResultsInv
<1> QED BY <1>1, InvAlways, PTL

\* Approve, publish and return never split the pupils who were there all along.
THEOREM ClassMovesTogether == ResultsSpec => []StayersTogether
<1>1. ResultsInv => StayersTogether
  BY DEF ResultsInv
<1> QED BY <1>1, InvAlways, PTL
=============================================================================
