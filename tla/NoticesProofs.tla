---------------------------- MODULE NoticesProofs ----------------------------
(***************************************************************************)
(* For any number of replicas, rows, parents, channels and faults, the     *)
(* notification worker closes a row only when every parent was told: its   *)
(* steps implement those of NoticeDelivery.  The second half keeps two     *)
(* accounts: a notice posted beyond the one that was due, and a text sent  *)
(* beyond the day's limit, was paid for by a crash or a lost lock.         *)
(***************************************************************************)
EXTENDS Notices, FiniteSetTheorems, WellFoundedInduction, TLAPS

Telling == {"post", "mail", "limit", "text", "log"}

\* What a worker with the local state t has done and still has to do.
WorkerKnows(t) ==
    /\ \A r \in t.batch : row[r] # "unwritten"
    /\ t.pc \in Telling \cup {"mark"} =>
          /\ t.row \in Row /\ row[t.row] # "unwritten" /\ t.left \subseteq Audience[t.row]
          /\ row[t.row] # "gone" => \A p \in Audience[t.row] \ t.left : Knows(t.row, p)
    /\ t.pc = "mark" => t.left = {}
    /\ t.pc = "mail" /\ "app" \in Channel[t.row] => posts[t.row][LeastOf(t.left)] > 0
    /\ t.pc \in {"limit", "text", "log"} => Knows(t.row, LeastOf(t.left))

WorkersKnow == \A w \in Replica : WorkerKnows(run[w])

\* Each lock is only ever held by a run of its own job.
LocksApart == lock["worker"] \in Replica \cup {Nobody} /\ lock["weekly"] \in Desk \cup {Nobody}

NoticesInv == NoticesTypeOK /\ LocksApart /\ WorkersKnow

-----------------------------------------------------------------------------
\* The next parent or row of a set is in the set.
LEMMA LeastIsIn ==
    ASSUME NEW S, S \subseteq Nat, S # {}
    PROVE  LeastOf(S) \in S
<1>1. IsWellFoundedOn(OpToRel(<, Nat), Nat)
  BY NatLessThanWellFounded
<1>2. \E x \in S : \A y \in S : ~ (<<y, x>> \in OpToRel(<, Nat))
  BY <1>1, WFMin
<1>3. \A x, y \in Nat : <<y, x>> \in OpToRel(<, Nat) <=> y < x
  BY DEF OpToRel
<1>4. \E x \in S : \A y \in S : x <= y
  <2>1. PICK x \in S : \A y \in S : ~ (<<y, x>> \in OpToRel(<, Nat))
    BY <1>2
  <2>2. \A y \in S : ~ (y < x)
    BY <1>3, <2>1
  <2>3. x \in Nat /\ \A y \in S : y \in Nat
    OBVIOUS
  <2>4. \A y \in S : x <= y
    BY <2>2, <2>3
  <2> QED
    BY <2>4
<1> QED
  BY <1>4 DEF LeastOf

\* What no step undoes.
Steady ==
    /\ \A r \in Row, p \in Parent : posts[r][p] > 0 => posts'[r][p] > 0
    /\ mailed \subseteq mailed'
    /\ \A r \in Row : (row[r] # "unwritten" => row'[r] # "unwritten") /\ (row[r] = "gone" => row'[r] = "gone")

\* Who was told stays told.
LEMMA KnowsStays ==
    ASSUME Steady, NEW r \in Row, NEW p \in Parent, Knows(r, p)
    PROVE  Knows(r, p)'
  BY DEF Steady, Knows

\* The fields of a run.
LEMMA RunTyped ==
    ASSUME NEW t \in Run
    PROVE  t.pc \in Step /\ t.batch \subseteq Row /\ t.row \in About /\ t.left \subseteq Parent
  BY DEF Run

\* The next parent is a parent.
LEMMA LeastParent ==
    ASSUME NEW S, S \subseteq Parent, S # {}
    PROVE  LeastOf(S) \in S /\ LeastOf(S) \in Parent
  BY LeastIsIn, PeopleAssumption

\* What a worker knows stays true while others step.
LEMMA WorkerStays ==
    ASSUME Steady, NEW t \in Run, t.pc \in Telling => t.left # {}, WorkerKnows(t)
    PROVE  WorkerKnows(t)'
<1>1. t.batch \subseteq Row /\ t.left \subseteq Parent
  BY RunTyped
<1>2. \A r \in t.batch : row'[r] # "unwritten"
  BY <1>1 DEF Steady, WorkerKnows
<1>3. t.pc \in Telling \cup {"mark"} =>
          /\ t.row \in Row /\ row'[t.row] # "unwritten" /\ t.left \subseteq Audience[t.row]
          /\ row'[t.row] # "gone" => \A p \in Audience[t.row] \ t.left : Knows(t.row, p)'
  <2> SUFFICES ASSUME t.pc \in Telling \cup {"mark"}
               PROVE  /\ t.row \in Row /\ row'[t.row] # "unwritten" /\ t.left \subseteq Audience[t.row]
                      /\ row'[t.row] # "gone" => \A p \in Audience[t.row] \ t.left : Knows(t.row, p)'
    OBVIOUS
  <2>1. /\ t.row \in Row /\ row[t.row] # "unwritten" /\ t.left \subseteq Audience[t.row]
        /\ row[t.row] # "gone" => \A p \in Audience[t.row] \ t.left : Knows(t.row, p)
    BY DEF WorkerKnows
  <2>2. row'[t.row] # "unwritten" /\ (row'[t.row] # "gone" => row[t.row] # "gone")
    BY <2>1 DEF Steady
  <2>3. Audience[t.row] \subseteq Parent
    BY <2>1, AudienceAssumption DEF About
  <2> QED
    BY <2>1, <2>2, <2>3, KnowsStays
<1>4. t.pc \in Telling => t.row \in Row /\ LeastOf(t.left) \in Parent
  BY <1>1, <1>3, LeastParent
<1>5. t.pc = "mail" /\ "app" \in Channel[t.row] => posts'[t.row][LeastOf(t.left)] > 0
  BY <1>4 DEF Steady, WorkerKnows, Telling
<1>6. t.pc \in {"limit", "text", "log"} => Knows(t.row, LeastOf(t.left))'
  BY <1>4, KnowsStays DEF WorkerKnows, Telling
<1> QED
  BY <1>2, <1>3, <1>5, <1>6 DEF WorkerKnows

\* The other workers keep what they know when one run moves to n.
LEMMA WorkersAfter ==
    ASSUME NoticesTypeOK, WorkersKnow, Steady, NEW j \in Job, NEW n, run' = [run EXCEPT ![j] = n],
           j \in Replica => WorkerKnows(n)'
    PROVE  WorkersKnow'
<1> SUFFICES ASSUME NEW w \in Replica PROVE WorkerKnows(run[w])'
  BY DEF WorkersKnow
<1>1. w \in Job /\ run \in [Job -> Run]
  BY DEF NoticesTypeOK, Job
<1>2. CASE w = j
  BY <1>1, <1>2
<1>3. CASE w # j
  <2>1. run'[w] = run[w] /\ run[w] \in Run /\ WorkerKnows(run[w])
    BY <1>1, <1>3 DEF WorkersKnow
  <2>2. run[w].pc \in Telling => run[w].left # {}
    BY <1>1 DEF NoticesTypeOK, RunOK, Telling
  <2>3. \A t \in Run : (t.pc \in Telling => t.left # {}) /\ WorkerKnows(t) => WorkerKnows(t)'
    BY WorkerStays
  <2> QED
    BY <2>1, <2>2, <2>3
<1> QED
  BY <1>2, <1>3

\* Steps that move no run keep what the workers know.
LEMMA WorkersKept ==
    ASSUME NoticesTypeOK, WorkersKnow, Steady, UNCHANGED run
    PROVE  WorkersKnow'
<1> SUFFICES ASSUME NEW w \in Replica PROVE WorkerKnows(run[w])'
  BY DEF WorkersKnow
<1>1. run[w] \in Run /\ WorkerKnows(run[w])
  BY DEF NoticesTypeOK, WorkersKnow, Job
<1>2. run[w].pc \in Telling => run[w].left # {}
  BY DEF NoticesTypeOK, RunOK, Telling, Job
<1>3. \A t \in Run : (t.pc \in Telling => t.left # {}) /\ WorkerKnows(t) => WorkerKnows(t)'
  BY WorkerStays
<1> QED
  BY <1>1, <1>2, <1>3

\* A well-formed run that takes the place of another leaves the runs well-formed.
RunFits(j, n) ==
    /\ n \in Run
    /\ n.pc \in Telling => n.left # {}
    /\ n.pc \in Telling \cup {"mark"} => (n.row \in Row <=> j \in Replica)

\* To keep what the runs know it is enough to look at the one that moves.
LEMMA RunsAfter ==
    ASSUME NoticesTypeOK, NEW j \in Job, NEW n, RunFits(j, n), run' = [run EXCEPT ![j] = n]
    PROVE  run' \in [Job -> Run] /\ (\A i \in Job : RunOK(i)')
<1>1. run \in [Job -> Run] /\ \A i \in Job : RunOK(i)
  BY DEF NoticesTypeOK
<1>2. run' \in [Job -> Run] /\ run'[j] = n /\ \A i \in Job : i # j => run'[i] = run[i]
  BY <1>1 DEF RunFits
<1>3. \A i \in Job : i # j => RunOK(i)'
  BY <1>1, <1>2 DEF RunOK
<1>4. RunOK(j)'
  BY <1>2 DEF RunOK, RunFits, Telling
<1> QED
  BY <1>2, <1>3, <1>4

\* Where a run is says what it carries.
LEMMA RunAt ==
    ASSUME NoticesTypeOK, NEW j \in Job
    PROVE  /\ run[j] \in Run
           /\ run[j].pc \in Telling => run[j].left # {}
           /\ run[j].pc \in Telling \cup {"mark"} => (run[j].row \in Row <=> j \in Replica)
           /\ run[j].row \in About /\ run[j].left \subseteq Parent /\ run[j].batch \subseteq Row
<1>1. run[j] \in Run /\ RunOK(j)
  BY DEF NoticesTypeOK
<1>2. run[j].row \in About /\ run[j].left \subseteq Parent /\ run[j].batch \subseteq Row
  BY <1>1, RunTyped
<1> QED
  BY <1>1, <1>2 DEF RunOK, Telling

\* The locks stay those of busy runs when the run that moves does not end.
LEMMA LocksBusy ==
    ASSUME NoticesTypeOK, LocksApart, NEW j \in Job, NEW n, n.pc # "idle", run' = [run EXCEPT ![j] = n], UNCHANGED lock
    PROVE  /\ lock' \in [{"worker", "weekly"} -> Job \cup {Nobody}]
           /\ (\A job \in DOMAIN lock' : lock'[job] # Nobody => run'[lock'[job]].pc # "idle")
           /\ LocksApart'
  BY DEF NoticesTypeOK, LocksApart

TablesOK ==
    /\ row \in [Row -> {"unwritten", "waiting", "processed", "gone"}]
    /\ posts \in [Row -> [Parent -> Nat]]
    /\ mailed \subseteq Row \X Parent
    /\ texts \in [Parent -> Nat] /\ logged \in [Parent -> Nat]
    /\ recent \in BOOLEAN
    /\ faults \in 0..MaxFaults

LocksOK ==
    /\ lock \in [{"worker", "weekly"} -> Job \cup {Nobody}]
    /\ \A job \in {"worker", "weekly"} : lock[job] # Nobody => run[lock[job]].pc # "idle"
    /\ LocksApart

\* The invariant, cut into what is about the tables, the locks and each run.
LEMMA InvParts ==
    NoticesInv <=> /\ TablesOK /\ LocksOK /\ WorkersKnow
                   /\ run \in [Job -> Run] /\ \A j \in Job : RunOK(j)
<1>1. ASSUME NoticesInv
      PROVE  /\ TablesOK /\ LocksOK /\ WorkersKnow
             /\ run \in [Job -> Run] /\ \A j \in Job : RunOK(j)
  <2>1. lock \in [{"worker", "weekly"} -> Job \cup {Nobody}]
    BY <1>1 DEF NoticesInv, NoticesTypeOK
  <2>2. DOMAIN lock = {"worker", "weekly"}
    BY <2>1
  <2>3. LocksOK
    BY <1>1, <2>1, <2>2 DEF NoticesInv, NoticesTypeOK, LocksOK
  <2> QED
    BY <1>1, <2>3 DEF NoticesInv, NoticesTypeOK, TablesOK
<1>2. ASSUME TablesOK, LocksOK, WorkersKnow, run \in [Job -> Run], \A j \in Job : RunOK(j)
      PROVE  NoticesInv
  <2>1. DOMAIN lock = {"worker", "weekly"} /\ LocksApart
    BY <1>2 DEF LocksOK
  <2>2. \A job \in DOMAIN lock : lock[job] # Nobody => run[lock[job]].pc # "idle"
    BY <1>2, <2>1 DEF LocksOK
  <2>3. NoticesTypeOK
    BY <1>2, <2>2 DEF NoticesTypeOK, TablesOK, LocksOK
  <2> QED
    BY <1>2, <2>1, <2>3 DEF NoticesInv
<1> QED
  BY <1>1, <1>2

\* One run moves on; the tables change as they may.
LEMMA MoveKeeps ==
    ASSUME NoticesInv, TablesOK', LocksOK', Steady, NEW j \in Job, NEW n, RunFits(j, n),
           run' = [run EXCEPT ![j] = n], j \in Replica => WorkerKnows(n)'
    PROVE  NoticesInv'
<1>1. run' \in [Job -> Run] /\ (\A i \in Job : RunOK(i)')
  BY RunsAfter DEF NoticesInv
<1>2. WorkersKnow'
  BY WorkersAfter DEF NoticesInv
<1>3. NoticesTypeOK'
  <2>1. \A job \in DOMAIN lock' : lock'[job] # Nobody => run'[lock'[job]].pc # "idle"
    BY DEF LocksOK
  <2> QED
    BY <1>1, <2>1 DEF NoticesTypeOK, TablesOK, LocksOK
<1> QED
  BY <1>2, <1>3 DEF NoticesInv, LocksOK

\* Only the tables change.
LEMMA TablesKeep ==
    ASSUME NoticesInv, TablesOK', LocksOK', Steady, UNCHANGED run
    PROVE  NoticesInv'
<1>1. WorkersKnow'
  BY WorkersKept DEF NoticesInv
<1>2. NoticesTypeOK'
  <2>1. \A job \in DOMAIN lock' : lock'[job] # Nobody => run'[lock'[job]].pc # "idle"
    BY DEF LocksOK
  <2>2. run' \in [Job -> Run] /\ (\A i \in Job : RunOK(i)')
    BY DEF NoticesInv, NoticesTypeOK, RunOK
  <2> QED
    BY <2>1, <2>2 DEF NoticesTypeOK, TablesOK, LocksOK
<1> QED
  BY <1>1, <1>2 DEF NoticesInv, LocksOK

\* A run that goes on keeps the lock it has.
LEMMA LocksBusyOK ==
    ASSUME NoticesInv, NEW j \in Job, NEW n, n.pc # "idle", run' = [run EXCEPT ![j] = n], UNCHANGED lock
    PROVE  LocksOK'
<1>1. /\ lock' \in [{"worker", "weekly"} -> Job \cup {Nobody}]
      /\ (\A job \in DOMAIN lock' : lock'[job] # Nobody => run'[lock'[job]].pc # "idle")
      /\ LocksApart'
  BY LocksBusy DEF NoticesInv
<1> QED
  BY <1>1 DEF LocksOK

\* Steps that leave the tables alone unsay nothing.
LEMMA SteadyTables ==
    ASSUME UNCHANGED <<row, posts, mailed>>
    PROVE  Steady
  BY DEF Steady

\* A run that only moves to another statement.
LEMMA LabelTyped ==
    ASSUME NEW t \in Run, NEW pc \in Step, NEW n, n = [t EXCEPT !.pc = pc]
    PROVE  n \in Run /\ n.pc = pc /\ n.batch = t.batch /\ n.row = t.row /\ n.left = t.left
  BY DEF Run

\* A run that turns to the parents it has left.
LEMMA AheadTyped ==
    ASSUME NEW t \in Run, NEW left \in SUBSET Parent, NEW n, n = Ahead(t, left)
    PROVE  /\ n \in Run /\ n.batch = t.batch /\ n.row = t.row /\ n.left = left
           /\ n.pc = (IF left = {} THEN "mark" ELSE "post")
  BY DEF Run, Ahead, Step

\* A run that is done with a row.
LEMMA OverTyped ==
    ASSUME NEW t \in Run, NEW pc \in {"rows", "unlock"}, NEW n, n = [t EXCEPT !.pc = pc, !.left = {}]
    PROVE  n \in Run /\ n.pc = pc /\ n.batch = t.batch
  BY DEF Run, Step

\* A run that gives its row up, or is done with it.
LEMMA OverKeeps ==
    ASSUME NoticesInv, TablesOK', Steady, UNCHANGED lock, NEW j \in Job, RowOver(j)
    PROVE  NoticesInv'
<1> DEFINE t == run[j]
<1>0. PICK pc \in {"rows", "unlock"} : pc = IF j \in Replica THEN "rows" ELSE "unlock"
  OBVIOUS
<1>1. PICK n : n = [t EXCEPT !.pc = pc, !.left = {}]
  OBVIOUS
<1>2. t \in Run /\ t.batch \subseteq Row
  BY RunAt DEF NoticesInv
<1>3. n \in Run /\ n.pc = pc /\ n.batch = t.batch
  <2>1. t \in Run
    BY <1>2
  <2> HIDE DEF t
  <2> QED
    BY <1>1, <2>1, OverTyped
<1>4. RunFits(j, n)
  BY <1>3 DEF RunFits, Telling
<1>5. run' = [run EXCEPT ![j] = n]
  BY <1>0, <1>1 DEF RowOver, Turn
<1>6. LocksOK'
  BY <1>3, <1>5, LocksBusyOK
<1>7. j \in Replica => WorkerKnows(n)'
  <2>1. j \in Replica => \A r \in n.batch : row[r] # "unwritten"
    BY <1>3 DEF NoticesInv, WorkersKnow, WorkerKnows
  <2>2. j \in Replica => \A r \in n.batch : row'[r] # "unwritten"
    BY <1>2, <1>3, <2>1 DEF Steady
  <2> QED
    BY <1>3, <2>2 DEF WorkerKnows, Telling
<1> QED
  BY <1>4, <1>5, <1>6, <1>7, MoveKeeps

\* A run that is through with a parent it has told.
LEMMA NextKeeps ==
    ASSUME NoticesInv, TablesOK', Steady, UNCHANGED lock, NEW j \in Job, run[j].pc \in Telling, NextParent(j),
           NEW r, r = run[j].row, NEW p, p = Who(j), j \in Replica => Knows(r, p)'
    PROVE  NoticesInv'
<1> DEFINE t == run[j]
<1> DEFINE left == t.left \ {p}
<1>1. PICK n : n = Ahead(t, left)
  OBVIOUS
<1>2. t \in Run /\ t.batch \subseteq Row /\ t.left \subseteq Parent /\ t.left # {}
      /\ (t.row \in Row <=> j \in Replica)
  BY RunAt DEF NoticesInv
<1>3. /\ n \in Run /\ n.batch = t.batch /\ n.row = t.row /\ n.left = left
      /\ n.pc = (IF left = {} THEN "mark" ELSE "post")
  <2>1. t \in Run /\ left \in SUBSET Parent
    BY <1>2
  <2> HIDE DEF t, left
  <2> QED
    BY <1>1, <2>1, AheadTyped
<1>4. RunFits(j, n)
  BY <1>2, <1>3 DEF RunFits, Telling
<1>5. run' = [run EXCEPT ![j] = n]
  BY <1>1 DEF NextParent, Turn
<1>6. n.pc # "idle"
  BY <1>3
<1>7. LocksOK'
  BY <1>5, <1>6, LocksBusyOK
<1>8. j \in Replica => WorkerKnows(n)'
  <2> SUFFICES ASSUME j \in Replica PROVE WorkerKnows(n)'
    OBVIOUS
  <2>1. WorkerKnows(t)
    BY DEF NoticesInv, WorkersKnow
  <2>2. \A q \in n.batch : row'[q] # "unwritten"
    BY <1>2, <1>3, <2>1 DEF Steady, WorkerKnows
  <2>3. r \in Row /\ row[r] # "unwritten" /\ t.left \subseteq Audience[r]
        /\ (row[r] # "gone" => \A q \in Audience[r] \ t.left : Knows(r, q))
    BY <2>1 DEF WorkerKnows
  <2>4. row'[r] # "unwritten" /\ (row'[r] # "gone" => row[r] # "gone")
    BY <2>3 DEF Steady
  <2>5. Audience[r] \subseteq Parent
    BY <2>3, AudienceAssumption DEF About
  <2>6. row'[r] # "gone" => \A q \in Audience[r] \ left : Knows(r, q)'
    <3> SUFFICES ASSUME row'[r] # "gone", NEW q \in Audience[r] \ left PROVE Knows(r, q)'
      OBVIOUS
    <3>1. CASE q = p
      BY <3>1
    <3>2. CASE q # p
      <4>1. Knows(r, q) /\ q \in Parent
        BY <2>3, <2>4, <2>5, <3>2
      <4> QED
        BY <2>3, <4>1, KnowsStays
    <3> QED
      BY <3>1, <3>2
  <2>7. n.row \in Row /\ row'[n.row] # "unwritten" /\ n.left \subseteq Audience[n.row]
        /\ (row'[n.row] # "gone" => \A q \in Audience[n.row] \ n.left : Knows(n.row, q)')
    BY <1>3, <2>3, <2>4, <2>6
  <2> QED
    BY <1>3, <2>2, <2>7 DEF WorkerKnows
<1> QED
  BY <1>4, <1>5, <1>7, <1>8, MoveKeeps

-----------------------------------------------------------------------------
\* Locks that are only given back, or taken by the run that moves.
LEMMA LocksAfter ==
    ASSUME NoticesInv, NEW j \in Job, NEW n, run' = [run EXCEPT ![j] = n],
           lock' \in [{"worker", "weekly"} -> Job \cup {Nobody}],
           \A job \in {"worker", "weekly"} : lock'[job] \in {lock[job], Nobody} \/ (lock'[job] = j /\ n.pc # "idle"),
           \A job \in {"worker", "weekly"} : lock'[job] = j => n.pc # "idle",
           lock'["worker"] \in Replica \cup {Nobody}, lock'["weekly"] \in Desk \cup {Nobody}
    PROVE  LocksOK'
<1>1. run \in [Job -> Run] /\ \A job \in {"worker", "weekly"} : lock[job] # Nobody => run[lock[job]].pc # "idle"
  BY DEF NoticesInv, NoticesTypeOK
<1>2. \A i \in Job : run'[i] = IF i = j THEN n ELSE run[i]
  BY <1>1
<1>3. \A job \in {"worker", "weekly"} : lock'[job] # Nobody => run'[lock'[job]].pc # "idle"
  <2> SUFFICES ASSUME NEW job \in {"worker", "weekly"}, lock'[job] # Nobody PROVE run'[lock'[job]].pc # "idle"
    OBVIOUS
  <2>1. lock'[job] \in Job
    OBVIOUS
  <2>2. CASE lock'[job] = j
    BY <1>2, <2>2
  <2>3. CASE lock'[job] # j
    BY <1>1, <1>2, <2>1, <2>3
  <2> QED
    BY <2>2, <2>3
<1> QED
  BY <1>3 DEF LocksOK, LocksApart

\* A job without a run has a typed state.
LEMMA IdleTyped == Idle \in Run /\ Idle.pc = "idle" /\ Idle.batch = {}
  BY DEF Idle, Run, Step, About

\* A run that ends gives back the lock it has.
LEMMA EndingKeeps ==
    ASSUME NoticesInv, UNCHANGED <<row, told, recent>>, faults' \in 0..MaxFaults, NEW j \in Job, Turn(j, Idle),
           lock' \in [{"worker", "weekly"} -> Job \cup {Nobody}],
           \A job \in {"worker", "weekly"} : lock'[job] \in {lock[job], Nobody} /\ lock'[job] # j
    PROVE  NoticesInv'
<1>1. UNCHANGED <<row, posts, mailed>> /\ UNCHANGED <<texts, logged, recent>>
  BY DEF told
<1>2. Steady
  BY <1>1, SteadyTables
<1>3. TablesOK'
  BY <1>1 DEF NoticesInv, NoticesTypeOK, TablesOK
<1>4. PICK n : n = Idle
  OBVIOUS
<1>5. RunFits(j, n) /\ WorkerKnows(n)'
  BY <1>4, IdleTyped DEF RunFits, WorkerKnows, Telling
<1>6. run' = [run EXCEPT ![j] = n]
  BY <1>4 DEF Turn
<1>7. LocksOK'
  <2>1. lock'["worker"] \in Replica \cup {Nobody} /\ lock'["weekly"] \in Desk \cup {Nobody}
    BY DEF NoticesInv, LocksApart
  <2> QED
    BY <1>6, <2>1, LocksAfter
<1> QED
  BY <1>2, <1>3, <1>5, <1>6, <1>7, MoveKeeps

\* A dead process leaves its locks and its runs.
LEMMA CrashKeeps ==
    ASSUME NoticesInv, NEW j \in Job, Crash(j)
    PROVE  NoticesInv'
<1>1. lock \in [{"worker", "weekly"} -> Job \cup {Nobody}] /\ faults \in 0..MaxFaults
  BY DEF NoticesInv, NoticesTypeOK
<1>2. UNCHANGED <<row, told, recent>> /\ Turn(j, Idle)
      /\ lock' = [job \in DOMAIN lock |-> IF lock[job] = j THEN Nobody ELSE lock[job]]
  BY DEF Crash
<1>3. faults' \in 0..MaxFaults
  BY <1>1, LimitAssumption DEF Crash, Fault
<1>4. /\ lock' \in [{"worker", "weekly"} -> Job \cup {Nobody}]
      /\ \A job \in {"worker", "weekly"} : lock'[job] \in {lock[job], Nobody} /\ lock'[job] # j
  BY <1>1, <1>2, PeopleAssumption
<1> QED
  BY <1>2, <1>3, <1>4, EndingKeeps

\* So does a worker at the end of its batch.
LEMMA EndBatchKeeps ==
    ASSUME NoticesInv, NEW w \in Replica, EndBatch(w)
    PROVE  NoticesInv'
<1>1. /\ lock \in [{"worker", "weekly"} -> Job \cup {Nobody}] /\ lock["weekly"] \in Desk \cup {Nobody}
      /\ faults \in 0..MaxFaults
  BY DEF NoticesInv, NoticesTypeOK, LocksApart
<1>2. UNCHANGED <<row, told, recent>> /\ UNCHANGED faults /\ Turn(w, Idle)
      /\ lock' = [lock EXCEPT !["worker"] = IF @ = w THEN Nobody ELSE @]
  BY DEF EndBatch
<1>3. w \in Job /\ w # Nobody /\ w \notin Desk
  BY PeopleAssumption DEF Job
<1>4. lock' \in [{"worker", "weekly"} -> Job \cup {Nobody}]
  BY <1>1, <1>2
<1>5. lock'["worker"] = (IF lock["worker"] = w THEN Nobody ELSE lock["worker"]) /\ lock'["weekly"] = lock["weekly"]
  BY <1>1, <1>2
<1>6. \A job \in {"worker", "weekly"} : lock'[job] \in {lock[job], Nobody} /\ lock'[job] # w
  BY <1>1, <1>3, <1>5
<1> QED
  BY <1>1, <1>2, <1>3, <1>4, <1>6, EndingKeeps

\* So does a reminder run at its end.
LEMMA EndRemindersKeeps ==
    ASSUME NoticesInv, NEW d \in Desk, EndReminders(d)
    PROVE  NoticesInv'
<1>1. /\ lock \in [{"worker", "weekly"} -> Job \cup {Nobody}] /\ lock["worker"] \in Replica \cup {Nobody}
      /\ faults \in 0..MaxFaults
  BY DEF NoticesInv, NoticesTypeOK, LocksApart
<1>2. UNCHANGED <<row, told, recent>> /\ UNCHANGED faults /\ Turn(d, Idle)
      /\ lock' = [lock EXCEPT !["weekly"] = IF @ = d THEN Nobody ELSE @]
  BY DEF EndReminders
<1>3. d \in Job /\ d # Nobody /\ d \notin Replica
  BY PeopleAssumption DEF Job
<1>4. lock' \in [{"worker", "weekly"} -> Job \cup {Nobody}]
  BY <1>1, <1>2
<1>5. lock'["weekly"] = (IF lock["weekly"] = d THEN Nobody ELSE lock["weekly"]) /\ lock'["worker"] = lock["worker"]
  BY <1>1, <1>2
<1>6. \A job \in {"worker", "weekly"} : lock'[job] \in {lock[job], Nobody} /\ lock'[job] # d
  BY <1>1, <1>3, <1>5
<1> QED
  BY <1>1, <1>2, <1>3, <1>4, <1>6, EndingKeeps

\* A run begins with its lock, or none.
LEMMA TickKeeps ==
    ASSUME NoticesInv, NEW w \in Replica, Tick(w)
    PROVE  NoticesInv'
<1>1. /\ run[w].pc = "idle" /\ lock' = [lock EXCEPT !["worker"] = w] /\ Goto(w, "batch")
      /\ UNCHANGED <<row, posts, mailed>> /\ UNCHANGED <<texts, logged, recent, faults>>
  BY DEF Tick, told
<1>2. w \in Job
  BY DEF Job
<1>3. PICK t : t = run[w]
  OBVIOUS
<1>4. t \in Run /\ (\A r \in t.batch : row[r] # "unwritten") /\ t.batch \subseteq Row
  BY <1>2, <1>3, RunAt DEF NoticesInv, WorkersKnow, WorkerKnows
<1>5. PICK n : n = [t EXCEPT !.pc = "batch"]
  OBVIOUS
<1>6. n \in Run /\ n.pc = "batch" /\ n.batch = t.batch
  BY <1>4, <1>5, LabelTyped DEF Step
<1>7. run' = [run EXCEPT ![w] = n]
  BY <1>1, <1>3, <1>5 DEF Goto
<1>8. Steady /\ TablesOK'
  BY <1>1, SteadyTables DEF NoticesInv, NoticesTypeOK, TablesOK
<1>9. RunFits(w, n)
  BY <1>6 DEF RunFits, Telling
<1>10. WorkerKnows(n)'
  BY <1>1, <1>4, <1>6 DEF WorkerKnows, Telling
<1>11. LocksOK'
  <2>1. lock \in [{"worker", "weekly"} -> Job \cup {Nobody}] /\ lock["weekly"] \in Desk \cup {Nobody}
    BY DEF NoticesInv, NoticesTypeOK, LocksApart
  <2>2. lock' \in [{"worker", "weekly"} -> Job \cup {Nobody}] /\ lock'["worker"] = w /\ lock'["weekly"] = lock["weekly"]
    BY <1>1, <1>2, <2>1
  <2>3. \A job \in {"worker", "weekly"} : lock'[job] \in {lock[job], Nobody} \/ (lock'[job] = w /\ n.pc # "idle")
    BY <1>6, <2>2
  <2> QED
    BY <1>2, <1>6, <1>7, <2>1, <2>2, <2>3, LocksAfter
<1> QED
  BY <1>2, <1>7, <1>8, <1>9, <1>10, <1>11, MoveKeeps

\* A run goes on to the next way of telling the same parent.
LEMMA GotoKeeps ==
    ASSUME NoticesInv, TablesOK', Steady, UNCHANGED lock, NEW j \in Job, run[j].pc \in Telling,
           NEW label \in {"mail", "limit", "text", "log"}, Goto(j, label),
           NEW r, r = run[j].row, NEW p, p = Who(j),
           j \in Replica /\ label = "mail" /\ "app" \in Channel[r] => posts'[r][p] > 0,
           j \in Replica /\ label # "mail" => Knows(r, p)'
    PROVE  NoticesInv'
<1>1. PICK t : t = run[j]
  OBVIOUS
<1>2. /\ t \in Run /\ t.batch \subseteq Row /\ t.left \subseteq Parent /\ t.left # {}
      /\ (t.row \in Row <=> j \in Replica)
  BY <1>1, RunAt DEF NoticesInv
<1>3. PICK n : n = [t EXCEPT !.pc = label]
  OBVIOUS
<1>4. n \in Run /\ n.pc = label /\ n.batch = t.batch /\ n.row = t.row /\ n.left = t.left
  BY <1>2, <1>3, LabelTyped DEF Step
<1>5. RunFits(j, n)
  BY <1>2, <1>4 DEF RunFits, Telling
<1>6. run' = [run EXCEPT ![j] = n]
  BY <1>1, <1>3 DEF Goto
<1>7. LocksOK'
  BY <1>4, <1>6, LocksBusyOK
<1>8. j \in Replica => WorkerKnows(n)'
  <2> SUFFICES ASSUME j \in Replica PROVE WorkerKnows(n)'
    OBVIOUS
  <2>1. WorkerKnows(t)
    BY <1>1 DEF NoticesInv, WorkersKnow
  <2>2. \A q \in n.batch : row'[q] # "unwritten"
    BY <1>2, <1>4, <2>1 DEF Steady, WorkerKnows
  <2>3. r \in Row /\ row[r] # "unwritten" /\ t.left \subseteq Audience[r]
        /\ (row[r] # "gone" => \A q \in Audience[r] \ t.left : Knows(r, q))
    BY <1>1, <2>1 DEF WorkerKnows
  <2>4. row'[r] # "unwritten" /\ (row'[r] # "gone" => row[r] # "gone")
    BY <2>3 DEF Steady
  <2>5. Audience[r] \subseteq Parent
    BY <2>3, AudienceAssumption DEF About
  <2>6. row'[r] # "gone" => \A q \in Audience[r] \ t.left : Knows(r, q)'
    BY <2>3, <2>4, <2>5, KnowsStays
  <2>7. n.row = r /\ LeastOf(n.left) = p
    BY <1>1, <1>4 DEF Who
  <2>8. n.row \in Row /\ row'[n.row] # "unwritten" /\ n.left \subseteq Audience[n.row]
        /\ (row'[n.row] # "gone" => \A q \in Audience[n.row] \ n.left : Knows(n.row, q)')
    BY <1>4, <2>3, <2>4, <2>6, <2>7
  <2> QED
    BY <1>4, <2>2, <2>7, <2>8 DEF WorkerKnows
<1> QED
  BY <1>5, <1>6, <1>7, <1>8, MoveKeeps

\* What a run that is telling has in hand.
LEMMA AtParent ==
    ASSUME NoticesInv, NEW j \in Job, run[j].pc \in Telling
    PROVE  /\ Who(j) \in Parent /\ (run[j].row \in Row <=> j \in Replica) /\ run[j].row \in About
           /\ j \in Replica /\ run[j].pc \in {"limit", "text", "log"} => Knows(run[j].row, Who(j))
           /\ j \in Replica /\ run[j].pc = "mail" /\ "app" \in Channel[run[j].row] => posts[run[j].row][Who(j)] > 0
<1>1. run[j].left \subseteq Parent /\ run[j].left # {} /\ (run[j].row \in Row <=> j \in Replica) /\ run[j].row \in About
  BY RunAt DEF NoticesInv
<1>2. Who(j) \in Parent
  BY <1>1, LeastParent DEF Who
<1>3. j \in Replica => WorkerKnows(run[j])
  BY DEF NoticesInv, WorkersKnow
<1> QED
  BY <1>1, <1>2, <1>3 DEF WorkerKnows, Who

\* Reading the day's count of texts keeps the invariant.
LEMMA LimitKeeps ==
    ASSUME NoticesInv, NEW j \in Job, Limit(j)
    PROVE  NoticesInv'
<1>1. /\ run[j].pc = "limit" /\ (NextParent(j) \/ Goto(j, "text")) /\ UNCHANGED lock
      /\ UNCHANGED <<row, posts, mailed>> /\ UNCHANGED <<texts, logged, recent, faults>>
  BY DEF Limit, told
<1>2. Steady /\ TablesOK'
  BY <1>1, SteadyTables DEF NoticesInv, NoticesTypeOK, TablesOK
<1>3. PICK r, p : r = run[j].row /\ p = Who(j)
  OBVIOUS
<1>4. run[j].pc \in Telling /\ p \in Parent /\ (j \in Replica => r \in Row /\ Knows(r, p))
  BY <1>1, <1>3, AtParent DEF Telling
<1>5. j \in Replica => Knows(r, p)'
  BY <1>2, <1>4, KnowsStays
<1> QED
  BY <1>1, <1>2, <1>3, <1>4, <1>5, NextKeeps, GotoKeeps

\* Sending a text keeps it, answered or not.
LEMMA TextKeeps ==
    ASSUME NoticesInv, NEW j \in Job, Text(j) \/ AnswerLost(j)
    PROVE  NoticesInv'
<1>1. /\ run[j].pc = "text" /\ (NextParent(j) \/ Goto(j, "log")) /\ UNCHANGED lock
      /\ UNCHANGED <<row, posts, mailed>> /\ UNCHANGED <<logged, recent>>
      /\ (UNCHANGED texts \/ texts' = [texts EXCEPT ![Who(j)] = @ + 1])
      /\ (UNCHANGED faults \/ Fault)
  BY DEF Text, AnswerLost
<1>0. faults' \in 0..MaxFaults
  <2>1. faults \in 0..MaxFaults
    BY DEF NoticesInv, NoticesTypeOK
  <2> QED
    BY <1>1, <2>1, LimitAssumption DEF Fault
<1>2. run[j].pc \in Telling /\ Who(j) \in Parent
  BY <1>1, AtParent DEF Telling
<1>3. texts' \in [Parent -> Nat]
  BY <1>1, <1>2 DEF NoticesInv, NoticesTypeOK
<1>4. Steady /\ TablesOK'
  BY <1>0, <1>1, <1>3, SteadyTables DEF NoticesInv, NoticesTypeOK, TablesOK
<1>5. PICK r, p : r = run[j].row /\ p = Who(j)
  OBVIOUS
<1>6. p \in Parent /\ (j \in Replica => r \in Row /\ Knows(r, p))
  BY <1>1, <1>2, <1>5, AtParent
<1>7. j \in Replica => Knows(r, p)'
  BY <1>4, <1>6, KnowsStays
<1> QED
  BY <1>1, <1>2, <1>4, <1>5, <1>6, <1>7, NextKeeps, GotoKeeps

\* So does the log row of the text.
LEMMA LogKeeps ==
    ASSUME NoticesInv, NEW j \in Job, Log(j)
    PROVE  NoticesInv'
<1>1. /\ run[j].pc = "log" /\ NextParent(j) /\ UNCHANGED lock
      /\ UNCHANGED <<row, posts, mailed>> /\ UNCHANGED <<texts, recent, faults>>
      /\ logged' = [logged EXCEPT ![Who(j)] = @ + 1]
  BY DEF Log
<1>2. run[j].pc \in Telling /\ Who(j) \in Parent
  BY <1>1, AtParent DEF Telling
<1>3. logged' \in [Parent -> Nat]
  BY <1>1, <1>2 DEF NoticesInv, NoticesTypeOK
<1>4. Steady /\ TablesOK'
  BY <1>1, <1>3, SteadyTables DEF NoticesInv, NoticesTypeOK, TablesOK
<1>5. PICK r, p : r = run[j].row /\ p = Who(j)
  OBVIOUS
<1>6. p \in Parent /\ (j \in Replica => r \in Row /\ Knows(r, p))
  BY <1>1, <1>2, <1>5, AtParent
<1>7. j \in Replica => Knows(r, p)'
  BY <1>4, <1>6, KnowsStays
<1> QED
  BY <1>1, <1>2, <1>4, <1>5, <1>7, NextKeeps

\* A notice more for one parent.
LEMMA PostedTyped ==
    ASSUME NoticesInv, NEW r \in Row, NEW p \in Parent, posts' = [posts EXCEPT ![r][p] = @ + 1], UNCHANGED <<row, mailed>>
    PROVE  posts' \in [Row -> [Parent -> Nat]] /\ Steady /\ posts'[r][p] > 0
<1>1. posts \in [Row -> [Parent -> Nat]]
  BY DEF NoticesInv, NoticesTypeOK
<1>2. posts[r][p] \in Nat
  BY <1>1
<1>3. posts' \in [Row -> [Parent -> Nat]]
  BY <1>1
<1>4. posts'[r][p] = posts[r][p] + 1
  BY <1>1
<1>5. \A q \in Row, m \in Parent : (q # r \/ m # p) => posts'[q][m] = posts[q][m]
  BY <1>1
<1>6. \A q \in Row, m \in Parent : posts[q][m] > 0 => posts'[q][m] > 0
  BY <1>2, <1>4, <1>5
<1> QED
  BY <1>2, <1>3, <1>4, <1>6 DEF Steady

\* A parent told in the application has been told.
LEMMA PostKeeps ==
    ASSUME NoticesInv, NEW j \in Job, Post(j)
    PROVE  NoticesInv'
<1>1. run[j].pc = "post" /\ UNCHANGED lock /\ UNCHANGED <<row, mailed>> /\ UNCHANGED <<texts, logged, recent, faults>>
  BY DEF Post
<1>2. PICK r, p : r = run[j].row /\ p = Who(j)
  OBVIOUS
<1>3. run[j].pc \in Telling /\ p \in Parent /\ (r \in Row <=> j \in Replica)
  BY <1>1, <1>2, AtParent DEF Telling
<1>4. CASE r \in Row /\ row[r] = "gone"
  <2>1. RowOver(j) /\ UNCHANGED <<row, posts, mailed>>
    BY <1>1, <1>2, <1>4 DEF Post
  <2>2. Steady /\ TablesOK'
    BY <1>1, <2>1, SteadyTables DEF NoticesInv, NoticesTypeOK, TablesOK
  <2> QED
    BY <1>1, <2>1, <2>2, OverKeeps
<1>5. CASE ~(r \in Row /\ row[r] = "gone")
  <2>1. /\ Goto(j, "mail")
        /\ posts' = IF r \in Row /\ "app" \in Channel[r] THEN [posts EXCEPT ![r][p] = @ + 1] ELSE posts
    BY <1>2, <1>5 DEF Post
  <2>2. posts' \in [Row -> [Parent -> Nat]] /\ Steady /\ (r \in Row /\ "app" \in Channel[r] => posts'[r][p] > 0)
    <3>1. CASE r \in Row /\ "app" \in Channel[r]
      BY <1>1, <1>3, <2>1, <3>1, PostedTyped
    <3>2. CASE ~(r \in Row /\ "app" \in Channel[r])
      <4>1. UNCHANGED posts
        BY <2>1, <3>2
      <4> QED
        BY <1>1, <3>2, <4>1, SteadyTables DEF NoticesInv, NoticesTypeOK
    <3> QED
      BY <3>1, <3>2
  <2>3. TablesOK'
    BY <1>1, <2>2 DEF NoticesInv, NoticesTypeOK, TablesOK
  <2> QED
    BY <1>1, <1>2, <1>3, <2>1, <2>2, <2>3, GotoKeeps
<1> QED
  BY <1>4, <1>5

\* A parent told by mail has been told.
LEMMA MailKeeps ==
    ASSUME NoticesInv, NEW j \in Job, Mail(j)
    PROVE  NoticesInv'
<1>1. /\ run[j].pc = "mail" /\ (NextParent(j) \/ Goto(j, "limit")) /\ UNCHANGED lock
      /\ UNCHANGED <<row, posts>> /\ UNCHANGED <<texts, logged, recent, faults>>
  BY DEF Mail
<1>2. PICK r, p : r = run[j].row /\ p = Who(j)
  OBVIOUS
<1>3. /\ run[j].pc \in Telling /\ p \in Parent /\ (r \in Row <=> j \in Replica)
      /\ (j \in Replica /\ "app" \in Channel[r] => posts[r][p] > 0)
  BY <1>1, <1>2, AtParent DEF Telling
<1>4. mailed' = IF r \in Row /\ "mail" \in Channel[r] THEN mailed \cup {<<r, p>>} ELSE mailed
  BY <1>2 DEF Mail
<1>5. mailed \subseteq mailed' /\ mailed' \subseteq Row \X Parent
  <2>1. mailed \subseteq Row \X Parent
    BY DEF NoticesInv, NoticesTypeOK
  <2> QED
    BY <1>3, <1>4, <2>1
<1>6. Steady /\ TablesOK'
  BY <1>1, <1>5 DEF Steady, NoticesInv, NoticesTypeOK, TablesOK
<1>7. j \in Replica => Knows(r, p)'
  BY <1>1, <1>3, <1>4 DEF Knows
<1> QED
  BY <1>1, <1>2, <1>3, <1>6, <1>7, NextKeeps, GotoKeeps

\* A run that throws forgets the row and the parents it had left.
LEMMA ThrowKeeps ==
    ASSUME NoticesInv, NEW j \in Job, Throw(j)
    PROVE  NoticesInv'
<1>1. RowOver(j) /\ UNCHANGED <<row, posts, mailed>> /\ UNCHANGED <<texts, logged, lock, recent>> /\ UNCHANGED lock
  BY DEF Throw, told
<1>2. faults' \in 0..MaxFaults
  <2>1. faults \in 0..MaxFaults
    BY DEF NoticesInv, NoticesTypeOK
  <2> QED
    BY <2>1, LimitAssumption DEF Throw, Fault
<1>3. Steady /\ TablesOK'
  BY <1>1, <1>2, SteadyTables DEF NoticesInv, NoticesTypeOK, TablesOK
<1> QED
  BY <1>1, <1>3, OverKeeps

\* The status of one row changes.
LEMMA StatusTyped ==
    ASSUME NoticesInv, NEW r \in Row, NEW v \in {"waiting", "processed", "gone"}, row' = [row EXCEPT ![r] = v],
           row[r] # "gone", UNCHANGED <<posts, mailed>>
    PROVE  row' \in [Row -> {"unwritten", "waiting", "processed", "gone"}] /\ Steady
<1>1. row \in [Row -> {"unwritten", "waiting", "processed", "gone"}]
  BY DEF NoticesInv, NoticesTypeOK
<1> QED
  BY <1>1 DEF Steady

\* A row is stamped by a worker with no parent left to tell.
LEMMA MarkKeeps ==
    ASSUME NoticesInv, NEW w \in Replica, Mark(w)
    PROVE  NoticesInv'
<1>1. /\ run[w].pc = "mark" /\ RowOver(w) /\ UNCHANGED <<posts, mailed>> /\ UNCHANGED <<texts, logged, recent, faults>>
      /\ UNCHANGED lock
  BY DEF Mark, told
<1>2. w \in Job
  BY DEF Job
<1>3. PICK r : r = run[w].row
  OBVIOUS
<1>4. r \in Row
  BY <1>1, <1>2, <1>3, RunAt DEF NoticesInv
<1>5. row' \in [Row -> {"unwritten", "waiting", "processed", "gone"}] /\ Steady
  <2>1. row' = [row EXCEPT ![r] = IF @ = "waiting" THEN "processed" ELSE @]
    BY <1>3 DEF Mark
  <2>2. CASE row[r] = "waiting"
    <3>1. row' = [row EXCEPT ![r] = "processed"]
      BY <2>1, <2>2
    <3> QED
      BY <1>1, <1>4, <2>2, <3>1, StatusTyped
  <2>3. CASE row[r] # "waiting"
    <3>1. row \in [Row -> {"unwritten", "waiting", "processed", "gone"}]
      BY DEF NoticesInv, NoticesTypeOK
    <3>2. UNCHANGED row
      BY <2>1, <2>3, <3>1
    <3> QED
      BY <1>1, <3>1, <3>2, SteadyTables
  <2> QED
    BY <2>2, <2>3
<1>6. TablesOK'
  BY <1>1, <1>5 DEF NoticesInv, NoticesTypeOK, TablesOK
<1> QED
  BY <1>1, <1>2, <1>5, <1>6, OverKeeps

\* A row is queued, or purged with its school.
LEMMA RowStepKeeps ==
    ASSUME NoticesInv, NEW r \in Row, Queue(r) \/ Purge(r)
    PROVE  NoticesInv'
<1>1. /\ UNCHANGED <<posts, mailed>> /\ UNCHANGED <<texts, logged, recent, faults>> /\ UNCHANGED lock /\ UNCHANGED run
      /\ row[r] # "gone" /\ (row' = [row EXCEPT ![r] = "waiting"] \/ row' = [row EXCEPT ![r] = "gone"])
  BY DEF Queue, Purge, told
<1>2. row' \in [Row -> {"unwritten", "waiting", "processed", "gone"}] /\ Steady
  BY <1>1, StatusTyped
<1>3. TablesOK'
  BY <1>1, <1>2 DEF NoticesInv, NoticesTypeOK, TablesOK
<1>4. LocksOK'
  BY <1>1 DEF NoticesInv, NoticesTypeOK, LocksOK, LocksApart
<1> QED
  BY <1>1, <1>2, <1>3, <1>4, TablesKeep

\* An hour passes, or a session that holds a lock drops.
LEMMA LostLockKeeps ==
    ASSUME NoticesInv, Hour \/ \E job \in {"worker", "weekly"} : DropSession(job)
    PROVE  NoticesInv'
<1>1. /\ UNCHANGED <<row, posts, mailed>> /\ UNCHANGED <<texts, logged, run>> /\ UNCHANGED run
      /\ recent' \in BOOLEAN
  BY DEF Hour, DropSession, told, NoticesInv, NoticesTypeOK
<1>2. faults' \in 0..MaxFaults
  <2>1. faults \in 0..MaxFaults
    BY DEF NoticesInv, NoticesTypeOK
  <2> QED
    BY <2>1, LimitAssumption DEF Hour, DropSession, Fault
<1>3. Steady /\ TablesOK'
  BY <1>1, <1>2, SteadyTables DEF NoticesInv, NoticesTypeOK, TablesOK
<1>4. LocksOK'
  <2>1. LocksOK
    BY InvParts
  <2>2. lock' = lock \/ \E job \in {"worker", "weekly"} : lock' = [lock EXCEPT ![job] = Nobody]
    BY DEF Hour, DropSession
  <2>3. /\ lock' \in [{"worker", "weekly"} -> Job \cup {Nobody}]
        /\ \A job \in {"worker", "weekly"} : lock'[job] \in {lock[job], Nobody}
    BY <2>1, <2>2 DEF LocksOK
  <2> QED
    BY <1>1, <2>1, <2>3 DEF LocksOK, LocksApart
<1> QED
  BY <1>1, <1>3, <1>4, TablesKeep

\* A reminder begins with the first parent of its list.
LEMMA RemindKeeps ==
    ASSUME NoticesInv, NEW d \in Desk, RemindNow(d) \/ RemindWeekly(d)
    PROVE  NoticesInv'
<1>1. /\ UNCHANGED <<row, posts, mailed>> /\ UNCHANGED <<texts, logged, faults>> /\ recent' \in BOOLEAN
      /\ Turn(d, Ahead(Idle, Audience[Fees]))
      /\ (UNCHANGED lock \/ lock' = [lock EXCEPT !["weekly"] = d])
  BY DEF RemindNow, RemindWeekly, told, NoticesInv, NoticesTypeOK
<1>2. d \in Job /\ d \notin Replica
  BY PeopleAssumption DEF Job
<1>3. Steady /\ TablesOK'
  BY <1>1, SteadyTables DEF NoticesInv, NoticesTypeOK, TablesOK
<1>4. PICK n : n = Ahead(Idle, Audience[Fees])
  OBVIOUS
<1>5. Audience[Fees] \in SUBSET Parent
  BY AudienceAssumption DEF About
<1>6. n \in Run /\ n.row = Fees /\ n.left = Audience[Fees] /\ n.pc = (IF Audience[Fees] = {} THEN "mark" ELSE "post")
  <2>1. n \in Run /\ n.row = Idle.row /\ n.left = Audience[Fees] /\ n.pc = (IF Audience[Fees] = {} THEN "mark" ELSE "post")
    BY <1>4, <1>5, IdleTyped, AheadTyped
  <2> QED
    BY <2>1 DEF Idle
<1>7. RunFits(d, n) /\ n.pc # "idle"
  BY <1>2, <1>6, PeopleAssumption DEF RunFits, Telling
<1>8. run' = [run EXCEPT ![d] = n]
  BY <1>1, <1>4 DEF Turn
<1>9. LocksOK'
  <2>1. CASE UNCHANGED lock
    BY <1>2, <1>7, <1>8, <2>1, LocksBusyOK
  <2>2. CASE lock' = [lock EXCEPT !["weekly"] = d]
    <3>1. lock \in [{"worker", "weekly"} -> Job \cup {Nobody}] /\ lock["worker"] \in Replica \cup {Nobody}
      BY DEF NoticesInv, NoticesTypeOK, LocksApart
    <3>2. lock' \in [{"worker", "weekly"} -> Job \cup {Nobody}] /\ lock'["weekly"] = d /\ lock'["worker"] = lock["worker"]
      BY <1>2, <2>2, <3>1
    <3>3. \A job \in {"worker", "weekly"} : lock'[job] \in {lock[job], Nobody} \/ (lock'[job] = d /\ n.pc # "idle")
      BY <1>7, <3>2
    <3> QED
      BY <1>2, <1>7, <1>8, <3>1, <3>2, <3>3, LocksAfter
  <2> QED
    BY <1>1, <2>1, <2>2
<1> QED
  BY <1>2, <1>3, <1>7, <1>8, <1>9, MoveKeeps

\* The batch is read, and its rows are opened one by one.
LEMMA WorkerMoveKeeps ==
    ASSUME NoticesInv, UNCHANGED <<row, told, lock, recent, faults>>, NEW w \in Replica, NEW n, n.pc # "idle",
           RunFits(w, n), run' = [run EXCEPT ![w] = n], WorkerKnows(n)
    PROVE  NoticesInv'
<1>1. UNCHANGED <<row, posts, mailed>> /\ UNCHANGED <<texts, logged, recent, faults>> /\ UNCHANGED lock
  BY DEF told
<1>2. Steady /\ TablesOK'
  BY <1>1, SteadyTables DEF NoticesInv, NoticesTypeOK, TablesOK
<1>3. w \in Job
  BY DEF Job
<1>4. LocksOK'
  BY <1>1, <1>3, LocksBusyOK
<1>5. WorkerKnows(n)'
  BY <1>2, WorkerStays DEF RunFits
<1> QED
  BY <1>2, <1>3, <1>4, <1>5, MoveKeeps

\* A batch is made of open rows.
LEMMA ReadBatchKeeps ==
    ASSUME NoticesInv, NEW w \in Replica, ReadBatch(w)
    PROVE  NoticesInv'
<1>1. UNCHANGED <<row, told, lock, recent, faults>> /\ Turn(w, [run[w] EXCEPT !.pc = "rows", !.batch = Batch])
  BY DEF ReadBatch
<1>2. run[w] \in Run
  BY RunAt DEF NoticesInv, Job
<1>3. Batch \subseteq Row /\ \A r \in Batch : row[r] # "unwritten"
  BY DEF Batch, Waiting
<1>4. PICK n : n = [run[w] EXCEPT !.pc = "rows", !.batch = Batch]
  OBVIOUS
<1>5. n \in Run /\ n.pc = "rows" /\ n.batch = Batch
  BY <1>2, <1>3, <1>4 DEF Run, Step
<1>6. RunFits(w, n) /\ WorkerKnows(n) /\ n.pc # "idle"
  BY <1>3, <1>5 DEF RunFits, WorkerKnows, Telling
<1>7. run' = [run EXCEPT ![w] = n]
  BY <1>1, <1>4 DEF Turn
<1> QED
  BY <1>1, <1>6, <1>7, WorkerMoveKeeps

\* A worker that opens a row has all its parents before it.
LEMMA OpenRowKeeps ==
    ASSUME NoticesInv, NEW w \in Replica, OpenRow(w)
    PROVE  NoticesInv'
<1>1. PICK t, r, rest, parents :
         /\ t = run[w] /\ r = LeastOf(t.batch) /\ rest = t.batch \ {r}
         /\ parents = IF row[r] = "gone" THEN {} ELSE Audience[r]
  OBVIOUS
<1>2. /\ UNCHANGED <<row, told, lock, recent, faults>> /\ t.pc = "rows" /\ t.batch # {}
      /\ Turn(w, IF r \in Poison THEN [t EXCEPT !.batch = rest]
                 ELSE Ahead([t EXCEPT !.batch = rest, !.row = r], parents))
  BY <1>1 DEF OpenRow
<1>3. t \in Run /\ t.batch \subseteq Row /\ \A q \in t.batch : row[q] # "unwritten"
  BY <1>1, RunAt DEF NoticesInv, Job, WorkersKnow, WorkerKnows
<1>4. r \in t.batch /\ r \in Row /\ row[r] # "unwritten" /\ rest \subseteq t.batch
  <2>1. t.batch \subseteq Nat
    BY <1>3, PeopleAssumption
  <2> QED
    BY <1>1, <1>2, <1>3, <2>1, LeastIsIn
<1>5. CASE r \in Poison
  <2>1. PICK n : n = [t EXCEPT !.batch = rest]
    OBVIOUS
  <2>2. n \in Run /\ n.pc = "rows" /\ n.batch = rest
    BY <1>2, <1>3, <1>4, <2>1 DEF Run
  <2>3. RunFits(w, n) /\ WorkerKnows(n) /\ n.pc # "idle"
    BY <1>3, <1>4, <2>2 DEF RunFits, WorkerKnows, Telling
  <2>4. run' = [run EXCEPT ![w] = n]
    BY <1>2, <1>5, <2>1 DEF Turn
  <2> QED
    BY <1>2, <2>3, <2>4, WorkerMoveKeeps
<1>6. CASE r \notin Poison
  <2>1. PICK m : m = [t EXCEPT !.batch = rest, !.row = r]
    OBVIOUS
  <2>2. m \in Run /\ m.batch = rest /\ m.row = r
    BY <1>3, <1>4, <2>1 DEF Run, About
  <2>3. Audience[r] \in SUBSET Parent /\ parents \in SUBSET Parent
    BY <1>1, <1>4, AudienceAssumption DEF About
  <2>4. PICK n : n = Ahead(m, parents)
    OBVIOUS
  <2>5. /\ n \in Run /\ n.batch = rest /\ n.row = r /\ n.left = parents
        /\ n.pc = (IF parents = {} THEN "mark" ELSE "post")
    BY <2>2, <2>3, <2>4, AheadTyped
  <2>6. RunFits(w, n) /\ n.pc # "idle"
    BY <1>4, <2>5 DEF RunFits, Telling
  <2>7. WorkerKnows(n)
    <3>1. parents \subseteq Audience[r] /\ (row[r] # "gone" => Audience[r] \ parents = {})
      BY <1>1
    <3>2. \A q \in n.batch : row[q] # "unwritten"
      BY <1>3, <1>4, <2>5
    <3> QED
      BY <1>4, <2>5, <3>1, <3>2 DEF WorkerKnows
  <2>8. run' = [run EXCEPT ![w] = n]
    BY <1>2, <1>6, <2>1, <2>4 DEF Turn
  <2> QED
    BY <1>2, <2>6, <2>7, <2>8, WorkerMoveKeeps
<1> QED
  BY <1>5, <1>6

-----------------------------------------------------------------------------
\* The invariant holds at the start.
LEMMA NoticesStart == Init => NoticesInv
<1> SUFFICES ASSUME Init PROVE NoticesInv
  OBVIOUS
<1>1. \A j \in Job : run[j] = Idle
  BY DEF Init
<1>2. run \in [Job -> Run] /\ \A j \in Job : RunOK(j)
  BY <1>1, IdleTyped DEF Init, RunOK
<1>3. TablesOK
  <2>1. 0 \in 0..MaxFaults
    BY LimitAssumption
  <2>2. posts \in [Row -> [Parent -> Nat]] /\ texts \in [Parent -> Nat] /\ logged \in [Parent -> Nat]
    BY DEF Init
  <2> QED
    BY <2>1, <2>2 DEF Init, TablesOK
<1>4. LocksOK
  BY DEF Init, LocksOK, LocksApart
<1>5. WorkersKnow
  BY <1>1, IdleTyped DEF WorkersKnow, WorkerKnows, Telling, Job
<1> QED
  BY <1>2, <1>3, <1>4, <1>5, InvParts

\* Every step keeps it.
LEMMA NoticesStep == NoticesInv /\ [Next]_vars => NoticesInv'
<1> SUFFICES ASSUME NoticesInv, [Next]_vars PROVE NoticesInv'
  OBVIOUS
<1>1. CASE UNCHANGED vars
  <2>1. UNCHANGED <<row, posts, mailed>> /\ UNCHANGED <<texts, logged, recent, faults, lock, run>> /\ UNCHANGED run
    BY <1>1 DEF vars
  <2>2. Steady /\ TablesOK' /\ LocksOK'
    BY <2>1, SteadyTables DEF NoticesInv, NoticesTypeOK, TablesOK, LocksOK, LocksApart
  <2> QED
    BY <2>1, <2>2, TablesKeep
<1>2. ASSUME NEW r \in Row, Queue(r) \/ Purge(r) PROVE NoticesInv'
  BY <1>2, RowStepKeeps
<1>3. ASSUME NEW j \in Job, TellStep(j) PROVE NoticesInv'
  BY <1>3, PostKeeps, MailKeeps, LimitKeeps, TextKeeps, LogKeeps DEF TellStep
<1>4. ASSUME NEW w \in Replica, Tick(w) \/ WorkStep(w) PROVE NoticesInv'
  BY <1>3, <1>4, TickKeeps, ReadBatchKeeps, OpenRowKeeps, MarkKeeps, EndBatchKeeps DEF WorkStep, Job
<1>5. ASSUME NEW d \in Desk, RemindNow(d) \/ RemindWeekly(d) \/ TellStep(d) \/ EndReminders(d) PROVE NoticesInv'
  BY <1>3, <1>5, RemindKeeps, EndRemindersKeeps DEF Job
<1>6. ASSUME NEW j \in Job, Throw(j) \/ AnswerLost(j) \/ Crash(j) PROVE NoticesInv'
  BY <1>6, ThrowKeeps, TextKeeps, CrashKeeps
<1>7. CASE Hour \/ \E job \in {"worker", "weekly"} : DropSession(job)
  BY <1>7, LostLockKeeps
<1> QED
  BY <1>1, <1>2, <1>4, <1>5, <1>6, <1>7 DEF Next

\* The invariant holds in every reachable state.
THEOREM NoticesSafe == SafeSpec => []NoticesInv
  BY NoticesStart, NoticesStep, PTL DEF SafeSpec

\* Every variable keeps its type, and a lock is only held by a run that is busy.
THEOREM NoticesTypeCorrect == SafeSpec => []NoticesTypeOK
<1>1. NoticesInv => NoticesTypeOK
  BY DEF NoticesInv
<1> QED
  BY <1>1, NoticesSafe, PTL

-----------------------------------------------------------------------------
(***************************************************************************)
(* The refinement: seen from NoticeDelivery a step changes at most the     *)
(* stage of one row or tells one parent.                                   *)
(***************************************************************************)
LEMMA SameView ==
    ASSUME UNCHANGED <<row, posts, mailed>>
    PROVE  UNCHANGED Delivery!dvars
<1>1. Stages' = Stages
  BY DEF Stages
<1>2. \A r \in Row, p \in Parent : Knows(r, p)' <=> Knows(r, p)
  BY DEF Knows
<1>3. Reached' = Reached
  BY <1>2 DEF Reached
<1> QED
  BY <1>1, <1>3 DEF Delivery!dvars

\* Only the status of row r changes.
LEMMA StageMoves ==
    ASSUME NoticesInv, NEW r \in Row, NEW v, row' = [row EXCEPT ![r] = v], UNCHANGED <<posts, mailed>>
    PROVE  Stages' = [Stages EXCEPT ![r] = Stage(v)] /\ Stages[r] = Stage(row[r]) /\ UNCHANGED Reached
<1>1. row \in [Row -> {"unwritten", "waiting", "processed", "gone"}]
  BY DEF NoticesInv, NoticesTypeOK
<1>2. \A q \in Row : row'[q] = IF q = r THEN v ELSE row[q]
  BY <1>1
<1>3. Stages' = [Stages EXCEPT ![r] = Stage(v)]
  <2>1. \A q \in Row : Stage(row'[q]) = IF q = r THEN Stage(v) ELSE Stage(row[q])
    BY <1>2
  <2>2. Stages = [q \in Row |-> Stage(row[q])] /\ Stages' = [q \in Row |-> Stage(row'[q])]
    BY DEF Stages
  <2>3. [Stages EXCEPT ![r] = Stage(v)] = [q \in Row |-> IF q = r THEN Stage(v) ELSE Stages[q]]
    BY <2>2
  <2>4. \A q \in Row : Stages[q] = Stage(row[q])
    BY <2>2
  <2>5. Stages' = [q \in Row |-> IF q = r THEN Stage(v) ELSE Stages[q]]
    BY <2>1, <2>2, <2>4
  <2> QED
    BY <2>3, <2>5
<1>4. \A q \in Row, p \in Parent : Knows(q, p)' <=> Knows(q, p)
  BY DEF Knows
<1>5. Reached' = Reached
  BY <1>4 DEF Reached
<1> QED
  BY <1>3, <1>5 DEF Stages

\* Telling parent p of row r tells nobody else.
LEMMA OneTold ==
    ASSUME NoticesInv, UNCHANGED row, NEW r \in Row, NEW p \in Parent, row[r] # "unwritten", Steady,
           \A q \in Row, m \in Parent : (q # r \/ m # p) => (Knows(q, m)' <=> Knows(q, m))
    PROVE  UNCHANGED Delivery!dvars \/ Delivery!Tell(r, p)
<1>1. UNCHANGED Stages /\ Stages[r] # "unwritten"
  <2>1. row \in [Row -> {"unwritten", "waiting", "processed", "gone"}]
    BY DEF NoticesInv, NoticesTypeOK
  <2>2. UNCHANGED Stages
    BY DEF Stages
  <2>3. Stage(row[r]) # "unwritten"
    BY <2>1 DEF Stage
  <2> QED
    BY <2>2, <2>3 DEF Stages
<1>2. Knows(r, p) => Knows(r, p)'
  BY KnowsStays
<1>3. CASE (Knows(r, p)' <=> Knows(r, p)) \/ p \notin Reachable(r)
  <2>1. \A q \in Row, m \in Parent : (m \in Reachable(q) /\ Knows(q, m)') <=> (m \in Reachable(q) /\ Knows(q, m))
    BY <1>3
  <2>2. Reached' = Reached
    BY <2>1 DEF Reached
  <2> QED
    BY <1>1, <2>2 DEF Delivery!dvars
<1>4. CASE ~Knows(r, p) /\ Knows(r, p)' /\ p \in Reachable(r)
  <2>1. <<r, p>> \notin Reached
    BY <1>4 DEF Reached
  <2>2. Reached' = Reached \cup {<<r, p>>}
    BY <1>4 DEF Reached
  <2> QED
    BY <1>1, <1>4, <2>1, <2>2 DEF Delivery!Tell
<1> QED
  BY <1>2, <1>3, <1>4

\* A post is the promise's telling of that parent.
LEMMA PostTells ==
    ASSUME NoticesInv, NEW j \in Job, Post(j)
    PROVE  [Delivery!DeliveryNext]_(Delivery!dvars)
<1>1. run[j].pc = "post" /\ UNCHANGED row /\ UNCHANGED mailed
  BY DEF Post
<1>2. PICK r, p : r = run[j].row /\ p = Who(j)
  OBVIOUS
<1>3. run[j].pc \in Telling /\ p \in Parent /\ (r \in Row <=> j \in Replica)
  BY <1>1, <1>2, AtParent DEF Telling
<1>4. CASE UNCHANGED posts
  BY <1>1, <1>4, SameView
<1>5. CASE r \in Row /\ posts' = [posts EXCEPT ![r][p] = @ + 1]
  <2>1. Steady
    BY <1>1, <1>3, <1>5, PostedTyped
  <2>2. row[r] # "unwritten"
    BY <1>1, <1>2, <1>3, <1>5 DEF NoticesInv, WorkersKnow, WorkerKnows, Telling
  <2>3. posts \in [Row -> [Parent -> Nat]]
    BY DEF NoticesInv, NoticesTypeOK
  <2>4. \A q \in Row, m \in Parent : (q # r \/ m # p) => posts'[q][m] = posts[q][m]
    BY <1>5, <2>3
  <2>5. \A q \in Row, m \in Parent : (q # r \/ m # p) => (Knows(q, m)' <=> Knows(q, m))
    BY <1>1, <2>4 DEF Knows
  <2>6. UNCHANGED Delivery!dvars \/ Delivery!Tell(r, p)
    BY <1>1, <1>3, <1>5, <2>1, <2>2, <2>5, OneTold
  <2> QED
    BY <1>3, <1>5, <2>6 DEF Delivery!DeliveryNext
<1> QED
  BY <1>2, <1>4, <1>5 DEF Post

\* So is a mail, or it changes nothing the promise speaks of.
LEMMA MailTells ==
    ASSUME NoticesInv, NEW j \in Job, Mail(j)
    PROVE  [Delivery!DeliveryNext]_(Delivery!dvars)
<1>1. run[j].pc = "mail" /\ UNCHANGED row /\ UNCHANGED posts
  BY DEF Mail
<1>2. PICK r, p : r = run[j].row /\ p = Who(j)
  OBVIOUS
<1>3. run[j].pc \in Telling /\ p \in Parent /\ (r \in Row <=> j \in Replica)
  BY <1>1, <1>2, AtParent DEF Telling
<1>4. CASE UNCHANGED mailed
  BY <1>1, <1>4, SameView
<1>5. CASE r \in Row /\ mailed' = mailed \cup {<<r, p>>}
  <2>1. Steady
    BY <1>1, <1>5 DEF Steady
  <2>2. row[r] # "unwritten"
    BY <1>1, <1>2, <1>3, <1>5 DEF NoticesInv, WorkersKnow, WorkerKnows, Telling
  <2>3. \A q \in Row, m \in Parent : (q # r \/ m # p) => (<<q, m>> \in mailed' <=> <<q, m>> \in mailed)
    BY <1>5
  <2>4. \A q \in Row, m \in Parent : (q # r \/ m # p) => (Knows(q, m)' <=> Knows(q, m))
    BY <1>1, <2>3 DEF Knows
  <2>5. UNCHANGED Delivery!dvars \/ Delivery!Tell(r, p)
    BY <1>1, <1>3, <1>5, <2>1, <2>2, <2>4, OneTold
  <2> QED
    BY <1>3, <1>5, <2>5 DEF Delivery!DeliveryNext
<1> QED
  BY <1>2, <1>4, <1>5 DEF Mail

\* A row is closed when every parent it can reach was told.
LEMMA MarkCloses ==
    ASSUME NoticesInv, NEW w \in Replica, Mark(w)
    PROVE  [Delivery!DeliveryNext]_(Delivery!dvars)
<1>1. PICK r : r = run[w].row
  OBVIOUS
<1>2. run[w].pc = "mark" /\ UNCHANGED <<posts, mailed>> /\ row' = [row EXCEPT ![r] = IF @ = "waiting" THEN "processed" ELSE @]
  BY <1>1 DEF Mark, told
<1>3. WorkerKnows(run[w]) /\ row \in [Row -> {"unwritten", "waiting", "processed", "gone"}]
  BY DEF NoticesInv, WorkersKnow, NoticesTypeOK
<1>4. r \in Row /\ (row[r] # "gone" => \A p \in Audience[r] : Knows(r, p))
  BY <1>1, <1>2, <1>3 DEF WorkerKnows
<1>5. CASE row[r] # "waiting"
  <2>1. UNCHANGED row
    BY <1>2, <1>3, <1>5
  <2> QED
    BY <1>2, <2>1, SameView
<1>6. CASE row[r] = "waiting"
  <2>1. row' = [row EXCEPT ![r] = "processed"]
    BY <1>2, <1>6
  <2>2. Stages' = [Stages EXCEPT ![r] = Stage("processed")] /\ Stages[r] = Stage(row[r]) /\ UNCHANGED Reached
    BY <1>2, <1>4, <2>1, StageMoves
  <2>3. Stage("processed") = "closed" /\ Stage(row[r]) = "open"
    BY <1>6 DEF Stage
  <2>4. \A p \in Reachable(r) : <<r, p>> \in Reached
    <3>1. \A p \in Reachable(r) : p \in Audience[r] /\ p \in Parent
      BY <1>4, AudienceAssumption DEF Reachable, About
    <3> QED
      BY <1>4, <1>6, <3>1 DEF Reached
  <2>5. Delivery!Close(r)
    BY <1>4, <2>2, <2>3, <2>4 DEF Delivery!Close
  <2> QED
    BY <1>4, <2>5 DEF Delivery!DeliveryNext
<1> QED
  BY <1>5, <1>6

\* Queueing and purging a row are the promise's own steps.
LEMMA RowStepDelivers ==
    ASSUME NoticesInv, NEW r \in Row, Queue(r) \/ Purge(r)
    PROVE  [Delivery!DeliveryNext]_(Delivery!dvars)
<1>1. UNCHANGED <<posts, mailed>>
  BY DEF Queue, Purge, told
<1>2. CASE Queue(r)
  <2>1. row[r] = "unwritten" /\ row' = [row EXCEPT ![r] = "waiting"]
    BY <1>2 DEF Queue
  <2>2. Stages' = [Stages EXCEPT ![r] = Stage("waiting")] /\ Stages[r] = Stage(row[r]) /\ UNCHANGED Reached
    BY <1>1, <2>1, StageMoves
  <2>3. Stage("waiting") = "open" /\ Stage(row[r]) = "unwritten"
    BY <2>1 DEF Stage
  <2> QED
    BY <2>2, <2>3 DEF Delivery!DeliveryNext, Delivery!Write
<1>3. CASE Purge(r)
  <2>1. row[r] = "waiting" /\ row' = [row EXCEPT ![r] = "gone"]
    BY <1>3 DEF Purge
  <2>2. Stages' = [Stages EXCEPT ![r] = Stage("gone")] /\ Stages[r] = Stage(row[r]) /\ UNCHANGED Reached
    BY <1>1, <2>1, StageMoves
  <2>3. Stage("gone") = "dropped" /\ Stage(row[r]) = "open"
    BY <2>1 DEF Stage
  <2> QED
    BY <2>2, <2>3 DEF Delivery!DeliveryNext, Delivery!Drop
<1> QED
  BY <1>2, <1>3

\* Whatever replicas tick together, crash or lose their lock, a row is closed only when all its
\* parents were told, and no parent is told of a row that was not queued.
THEOREM NoticesDeliver == SafeSpec => Delivery!SafeDelivery
<1>1. Init => Delivery!DeliveryInit
  <2> SUFFICES ASSUME Init PROVE Delivery!DeliveryInit
    OBVIOUS
  <2>1. Stages = [r \in Row |-> "unwritten"]
    <3>1. \A r \in Row : Stage(row[r]) = "unwritten"
      BY DEF Init, Stage
    <3> QED
      BY <3>1 DEF Stages
  <2>2. \A r \in Row, p \in Parent : p \in Reachable(r) => ~Knows(r, p)
    <3> SUFFICES ASSUME NEW r \in Row, NEW p \in Parent, p \in Reachable(r) PROVE ~Knows(r, p)
      OBVIOUS
    <3>1. "app" \in Channel[r] \/ "mail" \in Channel[r]
      BY DEF Reachable
    <3>2. posts[r][p] = 0 /\ mailed = {}
      BY DEF Init
    <3> QED
      BY <3>1, <3>2 DEF Knows
  <2>3. Reached = {}
    BY <2>2 DEF Reached
  <2> QED
    BY <2>1, <2>3 DEF Delivery!DeliveryInit
<1>2. NoticesInv /\ [Next]_vars => [Delivery!DeliveryNext]_(Delivery!dvars)
  <2> SUFFICES ASSUME NoticesInv, [Next]_vars PROVE [Delivery!DeliveryNext]_(Delivery!dvars)
    OBVIOUS
  <2>1. CASE UNCHANGED <<row, posts, mailed>>
    BY <2>1, SameView
  <2>2. ASSUME NEW r \in Row, Queue(r) \/ Purge(r) PROVE [Delivery!DeliveryNext]_(Delivery!dvars)
    BY <2>2, RowStepDelivers
  <2>3. ASSUME NEW j \in Job, TellStep(j) PROVE [Delivery!DeliveryNext]_(Delivery!dvars)
    <3>1. CASE Post(j)
      BY <3>1, PostTells
    <3>2. CASE Mail(j)
      BY <3>2, MailTells
    <3>3. CASE Limit(j) \/ Text(j) \/ Log(j)
      <4>1. UNCHANGED <<row, posts, mailed>>
        BY <3>3 DEF Limit, Text, Log, told
      <4> QED
        BY <4>1, SameView
    <3> QED
      BY <2>3, <3>1, <3>2, <3>3 DEF TellStep
  <2>4. ASSUME NEW w \in Replica, Tick(w) \/ WorkStep(w) PROVE [Delivery!DeliveryNext]_(Delivery!dvars)
    <3>1. CASE TellStep(w)
      BY <2>3, <3>1 DEF Job
    <3>2. CASE Mark(w)
      BY <3>2, MarkCloses
    <3>3. CASE Tick(w) \/ ReadBatch(w) \/ OpenRow(w) \/ EndBatch(w)
      BY <2>1, <3>3 DEF Tick, ReadBatch, OpenRow, EndBatch, told
    <3> QED
      BY <2>4, <3>1, <3>2, <3>3 DEF WorkStep
  <2>5. ASSUME NEW d \in Desk, RemindNow(d) \/ RemindWeekly(d) \/ TellStep(d) \/ EndReminders(d)
        PROVE  [Delivery!DeliveryNext]_(Delivery!dvars)
    <3>1. CASE TellStep(d)
      BY <2>3, <3>1 DEF Job
    <3>2. CASE RemindNow(d) \/ RemindWeekly(d) \/ EndReminders(d)
      BY <2>1, <3>2 DEF RemindNow, RemindWeekly, EndReminders, told
    <3> QED
      BY <2>5, <3>1, <3>2
  <2>6. ASSUME NEW j \in Job, Throw(j) \/ AnswerLost(j) \/ Crash(j) PROVE [Delivery!DeliveryNext]_(Delivery!dvars)
    BY <2>1, <2>6 DEF Throw, AnswerLost, Crash, told
  <2>7. CASE Hour \/ (\E job \in {"worker", "weekly"} : DropSession(job)) \/ UNCHANGED vars
    BY <2>1, <2>7 DEF Hour, DropSession, told, vars
  <2> QED
    BY <2>2, <2>4, <2>5, <2>6, <2>7 DEF Next
<1> QED
  BY <1>1, <1>2, NoticesSafe, PTL DEF SafeSpec, Delivery!SafeDelivery

-----------------------------------------------------------------------------
\* The worker run that has the lock, or nobody.
Holder == lock["worker"]
RowOpen(r) == row[r] \in {"unwritten", "waiting"}

\* A run at t will still read r, or has it in its batch, or is on it and has p ahead.
ToPost(t, r, p) ==
    \/ t.pc = "batch" /\ RowOpen(r)
    \/ r \in t.batch
    \/ /\ t.pc \in Telling /\ t.row = r /\ p \in t.left
       /\ t.pc = "post" \/ p # LeastOf(t.left)

InHand(t, r) == r \in t.batch \/ (t.pc \in Telling \cup {"mark"} /\ t.row = r)

\* Runs that lost the lock and will still tell p of r.
Loose(r, p) == {w \in Replica : w # Holder /\ ToPost(run[w], r, p)}

\* One notice is due while the row is open or the run with the lock has it ahead, until it was posted.
DueOf(t, r, p) == IF ToPost(t, r, p) \/ (RowOpen(r) /\ ~InHand(t, r)) THEN 1 ELSE 0
Due(r, p) == DueOf(IF Holder = Nobody THEN Idle ELSE run[Holder], r, p)

HandFits(t) ==
    /\ t.pc \in {"idle", "batch"} => t.batch = {}
    /\ t.pc \in Telling \cup {"mark"} => t.row \notin t.batch

HandsFit == \A w \in Replica : HandFits(run[w])

\* Every notice beyond the one that is due, posted or to be posted, was paid for by a fault.
Paid(r, p) ==
    IsFiniteSet(Loose(r, p)) /\ posts[r][p] + Due(r, p) + Cardinality(Loose(r, p)) <= 1 + faults

PostsPaid == \A r \in Row, p \in Parent : Paid(r, p)

-----------------------------------------------------------------------------
\* Sets that differ in j at most.
LEMMA CountMoves ==
    ASSUME NEW S, IsFiniteSet(S), NEW T, NEW j, \A v : v # j => (v \in T <=> v \in S)
    PROVE  /\ IsFiniteSet(T) /\ Cardinality(T) \in Nat /\ Cardinality(S) \in Nat
           /\ Cardinality(T) + (IF j \in S THEN 1 ELSE 0) = Cardinality(S) + (IF j \in T THEN 1 ELSE 0)
<1>1. Cardinality(S) \in Nat
  BY FS_CardinalityType
<1>2. CASE j \in S <=> j \in T
  <2>1. T = S
    BY <1>2
  <2> QED
    BY <1>1, <1>2, <2>1
<1>3. CASE j \in S /\ j \notin T
  <2>1. T = S \ {j}
    BY <1>3
  <2>2. IsFiniteSet(T) /\ Cardinality(T) = Cardinality(S) - 1
    BY <1>3, <2>1, FS_RemoveElement
  <2> QED
    BY <1>1, <1>3, <2>2, FS_CardinalityType
<1>4. CASE j \notin S /\ j \in T
  <2>1. T = S \cup {j}
    BY <1>4
  <2>2. IsFiniteSet(T) /\ Cardinality(T) = Cardinality(S) + 1
    BY <1>4, <2>1, FS_AddElement
  <2> QED
    BY <1>1, <1>4, <2>2
<1> QED
  BY <1>2, <1>3, <1>4

\* A set that may gain j only.
LEMMA CountShrinks ==
    ASSUME NEW S, IsFiniteSet(S), NEW T, NEW j, \A v : v # j => (v \in T => v \in S)
    PROVE  /\ IsFiniteSet(T) /\ Cardinality(T) \in Nat /\ Cardinality(S) \in Nat
           /\ Cardinality(T) + (IF j \in S THEN 1 ELSE 0) <= Cardinality(S) + (IF j \in T THEN 1 ELSE 0)
<1>1. PICK U : U = (S \ {j}) \cup (T \cap {j})
  OBVIOUS
<1>2. \A v : v # j => (v \in U <=> v \in S)
  BY <1>1
<1>3. /\ IsFiniteSet(U) /\ Cardinality(U) \in Nat /\ Cardinality(S) \in Nat
      /\ Cardinality(U) + (IF j \in S THEN 1 ELSE 0) = Cardinality(S) + (IF j \in U THEN 1 ELSE 0)
  BY <1>2, CountMoves
<1>4. T \in SUBSET U /\ (j \in U <=> j \in T)
  BY <1>1
<1>5. IsFiniteSet(T) /\ Cardinality(T) <= Cardinality(U)
  BY <1>3, <1>4, FS_Subset
<1>6. Cardinality(T) \in Nat
  BY <1>5, FS_CardinalityType
<1> QED
  BY <1>3, <1>4, <1>5, <1>6

Becomes(j, n) == run' = [run EXCEPT ![j] = n]

\* Only the run that makes the step moves.
LEMMA Moves ==
    ASSUME NoticesInv, NEW j \in Job, NEW n, Becomes(j, n)
    PROVE  run'[j] = n /\ \A i \in Job : i # j => run'[i] = run[i]
  BY DEF NoticesInv, NoticesTypeOK, Becomes

\* Who stays where it is has no more to post, and no more is due of it, when rows only close.
LEMMA ToPostStays ==
    ASSUME NEW t, NEW r, NEW p, RowOpen(r)' => RowOpen(r)
    PROVE  /\ ToPost(t, r, p)' => ToPost(t, r, p)
           /\ DueOf(t, r, p)' <= DueOf(t, r, p)
           /\ DueOf(t, r, p) \in {0, 1} /\ DueOf(t, r, p)' \in {0, 1}
  BY DEF ToPost, DueOf, InHand

\* A parent is due a row once or not at all.
LEMMA DueTyped == \A t, r, p : DueOf(t, r, p) \in {0, 1} /\ DueOf(t, r, p)' \in {0, 1}
  BY DEF DueOf

\* A job without a run has nothing in hand.
LEMMA IdlePosts ==
    ASSUME NEW r, NEW p
    PROVE  /\ ~ToPost(Idle, r, p) /\ ~InHand(Idle, r) /\ DueOf(Idle, r, p) = (IF RowOpen(r) THEN 1 ELSE 0)
           /\ ~ToPost(Idle, r, p)' /\ DueOf(Idle, r, p)' = (IF RowOpen(r)' THEN 1 ELSE 0)
           /\ HandFits(Idle)
  BY DEF ToPost, DueOf, InHand, Idle, HandFits, Telling

\* Only the run of w, and rows that close, change what is still to be posted by runs without the lock.
LEMMA LooseAfter ==
    ASSUME NEW w, \A v \in Replica : v # w => run'[v] = run[v] /\ (v = Holder => v = Holder'),
           NEW r, NEW p, RowOpen(r)' => RowOpen(r), IsFiniteSet(Loose(r, p))
    PROVE  /\ IsFiniteSet(Loose(r, p)') /\ Cardinality(Loose(r, p)') \in Nat /\ Cardinality(Loose(r, p)) \in Nat
           /\ Cardinality(Loose(r, p)') + (IF w \in Loose(r, p) THEN 1 ELSE 0)
                <= Cardinality(Loose(r, p)) + (IF w \in Loose(r, p)' THEN 1 ELSE 0)
<1>1. ASSUME NEW v, v # w, v \in Loose(r, p)' PROVE v \in Loose(r, p)
  <2>1. v \in Replica /\ v # Holder' /\ ToPost(run[v], r, p)'
    BY <1>1 DEF Loose
  <2>2. run'[v] = run[v] /\ v # Holder
    BY <1>1, <2>1
  <2>3. PICK t : t = run[v]
    OBVIOUS
  <2>4. ToPost(t, r, p)'
    BY <2>1, <2>2, <2>3
  <2>5. ToPost(t, r, p)
    BY <2>4, ToPostStays
  <2> QED
    BY <2>1, <2>2, <2>3, <2>5 DEF Loose
<1>2. PICK T : T = Loose(r, p)'
  OBVIOUS
<1>3. \A v : v # w => (v \in T => v \in Loose(r, p))
  BY <1>1, <1>2
<1> QED
  BY <1>2, <1>3, CountShrinks

\* The terms of the account of one row and parent are numbers.
LEMMA PaidTyped ==
    ASSUME NoticesInv, NEW r \in Row, NEW p \in Parent
    PROVE  posts[r][p] \in Nat /\ faults \in Nat /\ Holder \in Replica \cup {Nobody} /\ Nobody \notin Job
  BY PeopleAssumption, LimitAssumption DEF NoticesInv, NoticesTypeOK, LocksApart, Holder

\* What a run with the lock, or without it, may do while it keeps it so.
Pays(w, t, n, r, p) ==
    \/ /\ w \notin Replica /\ posts'[r][p] = posts[r][p] /\ faults' >= faults
    \/ /\ ToPost(n, r, p)' => ToPost(t, r, p)
       /\ DueOf(n, r, p)' <= DueOf(t, r, p)
       /\ posts'[r][p] = posts[r][p] /\ faults' = faults
    \/ /\ w \in Replica /\ ToPost(t, r, p) /\ ~ToPost(n, r, p)'
       /\ DueOf(n, r, p)' = 0
       /\ posts'[r][p] = posts[r][p] + 1 /\ faults' = faults
    \/ /\ ToPost(n, r, p)' => ToPost(t, r, p)
       /\ posts'[r][p] = posts[r][p] /\ faults' = faults + 1

\* A step by which one run uses up what it had in hand keeps the account of one row and parent.
LEMMA RunPays ==
    ASSUME NoticesInv, NoticesInv', NEW w \in Job, NEW n, Becomes(w, n), NEW t, t = run[w], Holder' = Holder,
           NEW r \in Row, NEW p \in Parent, Paid(r, p), RowOpen(r)' => RowOpen(r), Pays(w, t, n, r, p)
    PROVE  Paid(r, p)'
<1>1. /\ posts[r][p] \in Nat /\ faults \in Nat /\ Holder \in Replica \cup {Nobody} /\ Nobody \notin Job
      /\ posts'[r][p] \in Nat /\ faults' \in Nat
  <2>1. posts'[r][p] \in Nat /\ faults' \in Nat
    BY LimitAssumption DEF NoticesInv, NoticesTypeOK
  <2> QED
    BY <2>1, PaidTyped
<1>2. run'[w] = n /\ \A i \in Job : i # w => run'[i] = run[i]
  BY Moves
<1>3. /\ IsFiniteSet(Loose(r, p)') /\ Cardinality(Loose(r, p)') \in Nat /\ Cardinality(Loose(r, p)) \in Nat
      /\ Cardinality(Loose(r, p)') + (IF w \in Loose(r, p) THEN 1 ELSE 0)
           <= Cardinality(Loose(r, p)) + (IF w \in Loose(r, p)' THEN 1 ELSE 0)
  <2>1. \A v \in Replica : v # w => run'[v] = run[v] /\ (v = Holder => v = Holder')
    BY <1>2 DEF Job
  <2>2. IsFiniteSet(Loose(r, p))
    BY DEF Paid
  <2> QED
    BY <2>1, <2>2, LooseAfter
<1>4. /\ w \in Loose(r, p) <=> w \in Replica /\ w # Holder /\ ToPost(t, r, p)
      /\ w \in Loose(r, p)' <=> w \in Replica /\ w # Holder /\ ToPost(n, r, p)'
  <2>1. ToPost(run[w], r, p)' <=> ToPost(n, r, p)'
    BY <1>2
  <2> QED
    BY <2>1 DEF Loose
<1>5. posts[r][p] + Due(r, p) + Cardinality(Loose(r, p)) <= 1 + faults
  BY DEF Paid
<1>6. /\ DueOf(t, r, p) \in {0, 1} /\ DueOf(n, r, p)' \in {0, 1} /\ Due(r, p) \in {0, 1} /\ Due(r, p)' \in {0, 1}
      /\ ToPost(t, r, p) => DueOf(t, r, p) = 1
  BY DEF DueOf, Due
<1>7. CASE w = Holder
  <2>1. w \in Replica /\ Due(r, p) = DueOf(t, r, p)
    BY <1>1, <1>7 DEF Due
  <2>2. Due(r, p)' = DueOf(n, r, p)'
    <3>1. Holder' # Nobody /\ run'[Holder'] = n
      BY <1>1, <1>2, <1>7
    <3>2. DueOf(IF Holder = Nobody THEN Idle ELSE run[Holder], r, p)' = DueOf(n, r, p)'
      BY <3>1
    <3> QED
      BY <3>2 DEF Due
  <2> QED
    BY <1>1, <1>3, <1>4, <1>5, <1>6, <1>7, <2>1, <2>2 DEF Pays, Paid
<1>8. CASE w # Holder
  <2>1. PICK x : x = IF Holder = Nobody THEN Idle ELSE run[Holder]
    OBVIOUS
  <2>2. Due(r, p) = DueOf(x, r, p)
    BY <2>1 DEF Due
  <2>3. (IF Holder = Nobody THEN Idle ELSE run[Holder])' = x
    BY <1>1, <1>2, <1>8, <2>1 DEF Job, Idle
  <2>4. Due(r, p)' = DueOf(x, r, p)'
    BY <2>3 DEF Due
  <2>5. Due(r, p)' <= Due(r, p)
    BY <2>2, <2>4, ToPostStays
  <2>6. \/ posts'[r][p] = posts[r][p] /\ faults' >= faults /\ (w \in Loose(r, p)' => w \in Loose(r, p))
        \/ /\ posts'[r][p] = posts[r][p] + 1 /\ faults' = faults
           /\ w \notin Loose(r, p)' /\ (w \in Replica => w \in Loose(r, p))
        \/ posts'[r][p] = posts[r][p] /\ faults' = faults + 1
    BY <1>1, <1>4, <1>8 DEF Pays
  <2>7. w \in Replica \/ (posts'[r][p] = posts[r][p] /\ faults' >= faults)
    BY <1>1, <1>4, <1>8 DEF Pays
  <2>8. posts'[r][p] + Due(r, p)' + Cardinality(Loose(r, p)') <= 1 + faults'
    BY <1>1, <1>3, <1>5, <1>6, <2>5, <2>6, <2>7
  <2> QED
    BY <1>3, <2>8 DEF Paid
<1> QED
  BY <1>7, <1>8

PostsOK == HandsFit /\ PostsPaid

\* And the account of all.
LEMMA RunPaysAll ==
    ASSUME NoticesInv, NoticesInv', PostsOK, NEW w \in Job, NEW n, Becomes(w, n), NEW t, t = run[w], Holder' = Holder,
           w \in Replica => HandFits(n),
           \A r \in Row : RowOpen(r)' => RowOpen(r),
           \A r \in Row, p \in Parent : Pays(w, t, n, r, p)
    PROVE  PostsOK'
<1>1. PostsPaid'
  <2> SUFFICES ASSUME NEW r \in Row, NEW p \in Parent PROVE Paid(r, p)'
    BY DEF PostsPaid
  <2> QED
    BY RunPays DEF PostsOK, PostsPaid
<1>2. HandsFit'
  <2> SUFFICES ASSUME NEW v \in Replica PROVE HandFits(run[v])'
    BY DEF HandsFit
  <2>1. run'[v] = n \/ run'[v] = run[v]
    BY Moves DEF Job
  <2>2. v = w => run'[v] = n
    BY Moves
  <2>3. v # w => run'[v] = run[v]
    BY Moves DEF Job
  <2> QED
    BY <2>2, <2>3 DEF PostsOK, HandsFit, HandFits
<1> QED
  BY <1>1, <1>2 DEF PostsOK

\* No worker steps, and no row opens.
LEMMA RowsPay ==
    ASSUME NoticesInv, NoticesInv', PostsOK, \A w \in Replica : run'[w] = run[w],
           Holder' = Holder \/ (Holder' = Nobody /\ faults' = faults + 1),
           UNCHANGED posts, faults' >= faults, \A r \in Row : RowOpen(r)' => RowOpen(r)
    PROVE  PostsOK'
<1>1. HandsFit'
  BY DEF PostsOK, HandsFit, HandFits
<1>2. PostsPaid'
  <2> SUFFICES ASSUME NEW r \in Row, NEW p \in Parent PROVE Paid(r, p)'
    BY DEF PostsPaid
  <2>1. posts[r][p] \in Nat /\ faults \in Nat /\ Holder \in Replica \cup {Nobody} /\ Nobody \notin Job /\ faults' \in Nat
    BY PaidTyped, LimitAssumption DEF NoticesInv, NoticesTypeOK
  <2>2. IsFiniteSet(Loose(r, p)) /\ posts[r][p] + Due(r, p) + Cardinality(Loose(r, p)) <= 1 + faults
    BY DEF PostsOK, PostsPaid, Paid
  <2>3. PICK h : h = Holder
    OBVIOUS
  <2>4. PICK x : x = IF Holder = Nobody THEN Idle ELSE run[Holder]
    OBVIOUS
  <2>5. Due(r, p) = DueOf(x, r, p)
    BY <2>4 DEF Due
  <2>6. CASE Holder' = Holder
    <3>1. \A v \in Replica : v # h => run'[v] = run[v] /\ (v = Holder => v = Holder')
      BY <2>6
    <3>2. h \notin Loose(r, p) /\ h \notin Loose(r, p)'
      BY <2>3, <2>6 DEF Loose
    <3>3. /\ IsFiniteSet(Loose(r, p)') /\ Cardinality(Loose(r, p)') \in Nat /\ Cardinality(Loose(r, p)) \in Nat
          /\ Cardinality(Loose(r, p)') <= Cardinality(Loose(r, p))
      BY <2>2, <3>1, <3>2, LooseAfter
    <3>4. (IF Holder = Nobody THEN Idle ELSE run[Holder])' = x
      BY <2>1, <2>4, <2>6 DEF Idle
    <3>5. Due(r, p)' = DueOf(x, r, p)'
      BY <3>4 DEF Due
    <3>6. Due(r, p)' <= Due(r, p) /\ Due(r, p) \in {0, 1} /\ Due(r, p)' \in {0, 1}
      BY <2>5, <3>5, ToPostStays
    <3> QED
      BY <2>1, <2>2, <3>3, <3>6 DEF Paid
  <2>7. CASE Holder' = Nobody /\ Holder # Nobody /\ faults' = faults + 1
    <3>1. \A v \in Replica : v # h => run'[v] = run[v] /\ (v = Holder => v = Holder')
      BY <2>3
    <3>2. h \notin Loose(r, p)
      BY <2>3 DEF Loose
    <3>3. /\ IsFiniteSet(Loose(r, p)') /\ Cardinality(Loose(r, p)') \in Nat /\ Cardinality(Loose(r, p)) \in Nat
          /\ Cardinality(Loose(r, p)') <= Cardinality(Loose(r, p)) + (IF h \in Loose(r, p)' THEN 1 ELSE 0)
      BY <2>2, <3>1, <3>2, LooseAfter
    <3>4. h \in Loose(r, p)' => Due(r, p) = 1
      <4>1. h \in Replica /\ x = run[h] /\ run'[h] = run[h]
        BY <2>1, <2>3, <2>4, <2>7
      <4>2. h \in Loose(r, p)' => ToPost(run[h], r, p)'
        BY DEF Loose
      <4>3. ToPost(run[h], r, p)' <=> ToPost(x, r, p)'
        BY <4>1
      <4>4. ToPost(x, r, p)' => ToPost(x, r, p)
        BY ToPostStays
      <4> QED
        BY <2>5, <4>2, <4>3, <4>4 DEF DueOf
    <3>5. Due(r, p) \in {0, 1} /\ Due(r, p)' \in {0, 1}
      BY DEF Due, DueOf
    <3>6. posts'[r][p] = posts[r][p]
      OBVIOUS
    <3> QED
      BY <2>1, <2>2, <2>7, <3>3, <3>4, <3>5, <3>6 DEF Paid
  <2> QED
    BY <2>6, <2>7
<1> QED
  BY <1>1, <1>2 DEF PostsOK

-----------------------------------------------------------------------------
\* What the ways of moving on do to the local state of a run.
LEMMA GotoMoves ==
    ASSUME NoticesInv, NEW j \in Job, NEW label \in Step, Goto(j, label), NEW t, t = run[j]
    PROVE  \E n \in Run : Becomes(j, n) /\ n.pc = label /\ n.batch = t.batch /\ n.row = t.row /\ n.left = t.left
<1>1. t \in Run
  BY RunAt DEF NoticesInv
<1>2. PICK n : n = [t EXCEPT !.pc = label]
  OBVIOUS
<1>3. n \in Run /\ n.pc = label /\ n.batch = t.batch /\ n.row = t.row /\ n.left = t.left
  BY <1>1, <1>2, LabelTyped
<1>4. Becomes(j, n)
  BY <1>2 DEF Becomes, Goto
<1> QED
  BY <1>3, <1>4

\* A run done with a parent has the others left.
LEMMA NextMoves ==
    ASSUME NoticesInv, NEW j \in Job, NextParent(j), NEW t, t = run[j]
    PROVE  \E n \in Run : /\ Becomes(j, n) /\ n.pc \in {"post", "mark"} /\ n.batch = t.batch /\ n.row = t.row
                          /\ n.left = t.left \ {LeastOf(t.left)}
<1>1. t \in Run /\ t.left \subseteq Parent
  BY RunAt DEF NoticesInv
<1>2. PICK left : left = t.left \ {LeastOf(t.left)}
  OBVIOUS
<1>3. PICK n : n = Ahead(t, left)
  OBVIOUS
<1>4. n \in Run /\ n.pc \in {"post", "mark"} /\ n.batch = t.batch /\ n.row = t.row /\ n.left = left
  BY <1>1, <1>2, <1>3, AheadTyped
<1>5. Becomes(j, n)
  BY <1>2, <1>3 DEF Becomes, NextParent, Turn, Who
<1> QED
  BY <1>2, <1>4, <1>5

\* A run done with a row has no parent left.
LEMMA OverMoves ==
    ASSUME NoticesInv, NEW j \in Job, RowOver(j), NEW t, t = run[j]
    PROVE  \E n \in Run : Becomes(j, n) /\ n.pc \in {"rows", "unlock"} /\ n.batch = t.batch /\ n.left = {}
<1>1. t \in Run
  BY RunAt DEF NoticesInv
<1>2. PICK pc \in {"rows", "unlock"} : pc = IF j \in Replica THEN "rows" ELSE "unlock"
  OBVIOUS
<1>3. PICK n : n = [t EXCEPT !.pc = pc, !.left = {}]
  OBVIOUS
<1>4. n \in Run /\ n.pc = pc /\ n.batch = t.batch
  BY <1>1, <1>3 DEF Run, Step
<1>5. n.left = {}
  BY <1>1, <1>3 DEF Run
<1>6. Becomes(j, n)
  BY <1>2, <1>3 DEF Becomes, RowOver, Turn
<1> QED
  BY <1>4, <1>5, <1>6

\* A worker done with a row goes on with its batch.
LEMMA OverRows ==
    ASSUME NoticesInv, NEW w \in Replica, RowOver(w), NEW t, t = run[w]
    PROVE  \E n \in Run : Becomes(w, n) /\ n.pc = "rows" /\ n.batch = t.batch /\ n.left = {}
<1>1. w \in Job
  BY DEF Job
<1>2. t \in Run
  BY <1>1, RunAt DEF NoticesInv
<1>3. PICK n : n = [t EXCEPT !.pc = "rows", !.left = {}]
  OBVIOUS
<1>4. n \in Run /\ n.pc = "rows" /\ n.batch = t.batch /\ n.left = {}
  BY <1>2, <1>3 DEF Run, Step
<1>5. Becomes(w, n)
  BY <1>3 DEF Becomes, RowOver, Turn
<1> QED
  BY <1>4, <1>5

\* The same parent's next channel, the next parent and the end of the row leave no more to post.
LEMMA SameParent ==
    ASSUME NEW t, NEW n, t.pc \in Telling, n.pc \in {"mail", "limit", "text", "log"},
           n.batch = t.batch, n.row = t.row, n.left = t.left,
           NEW r, NEW p, RowOpen(r)' => RowOpen(r)
    PROVE  /\ ToPost(n, r, p)' => ToPost(t, r, p)
           /\ DueOf(n, r, p)' <= DueOf(t, r, p)
  BY DEF ToPost, DueOf, InHand, Telling

\* Going on to the next parent owes nobody more than before.
LEMMA NextOne ==
    ASSUME NEW t, NEW n, t.pc \in Telling, n.pc \in {"post", "mark"},
           n.batch = t.batch, n.row = t.row, n.left = t.left \ {LeastOf(t.left)},
           NEW r, NEW p, RowOpen(r)' => RowOpen(r)
    PROVE  /\ ToPost(n, r, p)' => ToPost(t, r, p)
           /\ DueOf(n, r, p)' <= DueOf(t, r, p)
  BY DEF ToPost, DueOf, InHand, Telling

\* Going on to the next row owes nobody more, if the row was closed or is not this one.
LEMMA RowDone ==
    ASSUME NEW t, NEW n, t.pc \in Telling \cup {"mark"}, n.pc = "rows", n.batch = t.batch,
           NEW r, NEW p, RowOpen(r)' => RowOpen(r)
    PROVE  /\ ToPost(n, r, p)' => ToPost(t, r, p)
           /\ r # t.row \/ ~RowOpen(r)' => DueOf(n, r, p)' <= DueOf(t, r, p)
  BY DEF ToPost, DueOf, InHand, Telling

-----------------------------------------------------------------------------
\* A step of a worker's run that neither posts nor is a fault, and no row but its own closes.
LEMMA QuietPays ==
    ASSUME NoticesInv, NoticesInv', PostsOK, NEW w \in Replica, NEW n, Becomes(w, n), NEW t, t = run[w],
           UNCHANGED <<lock, posts, faults>>, HandFits(n),
           \A r \in Row : RowOpen(r)' => RowOpen(r),
           \A r \in Row, p \in Parent : /\ ToPost(n, r, p)' => ToPost(t, r, p)
                                        /\ DueOf(n, r, p)' <= DueOf(t, r, p)
    PROVE  PostsOK'
<1>1. w \in Job /\ Holder' = Holder
  BY DEF Job, Holder
<1>2. \A r \in Row, p \in Parent : Pays(w, t, n, r, p)
  BY DEF Pays
<1> QED
  BY <1>1, <1>2, RunPaysAll

\* The row a worker is on has left its batch, and a worker without a run has no batch.
LEMMA HandAt ==
    ASSUME NoticesInv, HandsFit, NEW w \in Replica, NEW t, t = run[w]
    PROVE  HandFits(t) /\ w \in Job
  BY DEF HandsFit, Job

\* The statements between a worker's posts keep the account.
LEMMA TellPays ==
    ASSUME NoticesInv, NoticesInv', PostsOK, NEW w \in Replica, run[w].pc \in Telling,
           UNCHANGED <<row, lock, posts, faults>>,
           NextParent(w) \/ \E label \in {"mail", "limit", "text", "log"} : Goto(w, label)
    PROVE  PostsOK'
<1>1. PICK t : t = run[w]
  OBVIOUS
<1>2. HandFits(t) /\ w \in Job
  BY <1>1, HandAt DEF PostsOK
<1>3. \A r \in Row : RowOpen(r)' => RowOpen(r)
  BY DEF RowOpen
<1>4. CASE NextParent(w)
  <2>1. PICK n \in Run : /\ Becomes(w, n) /\ n.pc \in {"post", "mark"} /\ n.batch = t.batch /\ n.row = t.row
                         /\ n.left = t.left \ {LeastOf(t.left)}
    BY <1>1, <1>2, <1>4, NextMoves
  <2>2. HandFits(n)
    BY <1>1, <1>2, <2>1 DEF HandFits, Telling
  <2>3. \A r \in Row, p \in Parent : (ToPost(n, r, p)' => ToPost(t, r, p)) /\ DueOf(n, r, p)' <= DueOf(t, r, p)
    BY <1>1, <1>3, <2>1, NextOne
  <2> QED
    BY <1>1, <1>3, <2>1, <2>2, <2>3, QuietPays
<1>5. ASSUME NEW label \in {"mail", "limit", "text", "log"}, Goto(w, label) PROVE PostsOK'
  <2>1. PICK n \in Run : Becomes(w, n) /\ n.pc = label /\ n.batch = t.batch /\ n.row = t.row /\ n.left = t.left
    BY <1>1, <1>2, <1>5, GotoMoves DEF Step
  <2>2. HandFits(n)
    BY <1>1, <1>2, <2>1 DEF HandFits, Telling
  <2>3. \A r \in Row, p \in Parent : (ToPost(n, r, p)' => ToPost(t, r, p)) /\ DueOf(n, r, p)' <= DueOf(t, r, p)
    BY <1>1, <1>3, <2>1, SameParent
  <2> QED
    BY <1>1, <1>3, <2>1, <2>2, <2>3, QuietPays
<1> QED
  BY <1>4, <1>5

\* A post is paid for by what was due.
LEMMA PostPays ==
    ASSUME NoticesInv, NoticesInv', PostsOK, NEW w \in Replica, Post(w)
    PROVE  PostsOK'
<1>1. /\ run[w].pc = "post" /\ UNCHANGED row /\ UNCHANGED lock /\ UNCHANGED faults
  BY DEF Post
<1>2. PICK t : t = run[w]
  OBVIOUS
<1>3. HandFits(t) /\ w \in Job /\ t.pc = "post" /\ t.row \in Row /\ t.left # {} /\ t.left \subseteq Parent
  <2>1. HandFits(t) /\ w \in Job
    BY <1>2, HandAt DEF PostsOK
  <2> QED
    BY <1>1, <1>2, <2>1, RunAt DEF NoticesInv, Telling
<1>4. PICK r0, p0 : r0 = t.row /\ p0 = LeastOf(t.left)
  OBVIOUS
<1>5. r0 \in Row /\ p0 \in t.left /\ p0 \in Parent /\ p0 = Who(w)
  BY <1>2, <1>3, <1>4, LeastParent DEF Who
<1>6. \A r \in Row : RowOpen(r)' => RowOpen(r)
  BY <1>1 DEF RowOpen
<1>7. CASE row[r0] = "gone"
  <2>1. RowOver(w) /\ UNCHANGED posts
    BY <1>2, <1>4, <1>5, <1>7 DEF Post
  <2>2. PICK n \in Run : Becomes(w, n) /\ n.pc = "rows" /\ n.batch = t.batch /\ n.left = {}
    BY <1>2, <1>3, <2>1, OverRows
  <2>3. HandFits(n)
    BY <2>2 DEF HandFits, Telling
  <2>4. ~RowOpen(r0)'
    BY <1>1, <1>7 DEF RowOpen
  <2>5. \A r \in Row, p \in Parent : (ToPost(n, r, p)' => ToPost(t, r, p)) /\ DueOf(n, r, p)' <= DueOf(t, r, p)
    BY <1>3, <1>4, <1>6, <2>2, <2>4, RowDone DEF Telling
  <2> QED
    BY <1>1, <1>2, <1>6, <2>1, <2>2, <2>3, <2>5, QuietPays
<1>8. CASE row[r0] # "gone"
  <2>1. /\ Goto(w, "mail")
        /\ posts' = IF "app" \in Channel[r0] THEN [posts EXCEPT ![r0][p0] = @ + 1] ELSE posts
    BY <1>2, <1>4, <1>5, <1>8 DEF Post
  <2>2. CASE "app" \notin Channel[r0]
    <3>1. UNCHANGED <<row, lock, posts, faults>> /\ run[w].pc \in Telling
      BY <1>1, <2>1, <2>2 DEF Telling
    <3> QED
      BY <2>1, <3>1, TellPays
  <2>3. CASE "app" \in Channel[r0]
    <3>1. PICK n \in Run : Becomes(w, n) /\ n.pc = "mail" /\ n.batch = t.batch /\ n.row = t.row /\ n.left = t.left
      BY <1>2, <1>3, <2>1, GotoMoves DEF Step
    <3>2. HandFits(n)
      BY <1>3, <3>1 DEF HandFits, Telling
    <3>3. /\ posts'[r0][p0] = posts[r0][p0] + 1
          /\ \A r \in Row, p \in Parent : r # r0 \/ p # p0 => posts'[r][p] = posts[r][p]
      <4>1. posts \in [Row -> [Parent -> Nat]] /\ posts' = [posts EXCEPT ![r0][p0] = @ + 1]
        BY <2>1, <2>3 DEF NoticesInv, NoticesTypeOK
      <4> QED
        BY <1>5, <4>1
    <3>4. ToPost(t, r0, p0) /\ ~ToPost(n, r0, p0)' /\ DueOf(n, r0, p0)' = 0
      BY <1>3, <1>4, <1>5, <3>1, <3>2 DEF ToPost, DueOf, InHand, HandFits, Telling
    <3>5. \A r \in Row, p \in Parent : (ToPost(n, r, p)' => ToPost(t, r, p)) /\ DueOf(n, r, p)' <= DueOf(t, r, p)
      BY <1>3, <1>6, <3>1, SameParent DEF Telling
    <3>6. \A r \in Row, p \in Parent : Pays(w, t, n, r, p)
      <4> SUFFICES ASSUME NEW r \in Row, NEW p \in Parent PROVE Pays(w, t, n, r, p)
        OBVIOUS
      <4>1. CASE r = r0 /\ p = p0
        BY <1>1, <3>3, <3>4, <4>1 DEF Pays
      <4>2. CASE r # r0 \/ p # p0
        BY <1>1, <3>3, <3>5, <4>2 DEF Pays
      <4> QED
        BY <4>1, <4>2
    <3>7. Holder' = Holder
      BY <1>1 DEF Holder
    <3> QED
      BY <1>2, <1>3, <1>6, <3>1, <3>2, <3>6, <3>7, RunPaysAll
  <2> QED
    BY <2>2, <2>3
<1> QED
  BY <1>7, <1>8

\* The row is marked: it is not open afterwards.
LEMMA MarkPays ==
    ASSUME NoticesInv, NoticesInv', PostsOK, NEW w \in Replica, Mark(w)
    PROVE  PostsOK'
<1>1. /\ run[w].pc = "mark" /\ RowOver(w) /\ UNCHANGED <<lock, posts, faults>>
  BY DEF Mark, told
<1>2. PICK t : t = run[w]
  OBVIOUS
<1>3. HandFits(t) /\ w \in Job /\ t.pc = "mark" /\ t.row \in Row /\ row[t.row] # "unwritten"
  <2>1. HandFits(t) /\ w \in Job
    BY <1>2, HandAt DEF PostsOK
  <2>2. WorkerKnows(t) /\ t.pc = "mark"
    BY <1>1, <1>2 DEF NoticesInv, WorkersKnow
  <2> QED
    BY <2>1, <2>2 DEF WorkerKnows
<1>4. PICK r0 : r0 = t.row
  OBVIOUS
<1>5. /\ row \in [Row -> {"unwritten", "waiting", "processed", "gone"}]
      /\ row' = [row EXCEPT ![r0] = IF @ = "waiting" THEN "processed" ELSE @]
  BY <1>2, <1>4 DEF Mark, NoticesInv, NoticesTypeOK
<1>6. (\A r \in Row : RowOpen(r)' => RowOpen(r)) /\ ~RowOpen(r0)'
  BY <1>3, <1>4, <1>5 DEF RowOpen
<1>7. PICK n \in Run : Becomes(w, n) /\ n.pc = "rows" /\ n.batch = t.batch /\ n.left = {}
  BY <1>1, <1>2, <1>3, OverRows
<1>8. HandFits(n)
  BY <1>7 DEF HandFits, Telling
<1>9. \A r \in Row, p \in Parent : (ToPost(n, r, p)' => ToPost(t, r, p)) /\ DueOf(n, r, p)' <= DueOf(t, r, p)
  BY <1>3, <1>4, <1>6, <1>7, RowDone
<1> QED
  BY <1>1, <1>2, <1>6, <1>7, <1>8, <1>9, QuietPays

\* A throw is a fault, which pays for telling the row's parents once more.
LEMMA ThrowPays ==
    ASSUME NoticesInv, NoticesInv', PostsOK, NEW w \in Replica, Throw(w)
    PROVE  PostsOK'
<1>1. /\ run[w].pc \in Telling \cup {"mark"} /\ RowOver(w) /\ UNCHANGED <<row, lock, posts>> /\ faults' = faults + 1
  BY DEF Throw, told, Fault, Telling
<1>2. PICK t : t = run[w]
  OBVIOUS
<1>3. HandFits(t) /\ w \in Job
  BY <1>2, HandAt DEF PostsOK
<1>4. \A r \in Row : RowOpen(r)' => RowOpen(r)
  BY <1>1 DEF RowOpen
<1>5. PICK n \in Run : Becomes(w, n) /\ n.pc = "rows" /\ n.batch = t.batch /\ n.left = {}
  BY <1>1, <1>2, <1>3, OverRows
<1>6. HandFits(n)
  BY <1>5 DEF HandFits, Telling
<1>7. \A r \in Row, p \in Parent : ToPost(n, r, p)' => ToPost(t, r, p)
  BY <1>1, <1>2, <1>4, <1>5, RowDone
<1>8. \A r \in Row, p \in Parent : Pays(w, t, n, r, p)
  BY <1>1, <1>7 DEF Pays
<1>9. Holder' = Holder
  BY <1>1 DEF Holder
<1> QED
  BY <1>2, <1>3, <1>4, <1>5, <1>6, <1>8, <1>9, RunPaysAll

\* A batch is read by the holder of the lock alone.
LEMMA ReadBatchPays ==
    ASSUME NoticesInv, NoticesInv', PostsOK, NEW w \in Replica, ReadBatch(w)
    PROVE  PostsOK'
<1>1. /\ run[w].pc = "batch" /\ Turn(w, [run[w] EXCEPT !.pc = "rows", !.batch = Batch])
      /\ UNCHANGED <<row, lock, posts, faults>>
  BY DEF ReadBatch, told
<1>2. PICK t : t = run[w]
  OBVIOUS
<1>3. w \in Job /\ t \in Run /\ t.pc = "batch" /\ t.batch = {}
  <2>1. HandFits(t) /\ w \in Job
    BY <1>2, HandAt DEF PostsOK
  <2> QED
    BY <1>1, <1>2, <2>1, RunAt DEF NoticesInv, HandFits
<1>4. PICK n : n = [t EXCEPT !.pc = "rows", !.batch = Batch]
  OBVIOUS
<1>5. n.pc = "rows" /\ n.batch = Batch /\ Becomes(w, n)
  BY <1>1, <1>2, <1>3, <1>4 DEF Run, Becomes, Turn
<1>6. \A r \in Batch : RowOpen(r)
  BY DEF Batch, Waiting, RowOpen
<1>7. \A r \in Row : RowOpen(r)' <=> RowOpen(r)
  BY <1>1 DEF RowOpen
<1>8. ASSUME NEW r \in Row, NEW p \in Parent
      PROVE  (ToPost(n, r, p)' => ToPost(t, r, p)) /\ DueOf(n, r, p)' <= DueOf(t, r, p)
  <2>1. ToPost(n, r, p)' => r \in Batch
    BY <1>5 DEF ToPost, Telling
  <2>2. ToPost(n, r, p)' => ToPost(t, r, p)
    BY <1>3, <1>6, <2>1 DEF ToPost
  <2>3. DueOf(n, r, p)' = 1 => RowOpen(r)
    BY <1>6, <1>7, <2>1 DEF DueOf
  <2>4. RowOpen(r) => DueOf(t, r, p) = 1
    BY <1>3 DEF DueOf, ToPost
  <2> QED
    BY <2>2, <2>3, <2>4, DueTyped
<1>9. HandFits(n)
  BY <1>5 DEF HandFits, Telling
<1> QED
  BY <1>1, <1>2, <1>5, <1>7, <1>8, <1>9, QuietPays

\* A row that can be read is on the run's hands, another is left out; either way it left the batch.
LEMMA OpenRowMoves ==
    ASSUME NoticesInv, NEW w \in Replica, OpenRow(w), NEW t, t = run[w], NEW r0, r0 = LeastOf(t.batch)
    PROVE  /\ t.pc = "rows" /\ r0 \in t.batch /\ t.batch \subseteq Row
           /\ \E n : /\ Becomes(w, n) /\ n.batch = t.batch \ {r0} /\ n.pc \in {"rows", "post", "mark"}
                     /\ n.pc \in {"post", "mark"} => n.row = r0
<1>1. PICK rest, parents :
         rest = t.batch \ {r0} /\ parents = IF row[r0] = "gone" THEN {} ELSE Audience[r0]
  OBVIOUS
<1>2. /\ t.pc = "rows" /\ t.batch # {}
      /\ Turn(w, IF r0 \in Poison THEN [t EXCEPT !.batch = rest]
                 ELSE Ahead([t EXCEPT !.batch = rest, !.row = r0], parents))
  BY <1>1 DEF OpenRow
<1>3. w \in Job /\ t \in Run /\ t.batch \subseteq Row
  BY RunAt DEF NoticesInv, Job
<1>4. r0 \in t.batch /\ r0 \in Row /\ rest \subseteq Row
  <2>1. t.batch \subseteq Nat
    BY <1>3, PeopleAssumption
  <2> QED
    BY <1>1, <1>2, <1>3, <2>1, LeastIsIn
<1>5. \E n : /\ Becomes(w, n) /\ n.batch = rest /\ n.pc \in {"rows", "post", "mark"}
             /\ n.pc \in {"post", "mark"} => n.row = r0
  <2>1. CASE r0 \in Poison
    <3>1. PICK n : n = [t EXCEPT !.batch = rest]
      OBVIOUS
    <3>2. n.pc = "rows" /\ n.batch = rest
      BY <1>2, <1>3, <3>1 DEF Run
    <3>3. Becomes(w, n)
      BY <1>2, <2>1, <3>1 DEF Becomes, Turn
    <3> QED
      BY <3>2, <3>3
  <2>2. CASE r0 \notin Poison
    <3>1. PICK m : m = [t EXCEPT !.batch = rest, !.row = r0]
      OBVIOUS
    <3>2. m \in Run /\ m.batch = rest /\ m.row = r0
      BY <1>3, <1>4, <3>1 DEF Run, About
    <3>3. parents \in SUBSET Parent
      BY <1>1, <1>4, AudienceAssumption DEF About
    <3>4. PICK n : n = Ahead(m, parents)
      OBVIOUS
    <3>5. n.batch = rest /\ n.row = r0 /\ n.pc = (IF parents = {} THEN "mark" ELSE "post")
      BY <3>2, <3>3, <3>4, AheadTyped
    <3>6. Becomes(w, n)
      BY <1>2, <2>2, <3>1, <3>4 DEF Becomes, Turn
    <3> QED
      BY <3>5, <3>6
  <2> QED
    BY <2>1, <2>2
<1> QED
  BY <1>1, <1>2, <1>3, <1>4, <1>5

\* A row opened is a row of the batch.
LEMMA OpenRowPays ==
    ASSUME NoticesInv, NoticesInv', PostsOK, NEW w \in Replica, OpenRow(w)
    PROVE  PostsOK'
<1>1. PICK t, r0 : t = run[w] /\ r0 = LeastOf(t.batch)
  OBVIOUS
<1>2. UNCHANGED <<row, lock, posts, faults>>
  BY DEF OpenRow, told
<1>3. t.pc = "rows" /\ r0 \in t.batch
  BY <1>1, OpenRowMoves
<1>4. \A r \in Row : RowOpen(r)' <=> RowOpen(r)
  BY <1>2 DEF RowOpen
<1>5. PICK n : /\ Becomes(w, n) /\ n.batch = t.batch \ {r0} /\ n.pc \in {"rows", "post", "mark"}
               /\ n.pc \in {"post", "mark"} => n.row = r0
  BY <1>1, OpenRowMoves
<1>6. HandFits(n)
  BY <1>5 DEF HandFits, Telling
<1>7. ASSUME NEW r \in Row, NEW p \in Parent
      PROVE  (ToPost(n, r, p)' => ToPost(t, r, p)) /\ DueOf(n, r, p)' <= DueOf(t, r, p)
  <2>1. CASE r = r0
    <3>1. ToPost(t, r, p) /\ DueOf(t, r, p) = 1
      BY <1>3, <2>1 DEF ToPost, DueOf
    <3> QED
      BY <3>1, DueTyped
  <2>2. CASE r # r0
    <3>1. /\ ToPost(n, r, p)' <=> r \in n.batch
          /\ InHand(n, r)' <=> r \in n.batch
      BY <1>5, <2>2 DEF ToPost, InHand, Telling
    <3>2. /\ ToPost(t, r, p) <=> r \in t.batch
          /\ InHand(t, r) <=> r \in t.batch
      BY <1>3 DEF ToPost, InHand, Telling
    <3>3. r \in n.batch <=> r \in t.batch
      BY <1>5, <2>2
    <3> QED
      BY <1>4, <3>1, <3>2, <3>3 DEF DueOf
  <2> QED
    BY <2>1, <2>2
<1> QED
  BY <1>1, <1>2, <1>4, <1>5, <1>6, <1>7, QuietPays

-----------------------------------------------------------------------------
\* A worker that ends gives the lock back if it has it: a row it leaves open is due again.
LEMMA EndPays ==
    ASSUME NoticesInv, NoticesInv', PostsOK, NEW w \in Replica, Turn(w, Idle),
           UNCHANGED <<row, posts>>, Holder' = IF Holder = w THEN Nobody ELSE Holder,
           \/ faults' = faults /\ run[w].pc = "rows" /\ run[w].batch = {}
           \/ faults' = faults + 1
    PROVE  PostsOK'
<1>1. w \in Job /\ Becomes(w, Idle)
  BY DEF Job, Becomes, Turn
<1>2. \A r \in Row : RowOpen(r)' <=> RowOpen(r)
  BY DEF RowOpen
<1>3. PICK t : t = run[w]
  OBVIOUS
<1>4. ASSUME NEW r \in Row, NEW p \in Parent, t.pc = "rows", t.batch = {}
      PROVE  ~ToPost(t, r, p) /\ DueOf(t, r, p) = (IF RowOpen(r) THEN 1 ELSE 0)
  BY <1>4 DEF ToPost, DueOf, InHand, Telling
<1>5. CASE Holder # w
  <2>1. \A r \in Row, p \in Parent : Pays(w, t, Idle, r, p)
    <3> SUFFICES ASSUME NEW r \in Row, NEW p \in Parent PROVE Pays(w, t, Idle, r, p)
      OBVIOUS
    <3>1. ~ToPost(Idle, r, p)' /\ DueOf(Idle, r, p)' = (IF RowOpen(r)' THEN 1 ELSE 0)
      BY IdlePosts
    <3> QED
      BY <1>2, <1>3, <1>4, <3>1 DEF Pays
  <2>2. HandFits(Idle)
    BY IdlePosts
  <2>3. Holder' = Holder
    BY <1>5
  <2> QED
    BY <1>1, <1>2, <1>3, <2>1, <2>2, <2>3, RunPaysAll
<1>6. CASE Holder = w
  <2>1. Holder' = Nobody /\ run'[w] = Idle /\ \A i \in Job : i # w => run'[i] = run[i]
    BY <1>1, <1>6, Moves
  <2>2. HandsFit'
    <3> SUFFICES ASSUME NEW v \in Replica PROVE HandFits(run[v])'
      BY DEF HandsFit
    <3>1. run'[v] = Idle \/ run'[v] = run[v]
      BY <2>1 DEF Job
    <3> QED
      BY <3>1, IdlePosts DEF PostsOK, HandsFit, HandFits
  <2>3. PostsPaid'
    <3> SUFFICES ASSUME NEW r \in Row, NEW p \in Parent PROVE Paid(r, p)'
      BY DEF PostsPaid
    <3>1. posts[r][p] \in Nat /\ faults \in Nat /\ Nobody \notin Job /\ faults' \in Nat /\ posts'[r][p] = posts[r][p]
      BY PaidTyped, LimitAssumption DEF NoticesInv, NoticesTypeOK
    <3>2. IsFiniteSet(Loose(r, p)) /\ posts[r][p] + Due(r, p) + Cardinality(Loose(r, p)) <= 1 + faults
      BY DEF PostsOK, PostsPaid, Paid
    <3>3. \A v \in Replica : v # w => run'[v] = run[v] /\ (v = Holder => v = Holder')
      BY <1>6, <2>1 DEF Job
    <3>4. w \notin Loose(r, p)'
      <4>1. ~ToPost(Idle, r, p)'
        BY IdlePosts
      <4>2. ToPost(run[w], r, p)' <=> ToPost(Idle, r, p)'
        BY <2>1 DEF Idle
      <4> QED
        BY <4>1, <4>2 DEF Loose
    <3>5. w \notin Loose(r, p)
      BY <1>6 DEF Loose
    <3>6. /\ IsFiniteSet(Loose(r, p)') /\ Cardinality(Loose(r, p)') \in Nat /\ Cardinality(Loose(r, p)) \in Nat
          /\ Cardinality(Loose(r, p)') <= Cardinality(Loose(r, p))
      BY <1>2, <3>2, <3>3, <3>4, <3>5, LooseAfter
    <3>7. Due(r, p)' = (IF RowOpen(r)' THEN 1 ELSE 0)
      <4>1. (IF Holder = Nobody THEN Idle ELSE run[Holder])' = Idle
        BY <2>1 DEF Idle
      <4>2. Due(r, p)' = DueOf(Idle, r, p)'
        BY <4>1 DEF Due, Idle
      <4> QED
        BY <4>2, IdlePosts
    <3>8. Due(r, p) = DueOf(t, r, p)
      BY <1>1, <1>3, <1>6, <3>1 DEF Due
    <3>9. Due(r, p)' <= Due(r, p) \/ faults' = faults + 1
      BY <1>2, <1>3, <1>4, <3>7, <3>8
    <3>10. Due(r, p) \in {0, 1} /\ Due(r, p)' \in {0, 1}
      BY DEF Due, DueOf
    <3> QED
      BY <3>1, <3>2, <3>6, <3>9, <3>10 DEF Paid
  <2> QED
    BY <2>2, <2>3 DEF PostsOK
<1> QED
  BY <1>5, <1>6

\* Nobody has the lock: the worker that takes it has every open row ahead, and no other has more.
LEMMA TickPays ==
    ASSUME NoticesInv, NoticesInv', PostsOK, NEW w \in Replica, Tick(w)
    PROVE  PostsOK'
<1>1. /\ run[w].pc = "idle" /\ Holder = Nobody /\ Goto(w, "batch")
      /\ UNCHANGED <<row, posts, faults>> /\ lock' = [lock EXCEPT !["worker"] = w]
  BY DEF Tick, told, Holder
<1>2. Holder' = w
  BY <1>1 DEF Holder, NoticesInv, NoticesTypeOK
<1>3. PICK t : t = run[w]
  OBVIOUS
<1>4. w \in Job /\ w # Nobody /\ t.pc = "idle" /\ t.batch = {}
  BY <1>1, <1>3, HandAt, PeopleAssumption DEF PostsOK, HandFits
<1>5. PICK n \in Run : Becomes(w, n) /\ n.pc = "batch" /\ n.batch = t.batch
  BY <1>1, <1>3, <1>4, GotoMoves DEF Step
<1>6. run'[w] = n /\ \A i \in Job : i # w => run'[i] = run[i]
  BY <1>4, <1>5, Moves
<1>7. HandsFit'
  <2> SUFFICES ASSUME NEW v \in Replica PROVE HandFits(run[v])'
    BY DEF HandsFit
  <2>1. CASE v = w
    BY <1>4, <1>5, <1>6, <2>1 DEF HandFits, Telling
  <2>2. CASE v # w
    BY <1>6, <2>2 DEF PostsOK, HandsFit, HandFits, Job
  <2> QED
    BY <2>1, <2>2
<1>8. PostsPaid'
  <2> SUFFICES ASSUME NEW r \in Row, NEW p \in Parent PROVE Paid(r, p)'
    BY DEF PostsPaid
  <2>1. posts[r][p] \in Nat /\ faults \in Nat /\ Nobody \notin Job /\ posts'[r][p] = posts[r][p] /\ faults' = faults
    BY <1>1, PaidTyped
  <2>2. IsFiniteSet(Loose(r, p)) /\ posts[r][p] + Due(r, p) + Cardinality(Loose(r, p)) <= 1 + faults
    BY DEF PostsOK, PostsPaid, Paid
  <2>3. \A v \in Replica : v # w => run'[v] = run[v] /\ (v = Holder => v = Holder')
    BY <1>1, <1>6, <2>1 DEF Job
  <2>4. w \notin Loose(r, p)'
    BY <1>2 DEF Loose
  <2>5. RowOpen(r)' <=> RowOpen(r)
    BY <1>1 DEF RowOpen
  <2>6. /\ IsFiniteSet(Loose(r, p)') /\ Cardinality(Loose(r, p)') \in Nat /\ Cardinality(Loose(r, p)) \in Nat
        /\ Cardinality(Loose(r, p)') <= Cardinality(Loose(r, p))
    <3>1. /\ IsFiniteSet(Loose(r, p)') /\ Cardinality(Loose(r, p)') \in Nat /\ Cardinality(Loose(r, p)) \in Nat
          /\ Cardinality(Loose(r, p)') + (IF w \in Loose(r, p) THEN 1 ELSE 0)
               <= Cardinality(Loose(r, p)) + (IF w \in Loose(r, p)' THEN 1 ELSE 0)
      BY <2>2, <2>3, <2>5, LooseAfter
    <3> QED
      BY <2>4, <3>1
  <2>7. Due(r, p) = (IF RowOpen(r) THEN 1 ELSE 0)
    BY <1>1, IdlePosts DEF Due
  <2>8. Due(r, p)' = DueOf(n, r, p)'
    <3>1. (IF Holder = Nobody THEN Idle ELSE run[Holder])' = n
      BY <1>2, <1>4, <1>6
    <3> QED
      BY <3>1 DEF Due
  <2>9. DueOf(n, r, p)' = (IF RowOpen(r)' THEN 1 ELSE 0)
    BY <1>4, <1>5 DEF DueOf, ToPost, InHand, Telling
  <2> QED
    BY <2>1, <2>2, <2>5, <2>6, <2>7, <2>8, <2>9 DEF Paid
<1> QED
  BY <1>7, <1>8 DEF PostsOK

\* The other runs stay where they are.
LEMMA OthersStay ==
    ASSUME NoticesInv, NEW j \in Job
    PROVE  /\ \A label : Goto(j, label) => \A i \in Job : i # j => run'[i] = run[i]
           /\ \A n : Turn(j, n) => \A i \in Job : i # j => run'[i] = run[i]
           /\ NextParent(j) \/ RowOver(j) => \A i \in Job : i # j => run'[i] = run[i]
  BY DEF NoticesInv, NoticesTypeOK, Goto, Turn, NextParent, RowOver

\* The reminders post nothing of the queue and have a lock of their own.
DeskStep(d) ==
    RemindNow(d) \/ RemindWeekly(d) \/ TellStep(d) \/ EndReminders(d) \/ Throw(d) \/ AnswerLost(d) \/ Crash(d)

\* The reminder runs touch neither the rows nor their posts.
LEMMA DeskMoves ==
    ASSUME NoticesInv, NEW d \in Desk, DeskStep(d)
    PROVE  /\ \A i \in Job : i # d => run'[i] = run[i]
           /\ Holder' = Holder /\ UNCHANGED <<row, posts>>
           /\ faults' = faults \/ faults' = faults + 1
<1>1. d \in Job /\ d \notin Replica /\ d # Nobody
  BY PeopleAssumption DEF Job
<1>2. /\ lock \in [{"worker", "weekly"} -> Job \cup {Nobody}]
      /\ lock["worker"] \in Replica \cup {Nobody}
  BY DEF NoticesInv, NoticesTypeOK, LocksApart
<1>3. CASE RemindNow(d) \/ RemindWeekly(d) \/ EndReminders(d)
  BY <1>1, <1>2, <1>3, OthersStay DEF RemindNow, RemindWeekly, EndReminders, Holder, told
<1>4. CASE Post(d)
  <2>1. run[d].row \notin Row
    BY <1>1, <1>4, RunAt DEF NoticesInv, Post, Telling
  <2>2. UNCHANGED posts /\ Goto(d, "mail")
    BY <1>4, <2>1 DEF Post
  <2> QED
    BY <1>1, <1>4, <2>2, OthersStay DEF Post, Holder
<1>5. CASE Mail(d) \/ Limit(d) \/ Text(d) \/ Log(d)
  <2>1. NextParent(d) \/ \E label \in {"limit", "text", "log"} : Goto(d, label)
    BY <1>5 DEF Mail, Limit, Text, Log
  <2>2. UNCHANGED <<row, posts, lock, faults>>
    BY <1>5 DEF Mail, Limit, Text, Log, told
  <2> QED
    BY <1>1, <2>1, <2>2, OthersStay DEF Holder
<1>6. CASE Throw(d) \/ AnswerLost(d)
  BY <1>1, <1>6, OthersStay DEF Throw, AnswerLost, Fault, Holder, told
<1>7. CASE Crash(d)
  BY <1>1, <1>2, <1>7, OthersStay DEF Crash, Fault, Holder, told
<1> QED
  BY <1>3, <1>4, <1>5, <1>6, <1>7 DEF DeskStep, TellStep

\* So they keep the account.
LEMMA DeskPays ==
    ASSUME NoticesInv, NoticesInv', PostsOK, NEW d \in Desk, DeskStep(d)
    PROVE  PostsOK'
<1>1. \A w \in Replica : w \in Job /\ w # d
  BY PeopleAssumption DEF Job
<1>2. \A w \in Replica : run'[w] = run[w]
  BY <1>1, DeskMoves
<1>3. Holder' = Holder /\ UNCHANGED <<row, posts>> /\ (faults' = faults \/ faults' = faults + 1)
  BY DeskMoves
<1>4. faults' >= faults
  BY <1>3, LimitAssumption DEF NoticesInv, NoticesTypeOK
<1>5. \A r \in Row : RowOpen(r)' => RowOpen(r)
  BY <1>3 DEF RowOpen
<1> QED
  BY <1>2, <1>3, <1>4, <1>5, RowsPay

\* A row is queued or purged, an hour passes, or a session drops: the worker's, with the lock, is a fault.
LEMMA WorldPays ==
    ASSUME NoticesInv, NoticesInv', PostsOK,
           \/ \E r \in Row : Queue(r) \/ Purge(r)
           \/ \E job \in {"worker", "weekly"} : DropSession(job)
           \/ Hour \/ UNCHANGED vars
    PROVE  PostsOK'
<1>1. UNCHANGED run /\ UNCHANGED posts
  BY DEF Queue, Purge, DropSession, Hour, vars, told
<1>2. /\ lock \in [{"worker", "weekly"} -> Job \cup {Nobody}]
      /\ row \in [Row -> {"unwritten", "waiting", "processed", "gone"}] /\ faults \in Nat
  BY LimitAssumption DEF NoticesInv, NoticesTypeOK
<1>3. \A r \in Row : RowOpen(r)' => RowOpen(r)
  <2>1. CASE UNCHANGED row
    BY <2>1 DEF RowOpen
  <2>2. ASSUME NEW q \in Row, Queue(q) \/ Purge(q) PROVE \A r \in Row : RowOpen(r)' => RowOpen(r)
    BY <1>2, <2>2 DEF Queue, Purge, RowOpen
  <2> QED
    BY <2>1, <2>2 DEF DropSession, Hour, vars
<1>4. /\ Holder' = Holder \/ (Holder' = Nobody /\ faults' = faults + 1)
      /\ faults' >= faults
  <2>1. CASE UNCHANGED <<lock, faults>>
    BY <1>2, <2>1 DEF Holder
  <2>2. ASSUME NEW job \in {"worker", "weekly"}, DropSession(job)
        PROVE  (Holder' = Holder \/ Holder' = Nobody) /\ faults' = faults + 1
    BY <1>2, <2>2 DEF DropSession, Fault, Holder
  <2> QED
    BY <1>2, <2>1, <2>2 DEF Queue, Purge, Hour, vars
<1> QED
  BY <1>1, <1>3, <1>4, RowsPay

\* Each step of a worker, faults included, keeps it.
LEMMA WorkerPays ==
    ASSUME NoticesInv, NoticesInv', PostsOK, NEW w \in Replica,
           Tick(w) \/ WorkStep(w) \/ Throw(w) \/ AnswerLost(w) \/ Crash(w)
    PROVE  PostsOK'
<1>1. CASE Mail(w) \/ Limit(w) \/ Text(w) \/ Log(w)
  <2>1. NextParent(w) \/ \E label \in {"mail", "limit", "text", "log"} : Goto(w, label)
    BY <1>1 DEF Mail, Limit, Text, Log
  <2>2. UNCHANGED <<row, lock, posts, faults>> /\ run[w].pc \in Telling
    BY <1>1 DEF Mail, Limit, Text, Log, told, Telling
  <2> QED
    BY <2>1, <2>2, TellPays
<1>2. CASE AnswerLost(w)
  <2>1. NextParent(w) /\ UNCHANGED <<row, lock, posts>> /\ run[w].pc \in Telling /\ faults' = faults + 1
    BY <1>2 DEF AnswerLost, Telling, Fault
  <2>2. PICK t : t = run[w]
    OBVIOUS
  <2>3. HandFits(t) /\ w \in Job
    BY <2>2, HandAt DEF PostsOK
  <2>4. PICK n \in Run : /\ Becomes(w, n) /\ n.pc \in {"post", "mark"} /\ n.batch = t.batch /\ n.row = t.row
                         /\ n.left = t.left \ {LeastOf(t.left)}
    BY <2>1, <2>2, <2>3, NextMoves
  <2>5. HandFits(n)
    BY <2>1, <2>2, <2>3, <2>4 DEF HandFits, Telling
  <2>6. Holder' = Holder /\ \A r \in Row : RowOpen(r)' => RowOpen(r)
    BY <2>1 DEF Holder, RowOpen
  <2>7. \A r \in Row, p \in Parent : ToPost(n, r, p)' => ToPost(t, r, p)
    BY <2>1, <2>2, <2>4, <2>6, NextOne
  <2>8. \A r \in Row, p \in Parent : Pays(w, t, n, r, p)
    BY <2>1, <2>7 DEF Pays
  <2> QED
    BY <2>2, <2>3, <2>4, <2>5, <2>6, <2>8, RunPaysAll
<1>3. CASE EndBatch(w) \/ Crash(w)
  <2>1. w # Nobody /\ lock \in [{"worker", "weekly"} -> Job \cup {Nobody}]
    BY PeopleAssumption DEF Job, NoticesInv, NoticesTypeOK
  <2>2. Turn(w, Idle) /\ UNCHANGED <<row, posts>>
    BY <1>3 DEF EndBatch, Crash, told
  <2>3. Holder' = IF Holder = w THEN Nobody ELSE Holder
    BY <1>3, <2>1 DEF EndBatch, Crash, Holder
  <2>4. \/ faults' = faults /\ run[w].pc = "rows" /\ run[w].batch = {}
        \/ faults' = faults + 1
    BY <1>3 DEF EndBatch, Crash, Fault
  <2> QED
    BY <2>2, <2>3, <2>4, EndPays
<1> QED
  BY <1>1, <1>2, <1>3, TickPays, ReadBatchPays, OpenRowPays, PostPays, MarkPays, ThrowPays DEF WorkStep, TellStep

\* At the start nobody has been told, and each is due once.
LEMMA PostsStart == Init /\ NoticesInv => PostsOK
<1> SUFFICES ASSUME Init, NoticesInv PROVE PostsOK
  OBVIOUS
<1>1. \A w \in Replica : run[w] = Idle
  BY DEF Init, Job
<1>2. HandsFit
  BY <1>1, IdlePosts DEF HandsFit
<1>3. PostsPaid
  <2> SUFFICES ASSUME NEW r \in Row, NEW p \in Parent PROVE Paid(r, p)
    BY DEF PostsPaid
  <2>1. Loose(r, p) = {}
    BY <1>1, IdlePosts DEF Loose
  <2>2. IsFiniteSet(Loose(r, p)) /\ Cardinality(Loose(r, p)) = 0
    BY <2>1, FS_EmptySet
  <2>3. posts[r][p] = 0 /\ faults = 0 /\ Due(r, p) \in {0, 1}
    BY DEF Init, Due, DueOf
  <2> QED
    BY <2>2, <2>3 DEF Paid
<1> QED
  BY <1>2, <1>3 DEF PostsOK

\* Every step keeps the account of posts.
LEMMA PostsStep == NoticesInv /\ NoticesInv' /\ PostsOK /\ [Next]_vars => PostsOK'
<1> SUFFICES ASSUME NoticesInv, NoticesInv', PostsOK, [Next]_vars PROVE PostsOK'
  OBVIOUS
<1>1. ASSUME NEW w \in Replica, Tick(w) \/ WorkStep(w) PROVE PostsOK'
  BY <1>1, WorkerPays
<1>2. ASSUME NEW d \in Desk, RemindNow(d) \/ RemindWeekly(d) \/ TellStep(d) \/ EndReminders(d) PROVE PostsOK'
  BY <1>2, DeskPays DEF DeskStep
<1>3. ASSUME NEW j \in Job, Throw(j) \/ AnswerLost(j) \/ Crash(j) PROVE PostsOK'
  <2>1. CASE j \in Replica
    BY <1>3, <2>1, WorkerPays
  <2>2. CASE j \in Desk
    BY <1>3, <2>2, DeskPays DEF DeskStep
  <2> QED
    BY <2>1, <2>2 DEF Job
<1> QED
  BY <1>1, <1>2, <1>3, WorldPays DEF Next

\* Of every row and parent one notice is due or was posted, and each beyond it was paid for by a fault.
THEOREM PostsArePaid == SafeSpec => [](NoticesInv /\ PostsOK)
<1>1. Init => NoticesInv /\ PostsOK
  BY NoticesStart, PostsStart
<1>2. NoticesInv /\ PostsOK /\ [Next]_vars => (NoticesInv /\ PostsOK)'
  BY NoticesStep, PostsStep
<1> QED
  BY <1>1, <1>2, PTL DEF SafeSpec

(***************************************************************************)
(* A parent is told of one row again only after a fault, for any number of *)
(* replicas, rows and parents: never because two replicas tick together or *)
(* a tick comes before the last one ended.                                 *)
(***************************************************************************)
THEOREM RepeatsNeedFaults == SafeSpec => []RepeatsAreFaults
<1>1. NoticesInv /\ PostsOK => RepeatsAreFaults
  <2> SUFFICES ASSUME NoticesInv, PostsOK, NEW r \in Row, NEW p \in Parent PROVE posts[r][p] <= 1 + faults
    BY DEF RepeatsAreFaults
  <2>1. IsFiniteSet(Loose(r, p)) /\ posts[r][p] + Due(r, p) + Cardinality(Loose(r, p)) <= 1 + faults
    BY DEF PostsOK, PostsPaid, Paid
  <2>2. Cardinality(Loose(r, p)) \in Nat /\ posts[r][p] \in Nat /\ faults \in Nat /\ Due(r, p) \in {0, 1}
    BY <2>1, FS_CardinalityType, PaidTyped DEF Due, DueOf
  <2> QED
    BY <2>1, <2>2
<1> QED
  BY <1>1, PostsArePaid, PTL

-----------------------------------------------------------------------------
\* The texts of a day. A run at t is at the text to p, or has sent it and not logged it.
At(t, p, label) == t.pc = label /\ LeastOf(t.left) = p
OneAt(t, p, label) == IF At(t, p, label) THEN 1 ELSE 0
Texting(p, label) == {j \in Job : At(run[j], p, label)}

\* Worker runs that go on without the lock.
Astray == {w \in Replica : w # Holder /\ run[w].pc # "idle"}

(***************************************************************************)
(* What Termii accepted and no log row counts, or a run will log, is the   *)
(* work of a fault, and so is a run astray: whoever reads the count below  *)
(* the limit is with the other reminders, and the runs astray, which the   *)
(* faults left over pay for.                                               *)
(***************************************************************************)
TextPaid(p) ==
    /\ texts[p] + Cardinality(Astray) <= logged[p] + Cardinality(Texting(p, "log")) + faults
    /\ texts[p] + Cardinality(Texting(p, "text")) <= SMS_DAILY_LIMIT + Cardinality(Desk) + faults

TextsOK == IsFiniteSet(Astray) /\ \A p \in Parent : TextPaid(p)

\* The terms of the account of texts are numbers.
LEMMA TextTyped ==
    ASSUME NoticesInv, NEW p \in Parent
    PROVE  texts[p] \in Nat /\ logged[p] \in Nat /\ faults \in Nat /\ SMS_DAILY_LIMIT \in Nat /\ Cardinality(Desk) \in Nat
<1>1. Cardinality(Desk) \in Nat
  BY PeopleAssumption, FS_CardinalityType
<1> QED
  BY <1>1, LimitAssumption DEF NoticesInv, NoticesTypeOK

\* The runs about one parent's text: of the desks, of the worker with the lock and of those astray.
LEMMA FewText ==
    ASSUME NoticesInv, IsFiniteSet(Astray), NEW p
    PROVE  /\ IsFiniteSet(Texting(p, "text")) /\ IsFiniteSet(Texting(p, "log"))
           /\ Cardinality(Texting(p, "text")) \in Nat /\ Cardinality(Texting(p, "log")) \in Nat
           /\ Cardinality(Astray) \in Nat
           /\ \A j \in Job : run[j].pc \notin {"idle", "text", "log"} =>
                 Cardinality(Texting(p, "text")) + Cardinality(Texting(p, "log"))
                   <= Cardinality(Desk) + Cardinality(Astray)
<1>1. PICK S, T, A, D : S = Texting(p, "text") /\ T = Texting(p, "log") /\ A = Astray /\ D = Desk
  OBVIOUS
<1>2. IsFiniteSet(A) /\ IsFiniteSet(D) /\ Cardinality(A) \in Nat /\ Cardinality(D) \in Nat
  BY <1>1, PeopleAssumption, FS_CardinalityType
<1>3. PICK E : E = A \cup {Holder}
  OBVIOUS
<1>4. IsFiniteSet(E) /\ Cardinality(E) \in Nat /\ Cardinality(E) <= Cardinality(A) + 1
  <2>1. IsFiniteSet(E) /\ Cardinality(E) = IF Holder \in A THEN Cardinality(A) ELSE Cardinality(A) + 1
    BY <1>2, <1>3, FS_AddElement
  <2> QED
    BY <1>2, <2>1
<1>5. PICK F : F = D \cup E
  OBVIOUS
<1>6. IsFiniteSet(F) /\ Cardinality(F) \in Nat /\ Cardinality(F) <= Cardinality(D) + Cardinality(A) + 1
  <2>1. IsFiniteSet(F) /\ Cardinality(F) = Cardinality(D) + Cardinality(E) - Cardinality(D \cap E)
    BY <1>2, <1>4, <1>5, FS_Union
  <2>2. IsFiniteSet(D \cap E)
    BY <1>2, FS_Subset
  <2>3. Cardinality(D \cap E) \in Nat /\ Cardinality(F) \in Nat
    BY <2>1, <2>2, FS_CardinalityType
  <2> QED
    BY <1>2, <1>4, <2>1, <2>3
<1>7. \A j \in Job : run[j].pc # "idle" => j \in F
  BY <1>1, <1>3, <1>5 DEF Astray, Job
<1>8. S \subseteq F /\ T \subseteq F /\ S \cap T = {}
  BY <1>1, <1>7 DEF Texting, At
<1>9. IsFiniteSet(S) /\ IsFiniteSet(T) /\ Cardinality(S) \in Nat /\ Cardinality(T) \in Nat
  BY <1>6, <1>8, FS_Subset, FS_CardinalityType
<1>10. IsFiniteSet(S \cup T) /\ Cardinality(S \cup T) = Cardinality(S) + Cardinality(T)
  <2>1. IsFiniteSet(S \cup T) /\ Cardinality(S \cup T) = Cardinality(S) + Cardinality(T) - Cardinality(S \cap T)
    BY <1>9, FS_Union
  <2>2. Cardinality(S \cap T) = 0
    BY <1>8, FS_EmptySet
  <2> QED
    BY <1>9, <2>1, <2>2
<1>11. ASSUME NEW j \in Job, run[j].pc \notin {"idle", "text", "log"}
       PROVE  Cardinality(S) + Cardinality(T) <= Cardinality(D) + Cardinality(A)
  <2>1. j \in F /\ j \notin S /\ j \notin T
    BY <1>1, <1>7, <1>11 DEF Texting, At
  <2>2. IsFiniteSet(F \ {j}) /\ Cardinality(F \ {j}) = Cardinality(F) - 1
    BY <1>6, <2>1, FS_RemoveElement
  <2>3. S \cup T \subseteq F \ {j}
    BY <1>8, <2>1
  <2>4. Cardinality(S \cup T) <= Cardinality(F \ {j})
    BY <2>2, <2>3, FS_Subset
  <2> QED
    BY <1>2, <1>6, <1>9, <1>10, <2>2, <2>4
<1> QED
  BY <1>1, <1>2, <1>9, <1>11

\* How a step of one run changes the number of runs at a statement.
LEMMA TextingMoves ==
    ASSUME NoticesInv, NEW j \in Job, NEW n, Becomes(j, n), NEW t, t = run[j], NEW p, NEW label,
           IsFiniteSet(Texting(p, label))
    PROVE  /\ IsFiniteSet(Texting(p, label)') /\ Cardinality(Texting(p, label)') \in Nat
           /\ Cardinality(Texting(p, label)') + OneAt(t, p, label) = Cardinality(Texting(p, label)) + OneAt(n, p, label)
<1>1. run'[j] = n /\ \A i \in Job : i # j => run'[i] = run[i]
  BY Moves
<1>2. PICK S, T : S = Texting(p, label) /\ T = Texting(p, label)'
  OBVIOUS
<1>3. \A v : v # j => (v \in T <=> v \in S)
  BY <1>1, <1>2 DEF Texting, At
<1>4. (j \in S <=> At(t, p, label)) /\ (j \in T <=> At(n, p, label))
  BY <1>1, <1>2 DEF Texting, At
<1>5. /\ IsFiniteSet(T) /\ Cardinality(T) \in Nat /\ Cardinality(S) \in Nat
      /\ Cardinality(T) + (IF j \in S THEN 1 ELSE 0) = Cardinality(S) + (IF j \in T THEN 1 ELSE 0)
  BY <1>2, <1>3, CountMoves
<1> QED
  BY <1>2, <1>4, <1>5 DEF OneAt

\* Nobody but the run of j can come astray, and it only if it was so before.
LEMMA AstrayShrinks ==
    ASSUME NoticesInv, IsFiniteSet(Astray), NEW j \in Job, NEW n, Becomes(j, n), NEW t, t = run[j],
           \A v \in Replica : v # j /\ v = Holder => v = Holder',
           j \in Replica /\ j # Holder' /\ n.pc # "idle" => j # Holder /\ t.pc # "idle"
    PROVE  IsFiniteSet(Astray') /\ Cardinality(Astray') \in Nat /\ Cardinality(Astray') <= Cardinality(Astray)
<1>1. run'[j] = n /\ \A i \in Job : i # j => run'[i] = run[i]
  BY Moves
<1>2. PICK S, T : S = Astray /\ T = Astray'
  OBVIOUS
<1>3. ASSUME NEW v \in T PROVE v \in S
  <2>1. v \in Replica /\ v \in Job /\ v # Holder' /\ run'[v].pc # "idle"
    BY <1>2, <1>3 DEF Astray, Job
  <2> QED
    BY <1>1, <1>2, <2>1 DEF Astray
<1>4. T \in SUBSET S /\ IsFiniteSet(S)
  BY <1>2, <1>3
<1>5. IsFiniteSet(T) /\ Cardinality(T) <= Cardinality(S)
  BY <1>4, FS_Subset
<1> QED
  BY <1>2, <1>5, FS_CardinalityType

\* What the step of one run may do to the account of one parent's texts.
LEMMA RunTexts ==
    ASSUME NoticesInv, NoticesInv', TextsOK, NEW j \in Job, NEW n, Becomes(j, n), NEW t, t = run[j], NEW p \in Parent,
           IsFiniteSet(Astray'), Cardinality(Astray') <= Cardinality(Astray),
           texts'[p] + logged[p] + OneAt(t, p, "log") + faults
             <= texts[p] + logged'[p] + OneAt(n, p, "log") + faults',
           \/ texts'[p] + OneAt(n, p, "text") + faults <= texts[p] + OneAt(t, p, "text") + faults'
           \/ texts'[p] = texts[p] /\ faults' = faults /\ logged[p] < SMS_DAILY_LIMIT /\ t.pc = "limit"
    PROVE  TextPaid(p)'
<1>1. /\ texts[p] \in Nat /\ logged[p] \in Nat /\ faults \in Nat /\ SMS_DAILY_LIMIT \in Nat /\ Cardinality(Desk) \in Nat
      /\ texts'[p] \in Nat /\ logged'[p] \in Nat /\ faults' \in Nat
  BY TextTyped, LimitAssumption DEF NoticesInv, NoticesTypeOK
<1>2. /\ IsFiniteSet(Texting(p, "text")) /\ IsFiniteSet(Texting(p, "log"))
      /\ Cardinality(Texting(p, "text")) \in Nat /\ Cardinality(Texting(p, "log")) \in Nat
      /\ Cardinality(Astray) \in Nat
      /\ t.pc = "limit" => Cardinality(Texting(p, "text")) + Cardinality(Texting(p, "log"))
                             <= Cardinality(Desk) + Cardinality(Astray)
  BY FewText DEF TextsOK
<1>3. Cardinality(Astray') \in Nat
  BY FS_CardinalityType
<1>4. /\ Cardinality(Texting(p, "log")') \in Nat /\ Cardinality(Texting(p, "text")') \in Nat
      /\ Cardinality(Texting(p, "log")') + OneAt(t, p, "log") = Cardinality(Texting(p, "log")) + OneAt(n, p, "log")
      /\ Cardinality(Texting(p, "text")') + OneAt(t, p, "text") = Cardinality(Texting(p, "text")) + OneAt(n, p, "text")
  BY <1>2, TextingMoves
<1>5. \A x, label : OneAt(x, p, label) \in {0, 1}
  BY DEF OneAt
<1>6. t.pc = "limit" => OneAt(t, p, "text") = 0
  BY DEF OneAt, At
<1>7. /\ texts[p] + Cardinality(Astray) <= logged[p] + Cardinality(Texting(p, "log")) + faults
      /\ texts[p] + Cardinality(Texting(p, "text")) <= SMS_DAILY_LIMIT + Cardinality(Desk) + faults
  BY DEF TextsOK, TextPaid
<1>8. PICK lt, ln, xt, xn \in {0, 1} :
         /\ lt = OneAt(t, p, "log") /\ ln = OneAt(n, p, "log")
         /\ xt = OneAt(t, p, "text") /\ xn = OneAt(n, p, "text")
  BY <1>5
<1>9. texts'[p] + Cardinality(Astray') <= logged'[p] + Cardinality(Texting(p, "log")') + faults'
  BY <1>1, <1>2, <1>3, <1>4, <1>7, <1>8
<1>10. texts'[p] + Cardinality(Texting(p, "text")') <= SMS_DAILY_LIMIT + Cardinality(Desk) + faults'
  BY <1>1, <1>2, <1>4, <1>6, <1>7, <1>8
<1>11. UNCHANGED <<SMS_DAILY_LIMIT, Cardinality(Desk)>>
  OBVIOUS
<1> QED
  BY <1>9, <1>10, <1>11 DEF TextPaid

\* A step that texts nobody, or a fault that does not.
LEMMA QuietTexts ==
    ASSUME NoticesInv, NoticesInv', TextsOK, NEW j \in Job, NEW n, Becomes(j, n), NEW t, t = run[j],
           UNCHANGED <<texts, logged>>,
           \/ faults' = faults /\ t.pc # "log" /\ n.pc # "text"
           \/ faults' = faults + 1,
           \A v \in Replica : v # j /\ v = Holder => v = Holder',
           j \in Replica /\ j # Holder' /\ n.pc # "idle" => j # Holder /\ t.pc # "idle"
    PROVE  TextsOK'
<1>1. IsFiniteSet(Astray') /\ Cardinality(Astray') <= Cardinality(Astray)
  BY AstrayShrinks DEF TextsOK
<1>2. ASSUME NEW p \in Parent PROVE TextPaid(p)'
  <2>1. texts[p] \in Nat /\ logged[p] \in Nat /\ faults \in Nat /\ texts'[p] = texts[p] /\ logged'[p] = logged[p]
    BY TextTyped
  <2>2. \A x, label : OneAt(x, p, label) \in {0, 1}
    BY DEF OneAt
  <2>3. (t.pc # "log" => OneAt(t, p, "log") = 0) /\ (n.pc # "text" => OneAt(n, p, "text") = 0)
    BY DEF OneAt, At
  <2>4. PICK lt, ln, xt, xn \in {0, 1} :
           /\ lt = OneAt(t, p, "log") /\ ln = OneAt(n, p, "log")
           /\ xt = OneAt(t, p, "text") /\ xn = OneAt(n, p, "text")
    BY <2>2
  <2>5. /\ texts'[p] + logged[p] + OneAt(t, p, "log") + faults
             <= texts[p] + logged'[p] + OneAt(n, p, "log") + faults'
        /\ texts'[p] + OneAt(n, p, "text") + faults <= texts[p] + OneAt(t, p, "text") + faults'
    BY <2>1, <2>3, <2>4
  <2> QED
    BY <1>1, <2>5, RunTexts
<1> QED
  BY <1>1, <1>2 DEF TextsOK

\* No run moves; a session that drops leaves one run astray.
LEMMA WorldTexts ==
    ASSUME NoticesInv, NoticesInv', TextsOK,
           \/ \E r \in Row : Queue(r) \/ Purge(r)
           \/ \E job \in {"worker", "weekly"} : DropSession(job)
           \/ Hour \/ UNCHANGED vars
    PROVE  TextsOK'
<1>1. UNCHANGED <<texts, logged, run>> /\ UNCHANGED run
  BY DEF Queue, Purge, DropSession, Hour, vars, told
<1>2. lock \in [{"worker", "weekly"} -> Job \cup {Nobody}] /\ faults \in Nat
  BY LimitAssumption DEF NoticesInv, NoticesTypeOK
<1>3. \/ Holder' = Holder /\ (faults' = faults \/ faults' = faults + 1)
      \/ Holder' = Nobody /\ faults' = faults + 1
  <2>1. CASE UNCHANGED <<lock, faults>>
    BY <2>1 DEF Holder
  <2>2. ASSUME NEW job \in {"worker", "weekly"}, DropSession(job)
        PROVE  (Holder' = Holder \/ Holder' = Nobody) /\ faults' = faults + 1
    BY <1>2, <2>2 DEF DropSession, Fault, Holder
  <2> QED
    BY <2>1, <2>2 DEF Queue, Purge, Hour, vars
<1>4. PICK S, T : S = Astray /\ T = Astray'
  OBVIOUS
<1>5. IsFiniteSet(S) /\ Cardinality(S) \in Nat
  BY <1>4, FS_CardinalityType DEF TextsOK
<1>6. /\ IsFiniteSet(T) /\ Cardinality(T) \in Nat
      /\ Cardinality(T) + faults <= Cardinality(S) + faults'
  <2>1. CASE Holder' = Holder
    <3>1. T = S
      BY <1>1, <1>4, <2>1 DEF Astray
    <3> QED
      BY <1>2, <1>3, <1>5, <3>1
  <2>2. CASE Holder' = Nobody /\ faults' = faults + 1
    <3>1. PICK U : U = S \cup {Holder}
      OBVIOUS
    <3>2. IsFiniteSet(U) /\ Cardinality(U) = IF Holder \in S THEN Cardinality(S) ELSE Cardinality(S) + 1
      BY <1>5, <3>1, FS_AddElement
    <3>3. T \in SUBSET U
      BY <1>1, <1>4, <3>1 DEF Astray
    <3>4. IsFiniteSet(T) /\ Cardinality(T) <= Cardinality(U)
      BY <3>2, <3>3, FS_Subset
    <3>5. Cardinality(T) \in Nat
      BY <3>4, FS_CardinalityType
    <3> QED
      BY <1>2, <1>5, <2>2, <3>2, <3>4, <3>5
  <2> QED
    BY <1>3, <2>1, <2>2
<1>7. ASSUME NEW p \in Parent PROVE TextPaid(p)'
  <2>1. /\ texts[p] \in Nat /\ logged[p] \in Nat /\ faults \in Nat /\ SMS_DAILY_LIMIT \in Nat /\ Cardinality(Desk) \in Nat
        /\ texts'[p] = texts[p] /\ logged'[p] = logged[p] /\ faults' \in Nat
    BY <1>1, TextTyped, LimitAssumption DEF NoticesInv, NoticesTypeOK
  <2>2. Texting(p, "log")' = Texting(p, "log") /\ Texting(p, "text")' = Texting(p, "text")
    BY <1>1 DEF Texting, At
  <2>3. Cardinality(Texting(p, "text")) \in Nat /\ Cardinality(Texting(p, "log")) \in Nat
    BY FewText DEF TextsOK
  <2>4. /\ texts[p] + Cardinality(S) <= logged[p] + Cardinality(Texting(p, "log")) + faults
        /\ texts[p] + Cardinality(Texting(p, "text")) <= SMS_DAILY_LIMIT + Cardinality(Desk) + faults
    BY <1>4 DEF TextsOK, TextPaid
  <2>5. faults' >= faults
    BY <1>2, <1>3
  <2>6. texts'[p] + Cardinality(T) <= logged'[p] + Cardinality(Texting(p, "log")') + faults'
    BY <1>5, <1>6, <2>1, <2>2, <2>3, <2>4
  <2>7. texts'[p] + Cardinality(Texting(p, "text")') <= SMS_DAILY_LIMIT + Cardinality(Desk) + faults'
    BY <2>1, <2>2, <2>3, <2>4, <2>5
  <2> QED
    BY <1>4, <2>6, <2>7 DEF TextPaid
<1> QED
  BY <1>4, <1>6, <1>7 DEF TextsOK

\* A step that sends no text and logs none keeps the account of texts.
LEMMA QuietMove ==
    ASSUME NoticesInv, NoticesInv', TextsOK, NEW j \in Job, UNCHANGED <<lock, texts, logged>>, run[j].pc # "idle",
           NextParent(j) \/ RowOver(j) \/ \E label \in {"mail", "limit"} : Goto(j, label),
           \/ faults' = faults /\ run[j].pc # "log"
           \/ faults' = faults + 1
    PROVE  TextsOK'
<1>1. PICK t : t = run[j]
  OBVIOUS
<1>2. \E n : Becomes(j, n) /\ n.pc # "text"
  <2>1. CASE NextParent(j)
    <3>1. PICK n \in Run : Becomes(j, n) /\ n.pc \in {"post", "mark"}
      BY <1>1, <2>1, NextMoves
    <3> QED
      BY <3>1
  <2>2. CASE RowOver(j)
    <3>1. PICK n \in Run : Becomes(j, n) /\ n.pc \in {"rows", "unlock"}
      BY <1>1, <2>2, OverMoves
    <3> QED
      BY <3>1
  <2>3. ASSUME NEW label \in {"mail", "limit"}, Goto(j, label) PROVE \E n : Becomes(j, n) /\ n.pc # "text"
    <3>1. PICK n \in Run : Becomes(j, n) /\ n.pc = label
      BY <1>1, <2>3, GotoMoves DEF Step
    <3> QED
      BY <3>1
  <2> QED
    BY <2>1, <2>2, <2>3
<1>3. PICK n : Becomes(j, n) /\ n.pc # "text"
  BY <1>2
<1>4. Holder' = Holder /\ UNCHANGED <<texts, logged>>
  BY DEF Holder
<1> QED
  BY <1>1, <1>3, <1>4, QuietTexts

\* The worker's and the reminders' other statements are such steps.
LEMMA TellTexts ==
    ASSUME NoticesInv, NoticesInv', TextsOK, NEW j \in Job,
           Post(j) \/ Mail(j) \/ (Text(j) /\ UNCHANGED texts) \/ Throw(j) \/ (j \in Replica /\ Mark(j))
    PROVE  TextsOK'
<1>1. run[j].pc # "idle" /\ UNCHANGED <<lock, texts, logged>>
  BY DEF Post, Mail, Text, Throw, Mark, told
<1>2. NextParent(j) \/ RowOver(j) \/ \E label \in {"mail", "limit"} : Goto(j, label)
  <2>1. CASE Text(j) /\ UNCHANGED texts
    <3>1. texts' = [texts EXCEPT ![Who(j)] = @ + 1] => FALSE
      <4>1. Who(j) \in Parent
        BY <2>1, AtParent DEF Text, Telling
      <4>2. texts \in [Parent -> Nat] /\ texts[Who(j)] \in Nat
        BY <4>1 DEF NoticesInv, NoticesTypeOK
      <4> QED
        BY <2>1, <4>1, <4>2
    <3> QED
      BY <2>1, <3>1 DEF Text
  <2>2. CASE Post(j)
    BY <2>2 DEF Post
  <2>3. CASE Mail(j)
    BY <2>3 DEF Mail
  <2> QED
    BY <2>1, <2>2, <2>3 DEF Throw, Mark
<1>3. \/ faults' = faults /\ run[j].pc # "log"
      \/ faults' = faults + 1
  BY DEF Post, Mail, Text, Throw, Mark, Fault
<1> QED
  BY <1>1, <1>2, <1>3, QuietMove

\* The run reads the count of the texts logged, and another run may text before it does.
LEMMA LimitTexts ==
    ASSUME NoticesInv, NoticesInv', TextsOK, NEW j \in Job, Limit(j)
    PROVE  TextsOK'
<1>1. run[j].pc = "limit" /\ UNCHANGED <<lock, texts, logged, faults>> /\ UNCHANGED faults
  BY DEF Limit, told
<1>2. CASE NextParent(j)
  BY <1>1, <1>2, QuietMove
<1>3. CASE ~(logged[Who(j)] >= SMS_DAILY_LIMIT) /\ Goto(j, "text")
  <2>1. PICK t : t = run[j]
    OBVIOUS
  <2>2. PICK n \in Run : Becomes(j, n) /\ n.pc = "text" /\ n.left = t.left
    BY <1>3, <2>1, GotoMoves DEF Step
  <2>3. IsFiniteSet(Astray') /\ Cardinality(Astray') <= Cardinality(Astray)
    <3>1. Holder' = Holder
      BY <1>1 DEF Holder
    <3> QED
      BY <1>1, <2>1, <2>2, <3>1, AstrayShrinks DEF TextsOK
  <2>4. ASSUME NEW p \in Parent PROVE TextPaid(p)'
    <3>1. /\ texts[p] \in Nat /\ logged[p] \in Nat /\ faults \in Nat /\ SMS_DAILY_LIMIT \in Nat
          /\ texts'[p] = texts[p] /\ logged'[p] = logged[p] /\ faults' = faults
      BY <1>1, TextTyped
    <3>2. OneAt(t, p, "log") = 0 /\ OneAt(n, p, "log") = 0 /\ OneAt(t, p, "text") = 0
      BY <1>1, <2>1, <2>2 DEF OneAt, At
    <3>3. \/ OneAt(n, p, "text") = 0
          \/ logged[p] < SMS_DAILY_LIMIT
      <4>1. OneAt(n, p, "text") # 0 => p = Who(j)
        BY <2>1, <2>2 DEF OneAt, At, Who
      <4> QED
        BY <1>3, <3>1, <4>1
    <3> QED
      BY <1>1, <2>1, <2>2, <2>3, <3>1, <3>2, <3>3, RunTexts
  <2> QED
    BY <2>3, <2>4 DEF TextsOK
<1> QED
  BY <1>2, <1>3 DEF Limit

\* A text that Termii took, and the log row of one; its answer may be lost.
LEMMA SentTexts ==
    ASSUME NoticesInv, NoticesInv', TextsOK, NEW j \in Job,
           \/ Text(j) /\ texts' = [texts EXCEPT ![Who(j)] = @ + 1] /\ Goto(j, "log")
           \/ Log(j) \/ AnswerLost(j)
    PROVE  TextsOK'
<1>1. PICK t, q : t = run[j] /\ q = Who(j)
  OBVIOUS
<1>2. t.pc \in {"text", "log"} /\ q \in Parent /\ q = LeastOf(t.left) /\ UNCHANGED lock
  BY <1>1, AtParent DEF Text, Log, AnswerLost, Telling, Who
<1>3. \E n : /\ Becomes(j, n)
             /\ \/ n.pc = "log" /\ n.left = t.left /\ Text(j) /\ texts' = [texts EXCEPT ![q] = @ + 1]
                \/ n.pc \in {"post", "mark"} /\ (Log(j) \/ AnswerLost(j))
  <2>1. CASE Text(j) /\ texts' = [texts EXCEPT ![Who(j)] = @ + 1] /\ Goto(j, "log")
    <3>1. PICK n \in Run : Becomes(j, n) /\ n.pc = "log" /\ n.left = t.left
      BY <1>1, <2>1, GotoMoves DEF Step
    <3> QED
      BY <1>1, <2>1, <3>1
  <2>2. CASE Log(j) \/ AnswerLost(j)
    <3>1. PICK n \in Run : Becomes(j, n) /\ n.pc \in {"post", "mark"}
      BY <1>1, <2>2, NextMoves DEF Log, AnswerLost
    <3> QED
      BY <2>2, <3>1
  <2> QED
    BY <2>1, <2>2
<1>4. PICK n : /\ Becomes(j, n)
               /\ \/ n.pc = "log" /\ n.left = t.left /\ Text(j) /\ texts' = [texts EXCEPT ![q] = @ + 1]
                  \/ n.pc \in {"post", "mark"} /\ (Log(j) \/ AnswerLost(j))
  BY <1>3
<1>5. IsFiniteSet(Astray') /\ Cardinality(Astray') <= Cardinality(Astray)
  <2>1. Holder' = Holder
    BY <1>2 DEF Holder
  <2> QED
    BY <1>1, <1>2, <1>4, <2>1, AstrayShrinks DEF TextsOK
<1>6. texts \in [Parent -> Nat] /\ logged \in [Parent -> Nat] /\ faults \in Nat
  BY LimitAssumption DEF NoticesInv, NoticesTypeOK
<1>7. ASSUME NEW p \in Parent PROVE TextPaid(p)'
  <2>1. \A x, label : OneAt(x, p, label) \in {0, 1} /\ (x.pc # label => OneAt(x, p, label) = 0)
    BY DEF OneAt, At
  <2>2. texts[p] \in Nat /\ logged[p] \in Nat
    BY <1>6
  <2>3. CASE Text(j) /\ texts' = [texts EXCEPT ![q] = @ + 1] /\ n.pc = "log" /\ n.left = t.left
    <3>1. t.pc = "text" /\ logged'[p] = logged[p] /\ faults' = faults
      BY <1>1, <2>3 DEF Text
    <3>2. OneAt(t, p, "log") = 0 /\ OneAt(n, p, "text") = 0 /\ OneAt(n, p, "log") = OneAt(t, p, "text")
      BY <2>1, <2>3, <3>1 DEF OneAt, At
    <3>3. texts'[p] = texts[p] + OneAt(t, p, "text")
      BY <1>2, <1>6, <2>3, <3>1 DEF OneAt, At
    <3> QED
      BY <1>1, <1>4, <1>5, <1>6, <2>1, <2>2, <3>1, <3>2, <3>3, RunTexts
  <2>4. CASE Log(j) /\ n.pc \in {"post", "mark"}
    <3>1. t.pc = "log" /\ texts'[p] = texts[p] /\ faults' = faults /\ logged' = [logged EXCEPT ![q] = @ + 1]
      BY <1>1, <2>4 DEF Log
    <3>2. OneAt(t, p, "text") = 0 /\ OneAt(n, p, "text") = 0 /\ OneAt(n, p, "log") = 0
      BY <2>1, <2>4, <3>1
    <3>3. logged'[p] = logged[p] + OneAt(t, p, "log")
      BY <1>2, <1>6, <3>1 DEF OneAt, At
    <3> QED
      BY <1>1, <1>4, <1>5, <1>6, <2>1, <2>2, <3>1, <3>2, <3>3, RunTexts
  <2>5. CASE AnswerLost(j) /\ n.pc \in {"post", "mark"}
    <3>1. /\ t.pc = "text" /\ logged'[p] = logged[p] /\ faults' = faults + 1
          /\ texts' = [texts EXCEPT ![q] = @ + 1]
      BY <1>1, <2>5 DEF AnswerLost, Fault
    <3>2. OneAt(t, p, "log") = 0 /\ OneAt(n, p, "text") = 0 /\ OneAt(n, p, "log") = 0
      BY <2>1, <2>5, <3>1
    <3>3. texts'[p] = texts[p] + OneAt(t, p, "text")
      BY <1>2, <1>6, <3>1 DEF OneAt, At
    <3> QED
      BY <1>1, <1>4, <1>5, <1>6, <2>1, <2>2, <3>1, <3>2, <3>3, RunTexts
  <2> QED
    BY <1>4, <2>3, <2>4, <2>5
<1> QED
  BY <1>5, <1>7 DEF TextsOK

\* Runs begin, read their batch and end without a text.
LEMMA TurnTexts ==
    ASSUME NoticesInv, NoticesInv', TextsOK, NEW j \in Job,
           \/ j \in Replica /\ (Tick(j) \/ ReadBatch(j) \/ OpenRow(j) \/ EndBatch(j))
           \/ j \in Desk /\ (RemindNow(j) \/ RemindWeekly(j) \/ EndReminders(j))
           \/ Crash(j)
    PROVE  TextsOK'
<1>1. PICK t : t = run[j]
  OBVIOUS
<1>2. /\ lock \in [{"worker", "weekly"} -> Job \cup {Nobody}] /\ Nobody \notin Job /\ Replica \cap Desk = {}
      /\ lock["worker"] \in Replica \cup {Nobody}
  BY PeopleAssumption DEF NoticesInv, NoticesTypeOK, LocksApart
<1>3. CASE j \in Replica /\ Tick(j)
  <2>1. PICK n \in Run : Becomes(j, n) /\ n.pc = "batch"
    BY <1>1, <1>3, GotoMoves DEF Tick, Step
  <2>2. Holder = Nobody /\ Holder' = j /\ t.pc = "idle" /\ faults' = faults /\ UNCHANGED <<texts, logged>>
    BY <1>1, <1>2, <1>3 DEF Tick, Holder, told
  <2> QED
    BY <1>1, <1>2, <2>1, <2>2, QuietTexts DEF Job
<1>4. CASE j \in Replica /\ (ReadBatch(j) \/ OpenRow(j))
  <2>1. \E n : Becomes(j, n) /\ n.pc \in {"rows", "post", "mark"}
    <3>1. CASE OpenRow(j)
      BY <1>1, <1>4, <3>1, OpenRowMoves
    <3>2. CASE ReadBatch(j)
      <4>1. PICK n : n = [t EXCEPT !.pc = "rows", !.batch = Batch]
        OBVIOUS
      <4>2. t \in Run
        BY <1>1, RunAt DEF NoticesInv
      <4>3. n.pc = "rows" /\ Becomes(j, n)
        BY <1>1, <3>2, <4>1, <4>2 DEF Run, ReadBatch, Becomes, Turn
      <4> QED
        BY <4>3
    <3> QED
      BY <1>4, <3>1, <3>2
  <2>2. PICK n : Becomes(j, n) /\ n.pc \in {"rows", "post", "mark"}
    BY <2>1
  <2>3. Holder' = Holder /\ t.pc \in {"batch", "rows"} /\ faults' = faults /\ UNCHANGED <<texts, logged>>
    BY <1>1, <1>4 DEF ReadBatch, OpenRow, Holder, told
  <2> QED
    BY <1>1, <2>2, <2>3, QuietTexts
<1>5. CASE (j \in Replica /\ EndBatch(j)) \/ (j \in Desk /\ EndReminders(j)) \/ Crash(j)
  <2>1. Becomes(j, Idle) /\ Idle.pc = "idle" /\ UNCHANGED <<texts, logged>>
    BY <1>5 DEF EndBatch, EndReminders, Crash, Becomes, Turn, Idle, told
  <2>2. Holder' = (IF Holder = j THEN Nobody ELSE Holder)
    BY <1>2, <1>5 DEF EndBatch, EndReminders, Crash, Holder
  <2>3. \/ faults' = faults /\ t.pc # "log"
        \/ faults' = faults + 1
    BY <1>1, <1>5 DEF EndBatch, EndReminders, Crash, Fault
  <2> QED
    BY <1>1, <2>1, <2>2, <2>3, QuietTexts
<1>6. CASE j \in Desk /\ (RemindNow(j) \/ RemindWeekly(j))
  <2>1. PICK n : n = Ahead(Idle, Audience[Fees])
    OBVIOUS
  <2>2. n.pc \in {"post", "mark"}
    <3>1. Audience[Fees] \in SUBSET Parent
      BY AudienceAssumption DEF About
    <3> QED
      BY <2>1, <3>1, IdleTyped, AheadTyped
  <2>3. Becomes(j, n) /\ UNCHANGED <<texts, logged>> /\ faults' = faults /\ t.pc = "idle"
    BY <1>1, <1>6, <2>1 DEF RemindNow, RemindWeekly, Becomes, Turn, told
  <2>4. Holder' = Holder
    BY <1>2, <1>6 DEF RemindNow, RemindWeekly, Holder
  <2> QED
    BY <1>1, <1>2, <1>6, <2>2, <2>3, <2>4, QuietTexts
<1> QED
  BY <1>3, <1>4, <1>5, <1>6

\* At the start no text was sent.
LEMMA TextsStart == Init /\ NoticesInv => TextsOK
<1> SUFFICES ASSUME Init, NoticesInv PROVE TextsOK
  OBVIOUS
<1>1. \A j \in Job : run[j].pc = "idle"
  BY DEF Init, Idle
<1>2. Astray = {} /\ \A p : Texting(p, "text") = {} /\ Texting(p, "log") = {}
  BY <1>1 DEF Astray, Texting, At, Job
<1>3. IsFiniteSet(Astray) /\ Cardinality(Astray) = 0 /\ Cardinality({}) = 0
  BY <1>2, FS_EmptySet
<1>4. ASSUME NEW p \in Parent PROVE TextPaid(p)
  <2>1. texts[p] = 0 /\ logged[p] = 0 /\ faults = 0 /\ SMS_DAILY_LIMIT \in Nat /\ Cardinality(Desk) \in Nat
    BY TextTyped DEF Init
  <2>2. Texting(p, "text") = {} /\ Texting(p, "log") = {}
    BY <1>2
  <2>3. Cardinality(Texting(p, "text")) = 0 /\ Cardinality(Texting(p, "log")) = 0
    BY <2>2, FS_EmptySet
  <2> QED
    BY <1>3, <2>1, <2>3 DEF TextPaid
<1> QED
  BY <1>3, <1>4 DEF TextsOK

\* Every step keeps the account of texts.
LEMMA TextsStep == NoticesInv /\ NoticesInv' /\ TextsOK /\ [Next]_vars => TextsOK'
<1> SUFFICES ASSUME NoticesInv, NoticesInv', TextsOK, [Next]_vars PROVE TextsOK'
  OBVIOUS
<1>1. ASSUME NEW j \in Job, TellStep(j) PROVE TextsOK'
  <2>1. CASE Text(j)
    <3>1. (texts' = [texts EXCEPT ![Who(j)] = @ + 1] /\ Goto(j, "log")) \/ UNCHANGED texts
      BY <2>1 DEF Text
    <3> QED
      BY <2>1, <3>1, TellTexts, SentTexts
  <2> QED
    BY <1>1, <2>1, TellTexts, LimitTexts, SentTexts DEF TellStep
<1>2. ASSUME NEW w \in Replica, Tick(w) \/ WorkStep(w) PROVE TextsOK'
  BY <1>1, <1>2, TurnTexts, TellTexts DEF WorkStep, Job
<1>3. ASSUME NEW d \in Desk, RemindNow(d) \/ RemindWeekly(d) \/ TellStep(d) \/ EndReminders(d) PROVE TextsOK'
  BY <1>1, <1>3, TurnTexts DEF Job
<1>4. ASSUME NEW j \in Job, Throw(j) \/ AnswerLost(j) \/ Crash(j) PROVE TextsOK'
  BY <1>4, TellTexts, SentTexts, TurnTexts
<1> QED
  BY <1>2, <1>3, <1>4, WorldTexts DEF Next

\* The account of the texts of every parent: sent, logged, and about to be either.
THEOREM TextsArePaid == SafeSpec => [](NoticesInv /\ TextsOK)
<1>1. Init => NoticesInv /\ TextsOK
  BY NoticesStart, TextsStart
<1>2. NoticesInv /\ TextsOK /\ [Next]_vars => (NoticesInv /\ TextsOK)'
  BY NoticesStep, TextsStep
<1> QED
  BY <1>1, <1>2, PTL DEF SafeSpec

(***************************************************************************)
(* What a parent can get beyond the limit of texts a day is, for any limit *)
(* and any number of replicas, reminder runs and parents, one text for     *)
(* every run of the reminders and one for every fault.                     *)
(***************************************************************************)
THEOREM LimitHolds == SafeSpec => []TextsWithinLimit
<1>1. NoticesInv /\ TextsOK => TextsWithinLimit
  <2> SUFFICES ASSUME NoticesInv, TextsOK, NEW p \in Parent
               PROVE  texts[p] <= SMS_DAILY_LIMIT + Cardinality(Desk) + faults
    BY DEF TextsWithinLimit
  <2>1. texts[p] + Cardinality(Texting(p, "text")) <= SMS_DAILY_LIMIT + Cardinality(Desk) + faults
    BY DEF TextsOK, TextPaid
  <2>2. Cardinality(Texting(p, "text")) \in Nat
    BY FewText DEF TextsOK
  <2> QED
    BY <2>1, <2>2, TextTyped
<1> QED
  BY <1>1, TextsArePaid, PTL
=============================================================================
