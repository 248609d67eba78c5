-------------------------- MODULE SchoolGateProofs --------------------------
(***************************************************************************)
(* Proofs about SchoolGate for any cache time, margin and query time below *)
(* it, and any schools, processes and requests. A copy that says "active"  *)
(* was read while the school was, and expires TTL after it was stored, a   *)
(* query later at most; the script wakes TTL and the margin after the      *)
(* school was last active, which is later.                                 *)
(***************************************************************************)
EXTENDS SchoolGate, WellFoundedInduction, TLAPS

\* A copy that lets someone in has not expired, and is one query and TTL younger than the activity.
CopiesExpire ==
    \A w \in Replica, s \in School : Admits(w, s) =>
        /\ now <= cache[w][s].until
        /\ cache[w][s].until <= LastActive(s) + FETCH + TTL

\* A query under way is younger than FETCH, and what it read was so when it started.
ReadsAreRecent ==
    \A r \in Request : req[r].pc = "fetching" =>
        /\ now <= req[r].since + FETCH
        /\ req[r].says = "active" => req[r].since <= LastActive(req[r].school)

PastIsPast == \A s \in School : lastActive[s] <= now

\* The schools that stayed suspended: the script's wait counts from after their last activity.
WaitOutlasts ==
    /\ \A s \in stayed : school[s] # "active"
    /\ \A s \in stayed \cap script.todo : lastActive[s] + deletionWaitSeconds <= script.wake
    /\ script.pc \in {"supabase", "database"} => script.wake <= now
    /\ \A s \in stayed : school[s] = "gone" => lastActive[s] + deletionWaitSeconds <= now

GateInv == GateTypeOK /\ CopiesExpire /\ ReadsAreRecent /\ PastIsPast /\ WaitOutlasts

-----------------------------------------------------------------------------
LEMMA LeastExists ==
    ASSUME NEW T \in SUBSET Nat, T # {}
    PROVE  \E x \in T : \A y \in T : x <= y
<1> DEFINE R == OpToRel(<, Nat)
<1>1. IsWellFoundedOn(R, Nat)
  BY NatLessThanWellFounded, Zenon
<1>2. \A x, y \in T : y < x => <<y, x>> \in R
  BY Zenon DEF OpToRel
<1> HIDE DEF R
<1>3. \E x \in T : \A y \in T : ~ (<<y, x>> \in R)
  BY <1>1, WFMin, Zenon
<1>4. PICK x \in T : \A y \in T : ~ (<<y, x>> \in R)
  BY <1>3
<1>5. \A y \in T : ~ (y < x)
  BY <1>2, <1>4, Zenon
<1>6. x \in Nat /\ \A y \in T : y \in Nat
  OBVIOUS
<1> QED BY <1>5, <1>6

\* The school whose turn it is is one of the run's.
LEMMA TurnIsTarget ==
    ASSUME script.todo \subseteq School, script.todo # {}
    PROVE  Turn \in script.todo
<1>1. \E s \in script.todo : \A t \in script.todo : s <= t
  BY LeastExists, SchoolAssumption
<1> QED BY <1>1 DEF Turn

\* A value of one of the two request types, by its program counter.
LEMMA RequestFields ==
    ASSUME NEW q \in {Away} \cup Fetching
    PROVE  /\ q.pc = "fetching" <=> q # Away
           /\ q # Away => /\ q.at \in Replica /\ q.school \in School
                          /\ q.says \in Status /\ q.since \in Nat
BY DEF Away, Fetching

LEMMA AdminFields ==
    ASSUME NEW q \in {Away} \cup Deciding, q # Away
    PROVE  q.at \in Replica /\ q.school \in School /\ q.to \in {"active", "suspended"}
BY DEF Away, Deciding

LEMMA RunFields ==
    ASSUME NEW t \in ScriptRun
    PROVE  /\ t.pc \in {"quiet", "waiting", "supabase", "database"} /\ t.todo \subseteq School
           /\ t.wake \in Nat /\ t.supabase \in BOOLEAN
           /\ \A p \in {"quiet", "waiting", "supabase", "database"} : [t EXCEPT !.pc = p] \in ScriptRun
BY DEF ScriptRun

LEMMA CopyFields ==
    ASSUME NEW c \in Copy
    PROVE  c.says \in Status \cup {"nothing"} /\ c.until \in Nat
BY DEF Copy

LEMMA NothingIsCopy == Nothing \in Copy /\ Nothing.says # "active"
BY DEF Nothing, Copy

LEMMA QuietIsRun == Quiet \in ScriptRun /\ Quiet.pc = "quiet" /\ Quiet.todo = {}
BY DEF Quiet, ScriptRun

-----------------------------------------------------------------------------
LEMMA GateStarts == Init => GateInv
<1> SUFFICES ASSUME Init PROVE GateInv
  OBVIOUS
<1>1. GateTypeOK
  BY NothingIsCopy, QuietIsRun DEF Init, GateTypeOK, Status
<1>2. CopiesExpire
  BY NothingIsCopy DEF Init, CopiesExpire, Admits
<1>3. ReadsAreRecent
  BY DEF Init, ReadsAreRecent, Away
<1>4. PastIsPast /\ WaitOutlasts
  BY QuietIsRun DEF Init, PastIsPast, WaitOutlasts
<1> QED BY <1>1, <1>2, <1>3, <1>4 DEF GateInv

\* What a step that leaves rows and clock alone does to the last activity: nothing.
LEMMA FetchKeeps ==
    ASSUME GateInv, NEW r \in Request, NEW w \in Replica, NEW s \in School, Fetch(r, w, s)
    PROVE  GateInv'
<1> DEFINE q == [pc |-> "fetching", at |-> w, school |-> s, says |-> school[s], since |-> now]
<1>1. /\ req' = [req EXCEPT ![r] = q]
      /\ now' = now /\ school' = school /\ lastActive' = lastActive /\ stayed' = stayed
      /\ cache' = cache /\ admin' = admin /\ script' = script /\ logins' = logins
  BY DEF Fetch, rows
<1>2. now \in Nat /\ school \in [School -> Status] /\ req \in [Request -> {Away} \cup Fetching]
  BY DEF GateInv, GateTypeOK
<1>3. q \in Fetching /\ q.pc = "fetching" /\ q.since = now /\ q.says = school[s] /\ q.school = s
  BY <1>2 DEF Fetching
<1> HIDE DEF q
<1>4. GateTypeOK'
  BY <1>1, <1>2, <1>3 DEF GateInv, GateTypeOK
<1>5. CopiesExpire' /\ PastIsPast' /\ WaitOutlasts'
  BY <1>1 DEF GateInv, CopiesExpire, PastIsPast, WaitOutlasts, Admits, LastActive
<1>6. ReadsAreRecent'
  <2> SUFFICES ASSUME NEW p \in Request, (req[p].pc = "fetching")'
               PROVE  (/\ now <= req[p].since + FETCH
                       /\ req[p].says = "active" => req[p].since <= LastActive(req[p].school))'
    BY DEF ReadsAreRecent
  <2>1. CASE p = r
    <3>1. req'[p] = q
      BY <1>1, <1>2, <2>1
    <3>2. q.says = "active" => LastActive(s) = now
      BY <1>3 DEF LastActive
    <3>3. now <= now + FETCH
      BY <1>2, TimeAssumption
    <3> QED BY <1>1, <1>2, <1>3, <3>1, <3>2, <3>3 DEF LastActive
  <2>2. CASE p # r
    <3>1. req'[p] = req[p]
      BY <1>1, <1>2, <2>2
    <3> QED BY <1>1, <3>1 DEF GateInv, ReadsAreRecent, LastActive
  <2> QED BY <2>1, <2>2
<1> QED BY <1>4, <1>5, <1>6 DEF GateInv

LEMMA StoreKeeps ==
    ASSUME GateInv, NEW r \in Request, Store(r)
    PROVE  GateInv'
<1> DEFINE q == req[r]
           c == [says |-> q.says, until |-> now + TTL]
<1>1. /\ q.pc = "fetching" /\ cache' = [cache EXCEPT ![q.at][q.school] = c]
      /\ req' = [req EXCEPT ![r] = Away]
      /\ now' = now /\ school' = school /\ lastActive' = lastActive /\ stayed' = stayed
      /\ admin' = admin /\ script' = script /\ logins' = logins
  BY DEF Store, rows
<1>2. /\ now \in Nat /\ req \in [Request -> {Away} \cup Fetching] /\ school \in [School -> Status]
      /\ cache \in [Replica -> [School -> Copy]] /\ lastActive \in [School -> Nat]
  BY DEF GateInv, GateTypeOK
<1>3. /\ q.at \in Replica /\ q.school \in School /\ q.says \in Status /\ q.since \in Nat
  BY <1>1, <1>2, RequestFields
<1>4. c \in Copy /\ c.says = q.says /\ c.until = now + TTL
  BY <1>2, <1>3, TimeAssumption DEF Copy
<1>5. /\ now <= q.since + FETCH
      /\ q.says = "active" => q.since <= LastActive(q.school)
  BY <1>1 DEF GateInv, ReadsAreRecent
<1>6. LastActive(q.school) \in Nat
  BY <1>2, <1>3 DEF LastActive
<1> HIDE DEF q, c
<1>7. GateTypeOK'
  <2>1. cache' \in [Replica -> [School -> Copy]]
    BY <1>1, <1>2, <1>3, <1>4
  <2>2. req' \in [Request -> {Away} \cup Fetching]
    BY <1>1, <1>2
  <2> QED BY <1>1, <2>1, <2>2 DEF GateInv, GateTypeOK
<1>8. CopiesExpire'
  <2> SUFFICES ASSUME NEW w \in Replica, NEW s \in School, Admits(w, s)'
               PROVE  (now <= cache[w][s].until /\ cache[w][s].until <= LastActive(s) + FETCH + TTL)'
    BY DEF CopiesExpire
  <2>0. LastActive(s)' = LastActive(s)
    BY <1>1 DEF LastActive
  <2>1. CASE w = q.at /\ s = q.school
    <3>1. cache'[w][s] = c
      BY <1>1, <1>2, <1>3, <2>1
    <3>2. q.says = "active"
      BY <1>4, <3>1 DEF Admits
    <3>3. now + TTL <= LastActive(s) + FETCH + TTL
      BY <1>2, <1>3, <1>5, <1>6, <2>1, <3>2, TimeAssumption
    <3> QED BY <1>1, <1>2, <1>4, <2>0, <3>1, <3>3, TimeAssumption
  <2>2. CASE ~ (w = q.at /\ s = q.school)
    <3>1. cache'[w][s] = cache[w][s]
      BY <1>1, <1>2, <2>2
    <3> QED BY <1>1, <2>0, <3>1 DEF GateInv, CopiesExpire, Admits
  <2> QED BY <2>1, <2>2
<1>9. ReadsAreRecent'
  <2> SUFFICES ASSUME NEW p \in Request, (req[p].pc = "fetching")'
               PROVE  (/\ now <= req[p].since + FETCH
                       /\ req[p].says = "active" => req[p].since <= LastActive(req[p].school))'
    BY DEF ReadsAreRecent
  <2>1. req'[p] = req[p]
    BY <1>1, <1>2 DEF Away
  <2> QED BY <1>1, <2>1 DEF GateInv, ReadsAreRecent, LastActive
<1>10. PastIsPast' /\ WaitOutlasts'
  BY <1>1 DEF GateInv, PastIsPast, WaitOutlasts
<1> QED BY <1>7, <1>8, <1>9, <1>10 DEF GateInv

LEMMA FetchFailsKeeps ==
    ASSUME GateInv, NEW r \in Request, FetchFails(r)
    PROVE  GateInv'
<1>1. /\ req' = [req EXCEPT ![r] = Away]
      /\ now' = now /\ school' = school /\ lastActive' = lastActive /\ stayed' = stayed
      /\ cache' = cache /\ admin' = admin /\ script' = script /\ logins' = logins
  BY DEF FetchFails, rows
<1>2. req \in [Request -> {Away} \cup Fetching]
  BY DEF GateInv, GateTypeOK
<1>3. GateTypeOK'
  BY <1>1, <1>2 DEF GateInv, GateTypeOK
<1>4. \A p \in Request : req'[p].pc = "fetching" => req'[p] = req[p]
  BY <1>1, <1>2 DEF Away
<1>5. ReadsAreRecent'
  BY <1>1, <1>4 DEF GateInv, ReadsAreRecent, LastActive
<1>6. CopiesExpire' /\ PastIsPast' /\ WaitOutlasts'
  BY <1>1 DEF GateInv, CopiesExpire, PastIsPast, WaitOutlasts, Admits, LastActive
<1> QED BY <1>3, <1>5, <1>6 DEF GateInv

LEMMA RestartKeeps ==
    ASSUME GateInv, NEW w \in Replica, Restart(w)
    PROVE  GateInv'
<1>1. /\ cache' = [cache EXCEPT ![w] = [s \in School |-> Nothing]]
      /\ req' = [r \in Request |-> IF req[r] # Away /\ req[r].at = w THEN Away ELSE req[r]]
      /\ admin' = [a \in Admin |-> IF admin[a] # Away /\ admin[a].at = w THEN Away ELSE admin[a]]
      /\ now' = now /\ school' = school /\ lastActive' = lastActive /\ stayed' = stayed
      /\ script' = script /\ logins' = logins
  BY DEF Restart, rows
<1>2. /\ req \in [Request -> {Away} \cup Fetching] /\ admin \in [Admin -> {Away} \cup Deciding]
      /\ cache \in [Replica -> [School -> Copy]]
  BY DEF GateInv, GateTypeOK
<1>3. GateTypeOK'
  <2>1. req' \in [Request -> {Away} \cup Fetching] /\ admin' \in [Admin -> {Away} \cup Deciding]
    BY <1>1, <1>2
  <2>2. cache' \in [Replica -> [School -> Copy]]
    BY <1>1, <1>2, NothingIsCopy
  <2> QED BY <1>1, <2>1, <2>2 DEF GateInv, GateTypeOK
<1>4. \A p \in Request : req'[p].pc = "fetching" => req'[p] = req[p]
  BY <1>1, <1>2 DEF Away
<1>5. ReadsAreRecent'
  BY <1>1, <1>4 DEF GateInv, ReadsAreRecent, LastActive
<1>6. \A v \in Replica, s \in School : cache'[v][s] = Nothing \/ cache'[v][s] = cache[v][s]
  BY <1>1, <1>2
<1>7. CopiesExpire'
  BY <1>1, <1>6, NothingIsCopy DEF GateInv, CopiesExpire, Admits, LastActive
<1>8. PastIsPast' /\ WaitOutlasts'
  BY <1>1 DEF GateInv, PastIsPast, WaitOutlasts
<1> QED BY <1>3, <1>5, <1>7, <1>8 DEF GateInv

-----------------------------------------------------------------------------
LEMMA CheckKeeps ==
    ASSUME GateInv, NEW a \in Admin, NEW w \in Replica, NEW s \in School, NEW to \in {"active", "suspended"},
           Check(a, w, s, to)
    PROVE  GateInv'
<1>1. /\ admin' = [admin EXCEPT ![a] = [pc |-> "checked", at |-> w, school |-> s, to |-> to]]
      /\ now' = now /\ school' = school /\ lastActive' = lastActive /\ stayed' = stayed
      /\ cache' = cache /\ req' = req /\ script' = script /\ logins' = logins
  BY DEF Check, rows
<1>2. [pc |-> "checked", at |-> w, school |-> s, to |-> to] \in Deciding
  BY DEF Deciding
<1>3. GateTypeOK'
  BY <1>1, <1>2 DEF GateInv, GateTypeOK
<1>4. CopiesExpire' /\ ReadsAreRecent' /\ PastIsPast' /\ WaitOutlasts'
  BY <1>1 DEF GateInv, CopiesExpire, ReadsAreRecent, PastIsPast, WaitOutlasts, Admits, LastActive
<1> QED BY <1>3, <1>4 DEF GateInv

\* Rows that change as Becomes and Suspend change them: the last activity never moves back, and
\* a row that is no longer active was so until now.
Forward ==
    /\ school' \in [School -> Status] /\ lastActive' \in [School -> Nat]
    /\ \A s \in School : LastActive(s)' >= LastActive(s) /\ lastActive'[s] <= now

LEMMA ForwardKeeps ==
    ASSUME GateInv, Forward, now' = now, UNCHANGED <<cache, req>>
    PROVE  CopiesExpire' /\ ReadsAreRecent' /\ PastIsPast'
<1>1. /\ now \in Nat /\ cache \in [Replica -> [School -> Copy]] /\ req \in [Request -> {Away} \cup Fetching]
      /\ school \in [School -> Status] /\ lastActive \in [School -> Nat]
  BY DEF GateInv, GateTypeOK
<1>2. \A s \in School : LastActive(s) \in Nat /\ LastActive(s)' \in Nat /\ LastActive(s)' >= LastActive(s)
  BY <1>1 DEF Forward, LastActive
<1>3. CopiesExpire'
  <2> SUFFICES ASSUME NEW w \in Replica, NEW s \in School, Admits(w, s)'
               PROVE  (now <= cache[w][s].until /\ cache[w][s].until <= LastActive(s) + FETCH + TTL)'
    BY DEF CopiesExpire
  <2>1. now <= cache[w][s].until /\ cache[w][s].until <= LastActive(s) + FETCH + TTL
    BY DEF GateInv, CopiesExpire, Admits
  <2>2. cache[w][s] \in Copy
    BY <1>1
  <2>3. cache[w][s].until \in Nat
    BY <2>2, CopyFields
  <2>4. cache[w][s].until <= LastActive(s)' + FETCH + TTL
    BY <1>2, <2>1, <2>3, TimeAssumption
  <2> QED BY <2>1, <2>4
<1>4. ReadsAreRecent'
  <2> SUFFICES ASSUME NEW r \in Request, (req[r].pc = "fetching")'
               PROVE  (/\ now <= req[r].since + FETCH
                       /\ req[r].says = "active" => req[r].since <= LastActive(req[r].school))'
    BY DEF ReadsAreRecent
  <2>1. req[r].pc = "fetching"
    OBVIOUS
  <2>2. req[r].school \in School /\ req[r].since \in Nat
    BY <1>1, <2>1, RequestFields
  <2>3. now <= req[r].since + FETCH /\ (req[r].says = "active" => req[r].since <= LastActive(req[r].school))
    BY <2>1 DEF GateInv, ReadsAreRecent
  <2>4. req[r].says = "active" => req[r].since <= LastActive(req[r].school)'
    BY <1>2, <2>2, <2>3
  <2> QED BY <2>3, <2>4
<1>5. PastIsPast'
  BY DEF Forward, PastIsPast
<1> QED BY <1>3, <1>4, <1>5

LEMMA WriteKeeps ==
    ASSUME GateInv, NEW a \in Admin, Write(a)
    PROVE  GateInv'
<1> DEFINE s == admin[a].school
           to == admin[a].to
<1>1. /\ admin[a] # Away /\ admin[a].pc = "checked"
      /\ admin' = [admin EXCEPT ![a].pc = "written"]
      /\ school' = [school EXCEPT ![s] = IF school[s] = "gone" THEN school[s] ELSE to]
      /\ lastActive' = [lastActive EXCEPT ![s] = IF school[s] = "active" THEN now ELSE lastActive[s]]
      /\ stayed' = IF to = "active" /\ school[s] # "gone" THEN stayed \ {s} ELSE stayed
      /\ now' = now /\ cache' = cache /\ req' = req /\ script' = script /\ logins' = logins
  BY DEF Write, Becomes
<1>2. /\ now \in Nat /\ school \in [School -> Status] /\ lastActive \in [School -> Nat]
      /\ admin \in [Admin -> {Away} \cup Deciding] /\ stayed \subseteq School
  BY DEF GateInv, GateTypeOK
<1>3. s \in School /\ to \in {"active", "suspended"}
  BY <1>1, <1>2, AdminFields
<1>4. [admin[a] EXCEPT !.pc = "written"] \in Deciding
  <2>1. admin[a] \in Deciding
    BY <1>1, <1>2
  <2> QED BY <2>1 DEF Deciding
<1> HIDE DEF s, to
<1>5. Forward
  <2>1. school' \in [School -> Status] /\ lastActive' \in [School -> Nat]
    BY <1>1, <1>2, <1>3 DEF Status
  <2>2. \A t \in School : lastActive[t] <= now
    BY DEF GateInv, PastIsPast
  <2>3. ASSUME NEW t \in School PROVE LastActive(t)' >= LastActive(t) /\ lastActive'[t] <= now
    <3>1. CASE t # s
      <4>1. school'[t] = school[t] /\ lastActive'[t] = lastActive[t]
        BY <1>1, <1>2, <3>1
      <4> QED BY <1>1, <1>2, <2>2, <4>1 DEF LastActive
    <3>2. CASE t = s
      <4>1. lastActive'[t] = IF school[t] = "active" THEN now ELSE lastActive[t]
        BY <1>1, <1>2, <3>2
      <4> QED BY <1>1, <1>2, <2>2, <4>1 DEF LastActive
    <3> QED BY <3>1, <3>2
  <2> QED BY <2>1, <2>3 DEF Forward
<1>6. GateTypeOK'
  BY <1>1, <1>2, <1>4, <1>5 DEF GateInv, GateTypeOK, Forward
<1>7. CopiesExpire' /\ ReadsAreRecent' /\ PastIsPast'
  BY <1>1, <1>5, ForwardKeeps
<1>8. \A t \in stayed' : school[t] # "active" /\ t \in stayed /\ school'[t] # "active" /\ lastActive'[t] = lastActive[t]
                         /\ (school'[t] = "gone" => school[t] = "gone")
  BY <1>1, <1>2, <1>3 DEF GateInv, WaitOutlasts
<1>9. WaitOutlasts'
  BY <1>1, <1>8 DEF GateInv, WaitOutlasts, deletionWaitSeconds
<1> QED BY <1>6, <1>7, <1>9 DEF GateInv

LEMMA DropKeyKeeps ==
    ASSUME GateInv, NEW a \in Admin, DropKey(a)
    PROVE  GateInv'
<1>1. /\ admin[a] # Away
      /\ cache' = [cache EXCEPT ![admin[a].at][admin[a].school] = Nothing]
      /\ admin' = [admin EXCEPT ![a] = Away]
      /\ now' = now /\ school' = school /\ lastActive' = lastActive /\ stayed' = stayed
      /\ req' = req /\ script' = script /\ logins' = logins
  BY DEF DropKey, rows
<1>2. admin \in [Admin -> {Away} \cup Deciding] /\ cache \in [Replica -> [School -> Copy]]
  BY DEF GateInv, GateTypeOK
<1>3. cache' \in [Replica -> [School -> Copy]] /\ admin' \in [Admin -> {Away} \cup Deciding]
  BY <1>1, <1>2, NothingIsCopy
<1>4. GateTypeOK'
  BY <1>1, <1>3 DEF GateInv, GateTypeOK
<1>5. \A v \in Replica, s \in School : cache'[v][s] = Nothing \/ cache'[v][s] = cache[v][s]
  BY <1>1, <1>2
<1>6. CopiesExpire'
  BY <1>1, <1>5, NothingIsCopy DEF GateInv, CopiesExpire, Admits, LastActive
<1>7. ReadsAreRecent' /\ PastIsPast' /\ WaitOutlasts'
  BY <1>1 DEF GateInv, ReadsAreRecent, PastIsPast, WaitOutlasts, LastActive
<1> QED BY <1>4, <1>6, <1>7 DEF GateInv

-----------------------------------------------------------------------------
LEMMA SuspendKeeps ==
    ASSUME GateInv, NEW targets \in SUBSET School, NEW supabase \in BOOLEAN, Suspend(targets, supabase)
    PROVE  GateInv'
<1> DEFINE t == [pc |-> "waiting", todo |-> targets, wake |-> now + deletionWaitSeconds, supabase |-> supabase]
<1>1. /\ targets # {} /\ \A s \in targets : school[s] # "gone"
      /\ school' = [s \in School |-> IF s \in targets THEN "suspended" ELSE school[s]]
      /\ lastActive' = [s \in School |-> IF s \in targets /\ school[s] = "active" THEN now ELSE lastActive[s]]
      /\ stayed' = stayed \cup targets /\ script' = t
      /\ now' = now /\ cache' = cache /\ req' = req /\ admin' = admin /\ logins' = logins
  BY DEF Suspend
<1>2. /\ now \in Nat /\ school \in [School -> Status] /\ lastActive \in [School -> Nat] /\ stayed \subseteq School
  BY DEF GateInv, GateTypeOK
<1>3. deletionWaitSeconds \in Nat
  BY TimeAssumption DEF deletionWaitSeconds
<1>4. t \in ScriptRun /\ t.pc = "waiting" /\ t.todo = targets /\ t.wake = now + deletionWaitSeconds
  BY <1>2, <1>3 DEF ScriptRun
<1> HIDE DEF t
<1>5. \A s \in School : lastActive[s] \in Nat /\ lastActive[s] <= now
  BY <1>2 DEF GateInv, PastIsPast
<1>6. Forward
  <2>1. school' \in [School -> Status] /\ lastActive' \in [School -> Nat]
    BY <1>1, <1>2 DEF Status
  <2>2. \A s \in School : LastActive(s)' >= LastActive(s) /\ lastActive'[s] <= now
    BY <1>1, <1>2, <1>5 DEF LastActive
  <2> QED BY <2>1, <2>2 DEF Forward
<1>7. GateTypeOK'
  BY <1>1, <1>2, <1>4, <1>6 DEF GateInv, GateTypeOK, Forward
<1>8. CopiesExpire' /\ ReadsAreRecent' /\ PastIsPast'
  BY <1>1, <1>6, ForwardKeeps
<1>9. WaitOutlasts'
  <2>1. \A s \in stayed' : school'[s] # "active"
    BY <1>1, <1>2 DEF GateInv, WaitOutlasts
  <2>2. \A s \in targets : lastActive'[s] + deletionWaitSeconds <= now + deletionWaitSeconds
    BY <1>1, <1>2, <1>3, <1>5
  <2>3. \A s \in stayed' : school'[s] = "gone" => lastActive'[s] + deletionWaitSeconds <= now
    BY <1>1, <1>2 DEF GateInv, WaitOutlasts
  <2> QED BY <1>1, <1>4, <2>1, <2>2, <2>3 DEF WaitOutlasts, deletionWaitSeconds
<1> QED BY <1>7, <1>8, <1>9 DEF GateInv

\* A step of the script that leaves the rows, the clock and the processes alone keeps the rest.
LEMMA ScriptOnlyKeeps ==
    ASSUME GateInv, now' = now, UNCHANGED <<rows, cache, req, admin>>
    PROVE  CopiesExpire' /\ ReadsAreRecent' /\ PastIsPast'
BY DEF GateInv, rows, CopiesExpire, ReadsAreRecent, PastIsPast, Admits, LastActive

LEMMA WakeKeeps == GateInv /\ Wake => GateInv'
<1> SUFFICES ASSUME GateInv, Wake PROVE GateInv'
  OBVIOUS
<1>1. /\ script.pc = "waiting" /\ script.wake <= now /\ script' = [script EXCEPT !.pc = "supabase"]
      /\ now' = now /\ school' = school /\ lastActive' = lastActive /\ stayed' = stayed
      /\ cache' = cache /\ req' = req /\ admin' = admin /\ logins' = logins
  BY DEF Wake, rows
<1>2. script \in ScriptRun
  BY DEF GateInv, GateTypeOK
<1>3. /\ script' \in ScriptRun /\ script'.pc = "supabase"
      /\ script'.todo = script.todo /\ script'.wake = script.wake
  BY <1>1, <1>2 DEF ScriptRun
<1>4. GateTypeOK'
  BY <1>1, <1>3 DEF GateInv, GateTypeOK
<1>5. CopiesExpire' /\ ReadsAreRecent' /\ PastIsPast'
  BY <1>1, ScriptOnlyKeeps DEF rows
<1>6. WaitOutlasts'
  BY <1>1, <1>3 DEF GateInv, WaitOutlasts, deletionWaitSeconds
<1> QED BY <1>4, <1>5, <1>6 DEF GateInv

LEMMA SupabaseStepKeeps == GateInv /\ SupabaseStep => GateInv'
<1> SUFFICES ASSUME GateInv, SupabaseStep PROVE GateInv'
  OBVIOUS
<1>1. /\ script.pc = "supabase" /\ script' = [script EXCEPT !.pc = "database"]
      /\ (logins' = logins \ {Turn} \/ logins' = logins)
      /\ now' = now /\ school' = school /\ lastActive' = lastActive /\ stayed' = stayed
      /\ cache' = cache /\ req' = req /\ admin' = admin
  BY DEF SupabaseStep, rows
<1>2. script \in ScriptRun
  BY DEF GateInv, GateTypeOK
<1>3. /\ script' \in ScriptRun /\ script'.pc = "database"
      /\ script'.todo = script.todo /\ script'.wake = script.wake
  BY <1>1, <1>2 DEF ScriptRun
<1>4. GateTypeOK'
  BY <1>1, <1>3 DEF GateInv, GateTypeOK
<1>5. CopiesExpire' /\ ReadsAreRecent' /\ PastIsPast'
  BY <1>1, ScriptOnlyKeeps DEF rows
<1>6. WaitOutlasts'
  BY <1>1, <1>3 DEF GateInv, WaitOutlasts, deletionWaitSeconds
<1> QED BY <1>4, <1>5, <1>6 DEF GateInv

LEMMA StopsKeeps == GateInv /\ ScriptStops => GateInv'
<1> SUFFICES ASSUME GateInv, ScriptStops PROVE GateInv'
  OBVIOUS
<1>1. /\ script' = Quiet
      /\ now' = now /\ school' = school /\ lastActive' = lastActive /\ stayed' = stayed
      /\ cache' = cache /\ req' = req /\ admin' = admin /\ logins' = logins
  BY DEF ScriptStops, rows
<1>2. GateTypeOK'
  BY <1>1, QuietIsRun DEF GateInv, GateTypeOK
<1>3. CopiesExpire' /\ ReadsAreRecent' /\ PastIsPast'
  BY <1>1, ScriptOnlyKeeps DEF rows
<1>4. WaitOutlasts'
  BY <1>1, QuietIsRun DEF GateInv, WaitOutlasts, deletionWaitSeconds
<1> QED BY <1>2, <1>3, <1>4 DEF GateInv

\* The run goes on with the schools left, or is over.
LEMMA OnwardRun ==
    ASSUME script \in ScriptRun
    PROVE  /\ Onward \in ScriptRun /\ Onward.todo \subseteq script.todo
           /\ (Onward.pc = "quiet") <=> (Onward.todo = {})
           /\ Onward.pc # "quiet" => Onward.wake = script.wake
<1>1. CASE script.todo \ {Turn} = {}
  BY <1>1, QuietIsRun DEF Onward
<1>2. CASE script.todo \ {Turn} # {}
  <2> DEFINE left == script.todo \ {Turn}
             t == [script EXCEPT !.pc = "supabase", !.todo = left]
  <2>1. Onward = t
    BY <1>2 DEF Onward
  <2>2. left \subseteq School /\ left \subseteq script.todo /\ left # {}
    BY <1>2 DEF ScriptRun
  <2> HIDE DEF left
  <2>3. t \in ScriptRun /\ t.pc = "supabase" /\ t.todo = left /\ t.wake = script.wake
    BY <2>2 DEF ScriptRun
  <2> QED BY <2>1, <2>2, <2>3
<1> QED BY <1>1, <1>2

LEMMA DeleteKeeps == GateInv /\ Delete => GateInv'
<1> SUFFICES ASSUME GateInv, Delete PROVE GateInv'
  OBVIOUS
<1>1. /\ script.pc = "database" /\ school[Turn] = "suspended"
      /\ school' = [school EXCEPT ![Turn] = "gone"] /\ script' = Onward
      /\ now' = now /\ lastActive' = lastActive /\ stayed' = stayed
      /\ cache' = cache /\ req' = req /\ admin' = admin /\ logins' = logins
  BY DEF Delete
<1>2. /\ now \in Nat /\ script \in ScriptRun /\ school \in [School -> Status] /\ lastActive \in [School -> Nat]
      /\ stayed \subseteq School /\ script.todo # {}
  BY <1>1 DEF GateInv, GateTypeOK
<1>3. Turn \in script.todo /\ Turn \in School
  BY <1>2, TurnIsTarget, RunFields
<1>4. /\ script' \in ScriptRun /\ script'.todo \subseteq script.todo
      /\ (script'.pc = "quiet") <=> (script'.todo = {})
      /\ script'.pc # "quiet" => script'.wake = script.wake
  BY <1>1, <1>2, OnwardRun
<1>5. \A s \in School : school'[s] = (IF s = Turn THEN "gone" ELSE school[s])
  BY <1>1, <1>2
<1>6. Forward
  <2>1. school' \in [School -> Status] /\ lastActive' \in [School -> Nat]
    BY <1>1, <1>2 DEF Status
  <2>2. \A s \in School : LastActive(s)' = LastActive(s) /\ lastActive'[s] <= now /\ LastActive(s) \in Nat
    BY <1>1, <1>2, <1>5 DEF LastActive, GateInv, PastIsPast
  <2> QED BY <2>1, <2>2 DEF Forward
<1>7. GateTypeOK'
  BY <1>1, <1>2, <1>4, <1>6 DEF GateInv, GateTypeOK, Forward
<1>8. CopiesExpire' /\ ReadsAreRecent' /\ PastIsPast'
  BY <1>1, <1>6, ForwardKeeps
<1>9. WaitOutlasts'
  <2>1. \A s \in stayed' : school'[s] # "active"
    BY <1>1, <1>2, <1>5 DEF GateInv, WaitOutlasts
  <2>2. script'.todo # {} => script'.wake = script.wake
    BY <1>4
  <2>3. \A s \in stayed \cap script.todo : lastActive[s] + deletionWaitSeconds <= script.wake
    BY DEF GateInv, WaitOutlasts
  <2>4. \A s \in stayed' \cap script'.todo : lastActive'[s] + deletionWaitSeconds <= script'.wake
    BY <1>1, <1>4, <2>2, <2>3
  <2>5. script.wake <= now
    BY <1>1 DEF GateInv, WaitOutlasts
  <2>6. script'.pc \in {"supabase", "database"} => script'.wake <= now
    BY <1>4, <2>5
  <2>7. ASSUME NEW s \in stayed', school'[s] = "gone" PROVE lastActive'[s] + deletionWaitSeconds <= now
    <3>0. script.wake \in Nat /\ deletionWaitSeconds \in Nat
      <4>1. script.wake \in Nat
        BY <1>2, RunFields
      <4> QED BY <4>1, TimeAssumption DEF deletionWaitSeconds
    <3>1. s \in School /\ lastActive[s] \in Nat /\ script.wake \in Nat /\ deletionWaitSeconds \in Nat
      BY <1>1, <1>2, <2>7, <3>0
    <3>2. CASE s = Turn
      <4>1. lastActive[s] + deletionWaitSeconds <= script.wake
        BY <1>1, <1>3, <2>3, <2>7, <3>2
      <4> QED BY <1>1, <1>2, <2>5, <3>1, <4>1
    <3>3. CASE s # Turn
      BY <1>1, <1>5, <2>7, <3>1, <3>3 DEF GateInv, WaitOutlasts
    <3> QED BY <3>2, <3>3
  <2> QED BY <1>1, <2>1, <2>4, <2>6, <2>7 DEF WaitOutlasts, deletionWaitSeconds
<1> QED BY <1>7, <1>8, <1>9 DEF GateInv

-----------------------------------------------------------------------------
LEMMA TickKeeps == GateInv /\ Tick => GateInv'
<1> SUFFICES ASSUME GateInv, Tick PROVE GateInv'
  OBVIOUS
<1>1. /\ \A r \in Request : req[r].pc = "fetching" => now < req[r].since + FETCH
      /\ now' = now + 1
      /\ cache' = [w \in Replica |-> [s \in School |-> Kept(cache[w][s], now + 1)]]
      /\ school' = school /\ lastActive' = lastActive /\ stayed' = stayed
      /\ req' = req /\ admin' = admin /\ script' = script /\ logins' = logins
  BY DEF Tick, rows
<1>2. /\ now \in Nat /\ cache \in [Replica -> [School -> Copy]] /\ req \in [Request -> {Away} \cup Fetching]
      /\ school \in [School -> Status] /\ lastActive \in [School -> Nat] /\ script \in ScriptRun
      /\ stayed \subseteq School
  BY DEF GateInv, GateTypeOK
<1>3. \A w \in Replica, s \in School :
         /\ cache[w][s] \in Copy
         /\ cache'[w][s] = (IF cache[w][s].until < now + 1 THEN Nothing ELSE cache[w][s])
  BY <1>1, <1>2 DEF Kept
<1>4. GateTypeOK'
  <2>1. cache' \in [Replica -> [School -> Copy]]
    BY <1>1, <1>2, <1>3, NothingIsCopy
  <2>2. now' \in Nat
    BY <1>1, <1>2
  <2> QED BY <1>1, <2>1, <2>2 DEF GateInv, GateTypeOK
<1>5. \A s \in School : LastActive(s) \in Nat /\ LastActive(s)' \in Nat /\ LastActive(s)' >= LastActive(s)
  BY <1>1, <1>2 DEF LastActive
<1>6. CopiesExpire'
  <2> SUFFICES ASSUME NEW w \in Replica, NEW s \in School, Admits(w, s)'
               PROVE  (now <= cache[w][s].until /\ cache[w][s].until <= LastActive(s) + FETCH + TTL)'
    BY DEF CopiesExpire
  <2>1. cache'[w][s] = cache[w][s] /\ ~ (cache[w][s].until < now + 1)
    BY <1>3, NothingIsCopy DEF Admits
  <2>2. cache[w][s].until \in Nat
    BY <1>3, CopyFields
  <2>3. cache[w][s].until <= LastActive(s) + FETCH + TTL
    BY <2>1 DEF GateInv, CopiesExpire, Admits
  <2>4. cache[w][s].until <= LastActive(s)' + FETCH + TTL
    BY <1>5, <2>2, <2>3, TimeAssumption
  <2> QED BY <1>1, <1>2, <2>1, <2>2, <2>4
<1>7. ReadsAreRecent'
  <2> SUFFICES ASSUME NEW r \in Request, (req[r].pc = "fetching")'
               PROVE  (/\ now <= req[r].since + FETCH
                       /\ req[r].says = "active" => req[r].since <= LastActive(req[r].school))'
    BY DEF ReadsAreRecent
  <2>1. req[r].pc = "fetching"
    BY <1>1
  <2>2. req[r].school \in School /\ req[r].since \in Nat
    BY <1>2, <2>1, RequestFields
  <2>3. now < req[r].since + FETCH /\ (req[r].says = "active" => req[r].since <= LastActive(req[r].school))
    BY <1>1, <2>1 DEF GateInv, ReadsAreRecent
  <2>4. now + 1 <= req[r].since + FETCH
    BY <1>2, <2>2, <2>3, TimeAssumption
  <2>5. LastActive(req[r].school) \in Nat /\ LastActive(req[r].school)' \in Nat
        /\ LastActive(req[r].school)' >= LastActive(req[r].school)
    BY <1>1, <1>5, <2>2
  <2>6. req[r].says = "active" => req[r].since <= LastActive(req[r].school)'
    BY <2>2, <2>3, <2>5
  <2> QED BY <1>1, <2>4, <2>6
<1>8. PastIsPast'
  <2>1. \A s \in School : lastActive[s] <= now /\ lastActive[s] \in Nat
    BY <1>2 DEF GateInv, PastIsPast
  <2> QED BY <1>1, <1>2, <2>1 DEF PastIsPast
<1>9. WaitOutlasts'
  <2>0. script.wake \in Nat
    BY <1>2, RunFields
  <2>1. deletionWaitSeconds \in Nat /\ script.wake \in Nat /\ \A s \in stayed : lastActive[s] \in Nat
    BY <1>2, <2>0, TimeAssumption DEF deletionWaitSeconds
  <2>2. script.wake <= now => script.wake <= now + 1
    BY <1>2, <2>1
  <2>3. \A s \in stayed : lastActive[s] + deletionWaitSeconds <= now => lastActive[s] + deletionWaitSeconds <= now + 1
    BY <1>2, <2>1
  <2> QED BY <1>1, <2>2, <2>3 DEF GateInv, WaitOutlasts, deletionWaitSeconds
<1> QED BY <1>4, <1>6, <1>7, <1>8, <1>9 DEF GateInv

LEMMA GateStutters == GateInv /\ UNCHANGED vars => GateInv'
BY DEF GateInv, GateTypeOK, CopiesExpire, ReadsAreRecent, PastIsPast, WaitOutlasts, Admits, LastActive,
       deletionWaitSeconds, vars

\* The inductive invariant of the gate (`cacheService.ts`) and the deletion script: how long a copy lives, how old a
\* query is, and that a script past its wait has outlasted all that was read before the suspension.
THEOREM GateInvHolds == GateSpec => []GateInv
<1>1. GateInv /\ [GateNext]_vars => GateInv'
  <2> SUFFICES ASSUME GateInv, [GateNext]_vars PROVE GateInv'
    OBVIOUS
  <2>1. CASE \E r \in Request : RequestStep(r)
    BY <2>1, FetchKeeps, StoreKeeps, FetchFailsKeeps DEF RequestStep
  <2>2. CASE \E a \in Admin : AdminStep(a)
    BY <2>2, CheckKeeps, WriteKeeps, DropKeyKeeps DEF AdminStep
  <2>3. CASE ScriptStep
    BY <2>3, SuspendKeeps, WakeKeeps, SupabaseStepKeeps, DeleteKeeps, StopsKeeps DEF ScriptStep
  <2>4. CASE \E w \in Replica : Restart(w)
    BY <2>4, RestartKeeps
  <2>5. CASE Tick
    BY <2>5, TickKeeps
  <2>6. CASE UNCHANGED vars
    BY <2>6, GateStutters
  <2> QED BY <2>1, <2>2, <2>3, <2>4, <2>5, <2>6 DEF GateNext
<1> QED BY GateStarts, <1>1, PTL DEF GateSpec

\* Every variable keeps its type, for any schools, processes and times.
THEOREM GateTypeCorrect == GateSpec => []GateTypeOK
<1>1. GateInv => GateTypeOK
  BY DEF GateInv
<1> QED BY <1>1, GateInvHolds, PTL

\* No process admits anyone later than TTL and one query after the school was last active.
THEOREM StalenessIsBounded == GateSpec => []StaleWithinCacheTime
<1>1. GateInv => StaleWithinCacheTime
  <2> SUFFICES ASSUME GateInv, NEW w \in Replica, NEW s \in School, Admits(w, s)
               PROVE  now <= LastActive(s) + FETCH + TTL
    BY DEF StaleWithinCacheTime
  <2>1. now \in Nat /\ cache[w][s] \in Copy /\ LastActive(s) \in Nat
    BY DEF GateInv, GateTypeOK, LastActive
  <2>2. now <= cache[w][s].until /\ cache[w][s].until <= LastActive(s) + FETCH + TTL
    BY DEF GateInv, CopiesExpire
  <2> QED BY <2>1, <2>2, CopyFields, TimeAssumption
<1> QED BY <1>1, GateInvHolds, PTL

\* The script's wait outlasts every copy and every query, whatever the cache time.
THEOREM DeletionIsFinal == GateSpec => []DeletedIsForgotten
<1>1. GateInv => DeletedIsForgotten
  <2> SUFFICES ASSUME GateInv, NEW s \in stayed, school[s] = "gone"
               PROVE  /\ \A w \in Replica : ~ Admits(w, s)
                      /\ \A r \in Request : req[r].pc = "fetching" /\ req[r].school = s => req[r].says # "active"
    BY DEF DeletedIsForgotten
  <2>1. /\ s \in School /\ now \in Nat /\ lastActive[s] \in Nat /\ LastActive(s) = lastActive[s]
        /\ cache \in [Replica -> [School -> Copy]] /\ req \in [Request -> {Away} \cup Fetching]
    BY DEF GateInv, GateTypeOK, LastActive
  <2>2. lastActive[s] + TTL + WAIT_MARGIN_SECONDS <= now
    BY <2>1, TimeAssumption DEF GateInv, WaitOutlasts, deletionWaitSeconds
  <2>3. ASSUME NEW w \in Replica, Admits(w, s) PROVE FALSE
    <3>1. now <= cache[w][s].until /\ cache[w][s].until <= lastActive[s] + FETCH + TTL
      BY <2>1, <2>3 DEF GateInv, CopiesExpire
    <3>2. cache[w][s].until \in Nat
      BY <2>1, CopyFields
    <3> QED BY <2>1, <2>2, <3>1, <3>2, TimeAssumption
  <2>4. ASSUME NEW r \in Request, req[r].pc = "fetching", req[r].school = s, req[r].says = "active" PROVE FALSE
    <3>1. now <= req[r].since + FETCH /\ req[r].since <= lastActive[s]
      BY <2>1, <2>4 DEF GateInv, ReadsAreRecent
    <3>2. req[r].since \in Nat
      BY <2>1, <2>4, RequestFields
    <3> QED BY <2>1, <2>2, <3>1, <3>2, TimeAssumption
  <2> QED BY <2>3, <2>4
<1> QED BY <1>1, GateInvHolds, PTL
=============================================================================
