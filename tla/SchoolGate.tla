----------------------------- MODULE SchoolGate -----------------------------
(***************************************************************************)
(* Who is let into a school, and how a school is deleted. Each API process *)
(* keeps school rows in a read-through cache (services/cacheService.ts);   *)
(* requireActiveSchool decides on that copy. Platform administrators       *)
(* suspend and reactivate schools and drop the key of their own process    *)
(* only (routes/superAdmin.ts). The deletion script is a process of its    *)
(* own that can drop no key: it suspends, waits out the cache, deletes the *)
(* logins at Supabase, then the rows (scripts/delete-school-data.js).      *)
(*                                                                         *)
(* An answer of the database takes at most FETCH: the code sets no timeout *)
(* on the query, so that this is shorter than the script's margin is an    *)
(* assumption about the deployment. MaxTime bounds the clock.              *)
(***************************************************************************)
EXTENDS Integers, FiniteSets

CONSTANTS
    School, Replica,
    Request,            \* requests of school users, each passing the gate now and then
    Admin,              \* requests of platform administrators
    TTL,                \* SCHOOL_CACHE_SECONDS
    WAIT_MARGIN_SECONDS,
    FETCH,
    MaxTime

ASSUME SchoolAssumption == School \subseteq Nat    \* numbered by created_at
ASSUME TimeAssumption ==
    /\ TTL \in Nat /\ WAIT_MARGIN_SECONDS \in Nat /\ FETCH \in Nat /\ MaxTime \in Nat
    /\ FETCH < WAIT_MARGIN_SECONDS

VARIABLES
    now,
    school,     \* the schools row: is_active, or no row
    lastActive, \* when the row was last active, for the rows that are not (history)
    cache,      \* per process and school, the copy and when it expires
    req, admin,
    script,     \* the deletion script's run
    logins,     \* the schools whose Supabase logins and files are there
    stayed      \* the schools a script suspended and nobody reactivated since (history)

vars == <<now, school, lastActive, cache, req, admin, script, logins, stayed>>
rows == <<school, lastActive, stayed>>

Status == {"active", "suspended", "gone"}
Nothing == [says |-> "nothing", until |-> 0]
Copy == [says : Status \cup {"nothing"}, until : Nat]

Away == [pc |-> "away"]
Fetching == [pc : {"fetching"}, at : Replica, school : School, says : Status, since : Nat]
Deciding == [pc : {"checked", "written"}, at : Replica, school : School, to : {"active", "suspended"}]
Quiet == [pc |-> "quiet", todo |-> {}, wake |-> 0, supabase |-> FALSE]
ScriptRun == [pc : {"quiet", "waiting", "supabase", "database"}, todo : SUBSET School, wake : Nat,
              supabase : BOOLEAN]

Init ==
    /\ now = 0
    /\ school = [s \in School |-> "active"]
    /\ lastActive = [s \in School |-> 0]
    /\ cache = [w \in Replica |-> [s \in School |-> Nothing]]
    /\ req = [r \in Request |-> Away]
    /\ admin = [a \in Admin |-> Away]
    /\ script = Quiet
    /\ logins = School
    /\ stayed = {}

\* Mutant: copies do not expire.
KeptForGood(copy, t) == copy

\* node-cache answers undefined once the expiry has passed: the copy is as good as gone.
Kept(copy, t) == IF copy.until < t THEN Nothing ELSE copy

\* What requireActiveSchool answers from the copy: the request goes on, without a query.
Admits(w, s) == cache[w][s].says = "active"

-----------------------------------------------------------------------------
\* cache.wrap misses, and the query reads the row.
Fetch(r, w, s) ==
    /\ req[r] = Away
    /\ cache[w][s] = Nothing
    /\ req' = [req EXCEPT ![r] = [pc |-> "fetching", at |-> w, school |-> s, says |-> school[s], since |-> now]]
    /\ UNCHANGED <<now, rows, cache, admin, script, logins>>

\* The answer is stored whatever happened to the row or the key meanwhile, and lives TTL from now.
Store(r) ==
    LET q == req[r] IN
    /\ q.pc = "fetching"
    /\ cache' = [cache EXCEPT ![q.at][q.school] = [says |-> q.says, until |-> now + TTL]]
    /\ req' = [req EXCEPT ![r] = Away]
    /\ UNCHANGED <<now, rows, admin, script, logins>>

\* The query throws: nothing is stored.
FetchFails(r) ==
    /\ req[r].pc = "fetching"
    /\ req' = [req EXCEPT ![r] = Away]
    /\ UNCHANGED <<now, rows, cache, admin, script, logins>>

\* A process restarts: its copies and the requests it was serving are gone.
Restart(w) ==
    /\ cache' = [cache EXCEPT ![w] = [s \in School |-> Nothing]]
    /\ req' = [r \in Request |-> IF req[r] # Away /\ req[r].at = w THEN Away ELSE req[r]]
    /\ admin' = [a \in Admin |-> IF admin[a] # Away /\ admin[a].at = w THEN Away ELSE admin[a]]
    /\ UNCHANGED <<now, rows, script, logins>>

-----------------------------------------------------------------------------
\* PATCH /schools/:schoolId/suspend and /reactivate read the row and refuse what is already so.
\* That a school is reactivated only with a principal is left out: it refuses some of these.
Check(a, w, s, to) ==
    /\ admin[a] = Away
    /\ school[s] # "gone" /\ school[s] # to
    /\ admin' = [admin EXCEPT ![a] = [pc |-> "checked", at |-> w, school |-> s, to |-> to]]
    /\ UNCHANGED <<now, rows, cache, req, script, logins>>

\* The row becomes active or suspended; where there is no row the UPDATE changes none.
Becomes(s, to) ==
    /\ school' = [school EXCEPT ![s] = IF @ = "gone" THEN @ ELSE to]
    /\ lastActive' = [lastActive EXCEPT ![s] = IF school[s] = "active" THEN now ELSE @]
    /\ stayed' = IF to = "active" /\ school[s] # "gone" THEN stayed \ {s} ELSE stayed

\* UPDATE schools SET is_active by id alone.
Write(a) ==
    /\ admin[a] # Away /\ admin[a].pc = "checked"
    /\ Becomes(admin[a].school, admin[a].to)
    /\ admin' = [admin EXCEPT ![a].pc = "written"]
    /\ UNCHANGED <<now, cache, req, script, logins>>

\* cache.del, in the process that served the administrator, and the answer.
DropKey(a) ==
    /\ admin[a] # Away /\ admin[a].pc = "written"
    /\ cache' = [cache EXCEPT ![admin[a].at][admin[a].school] = Nothing]
    /\ admin' = [admin EXCEPT ![a] = Away]
    /\ UNCHANGED <<now, rows, req, script, logins>>

-----------------------------------------------------------------------------
\* Mutant: the script waits as long as a copy lives, and no longer.
WaitTTL == TTL

deletionWaitSeconds == TTL + WAIT_MARGIN_SECONDS

\* suspendSchools, for one school or for all but one that is kept, and the wait starts.
Suspend(targets, supabase) ==
    /\ script = Quiet
    /\ targets # {} /\ \A s \in targets : school[s] # "gone"
    /\ school' = [s \in School |-> IF s \in targets THEN "suspended" ELSE school[s]]
    /\ lastActive' = [s \in School |-> IF s \in targets /\ school[s] = "active" THEN now ELSE lastActive[s]]
    /\ stayed' = stayed \cup targets
    /\ script' = [pc |-> "waiting", todo |-> targets, wake |-> now + deletionWaitSeconds, supabase |-> supabase]
    /\ UNCHANGED <<now, cache, req, admin, logins>>

Wake ==
    /\ script.pc = "waiting" /\ script.wake <= now
    /\ script' = [script EXCEPT !.pc = "supabase"]
    /\ UNCHANGED <<now, rows, cache, req, admin, logins>>

\* The targets are taken oldest first.
Turn == CHOOSE s \in script.todo : \A t \in script.todo : s <= t

\* supabaseStep: every login and file of the school goes, unless --skip-supabase.
SupabaseStep ==
    /\ script.pc = "supabase"
    /\ logins' = IF script.supabase THEN logins \ {Turn} ELSE logins
    /\ script' = [script EXCEPT !.pc = "database"]
    /\ UNCHANGED <<now, rows, cache, req, admin>>

\* The run goes on to the next school, or ends.
Onward == LET left == script.todo \ {Turn} IN
    IF left = {} THEN Quiet ELSE [script EXCEPT !.pc = "supabase", !.todo = left]

\* executeSchoolDeletion locks the row, refuses an active one, deletes everything and commits.
Delete ==
    /\ script.pc = "database" /\ school[Turn] = "suspended"
    /\ school' = [school EXCEPT ![Turn] = "gone"]
    /\ script' = Onward
    /\ UNCHANGED <<now, lastActive, stayed, cache, req, admin, logins>>

\* The script dies, or throws: at Supabase, in the transaction, or because the school is active.
\* It stays suspended, and a later run starts with the wait.
ScriptStops ==
    /\ script # Quiet
    /\ script' = Quiet
    /\ UNCHANGED <<now, rows, cache, req, admin, logins>>

-----------------------------------------------------------------------------
\* No answer of the database is older than FETCH.
Tick ==
    /\ now < MaxTime
    /\ \A r \in Request : req[r].pc = "fetching" => now < req[r].since + FETCH
    /\ now' = now + 1
    /\ cache' = [w \in Replica |-> [s \in School |-> Kept(cache[w][s], now + 1)]]
    /\ UNCHANGED <<rows, req, admin, script, logins>>

RequestStep(r) ==
    \/ \E w \in Replica, s \in School : Fetch(r, w, s)
    \/ Store(r) \/ FetchFails(r)

AdminStep(a) ==
    \/ \E w \in Replica, s \in School, to \in {"active", "suspended"} : Check(a, w, s, to)
    \/ Write(a) \/ DropKey(a)

ScriptStep ==
    \/ \E targets \in SUBSET School, supabase \in BOOLEAN : Suspend(targets, supabase)
    \/ Wake \/ SupabaseStep \/ Delete \/ ScriptStops

GateNext ==
    \/ \E r \in Request : RequestStep(r)
    \/ \E a \in Admin : AdminStep(a)
    \/ ScriptStep
    \/ \E w \in Replica : Restart(w)
    \/ Tick

GateSpec == Init /\ [][GateNext]_vars

-----------------------------------------------------------------------------
\* Every variable keeps its type; a run that goes on has a school left to delete.
GateTypeOK ==
    /\ now \in Nat
    /\ school \in [School -> Status]
    /\ lastActive \in [School -> Nat]
    /\ cache \in [Replica -> [School -> Copy]]
    /\ req \in [Request -> {Away} \cup Fetching]
    /\ admin \in [Admin -> {Away} \cup Deciding]
    /\ script \in ScriptRun
    /\ (script.pc = "quiet") <=> (script.todo = {})
    /\ logins \subseteq School
    /\ stayed \subseteq School

LastActive(s) == IF school[s] = "active" THEN now ELSE lastActive[s]

\* No process lets anyone in later than TTL plus one query after the school was last active,
\* whichever process served the administrator who suspended it, and however the suspension
\* crossed a query on its way to the cache (cacheService.wrap).
StaleWithinCacheTime ==
    \A w \in Replica, s \in School : Admits(w, s) => now <= LastActive(s) + FETCH + TTL

\* Once a school that nobody reactivated is deleted, no process lets anyone in as its user and
\* no query is under way that would make one: the script's wait outlasts every copy, a crashed
\* and repeated run's too (deleteSchools).
DeletedIsForgotten ==
    \A s \in stayed : school[s] = "gone" =>
        /\ \A w \in Replica : ~ Admits(w, s)
        /\ \A r \in Request : req[r].pc = "fetching" /\ req[r].school = s => req[r].says # "active"

\* The script's header: "so a school reactivated during the wait is never deleted". No step
\* takes the logins and files of an active school.
ActiveKeepsLogins == [][\A s \in logins : school[s] = "active" => s \in logins']_vars
=============================================================================
