---------------------------- MODULE SecondFactor ----------------------------
(***************************************************************************)
(* A platform administrator's second factor: the authenticator secret, its *)
(* move to a new phone, the recovery codes, the challenges of the second   *)
(* step of sign-in (routes/twoFactor.ts, db/queries/twoFactorStore.ts,     *)
(* db/queries/loginChallenges.ts, POST /login and /login/verify of         *)
(* routes/auth.ts), for one account and requests that overlap.             *)
(*                                                                         *)
(* A code is the secret that made it and its time step. The end of a lock, *)
(* of a challenge and of a started phone move may come at any time. The    *)
(* password check, the sign-in lockout and the session that the caller of  *)
(* the signed-in routes holds are outside: a request may be refused at any *)
(* of them, which is Refuse.                                               *)
(***************************************************************************)
EXTENDS Naturals, FiniteSets

CONSTANTS
    Request, Challenge,
    MaxSecrets, MaxStep, MaxSets,   \* bounds: secrets generated, time steps, sets of recovery codes,
    MaxRequests,                    \* and requests
    SetSize,                        \* RECOVERY_CODE_COUNT
    TOTP_WINDOW, TOTP_LOCK_AFTER, CHALLENGE_MAX_ATTEMPTS,
    Wrong, NoChallenge

ASSUME FactorAssumption ==
    /\ {MaxStep, MaxRequests, SetSize, TOTP_WINDOW} \subseteq Nat
    /\ {MaxSecrets, MaxSets, TOTP_LOCK_AFTER, CHALLENGE_MAX_ATTEMPTS} \subseteq Nat \ {0}
    /\ NoChallenge \notin Challenge

Secret == 1..MaxSecrets
NoSecret == 0
TotpCode == [secret : Secret, step : 0..MaxStep]
RecoveryCode == [set : 1..MaxSets, n : 1..SetSize]
ASSUME WrongAssumption == Wrong \notin TotpCode \cup RecoveryCode

VARIABLES
    factor,     \* the user_totp row
    recovery,   \* unused rows of user_recovery_codes
    required,   \* users.two_factor_required
    challenge,  \* login_challenges
    request,    \* the requests being served
    now,        \* the current time step
    made,       \* how many secrets and sets of recovery codes were generated, and how many requests came
    uses,       \* how often each code was accepted
    sessions,   \* how many sessions each challenge opened
    confirmed   \* secrets a phone proved to hold

vars == <<factor, recovery, required, challenge, request, now, made, uses, sessions, confirmed>>

NoFactor == [state |-> "none", secret |-> NoSecret, last |-> 0, failed |-> 0, locked |-> FALSE, pending |-> NoSecret]
Factor == [state : {"none", "pending", "active"}, secret : 0..MaxSecrets, last : Nat,
           failed : 0..TOTP_LOCK_AFTER, locked : BOOLEAN, pending : 0..MaxSecrets]

Route == {"verify", "enrol", "confirm", "codes", "move", "move confirm", "disable"}
Done == [route |-> "none", pc |-> "done", challenge |-> NoChallenge, code |-> Wrong, secret |-> NoSecret, old |-> {}]
RequestState ==
    [route : Route \cup {"none"},
     pc : {"done", "begin", "state", "secret", "accept", "clear", "wrong", "count", "act", "commit", "issue"},
     challenge : Challenge \cup {NoChallenge}, code : TotpCode \cup RecoveryCode \cup {Wrong},
     secret : 0..MaxSecrets, old : SUBSET RecoveryCode]

\* An account that never enrolled, or one that did and has its first secret and codes.
Init ==
    /\ \/ /\ factor = NoFactor /\ recovery = {} /\ confirmed = {}
          /\ made = [secrets |-> 0, sets |-> 0, requests |-> 0]
       \/ /\ factor = [NoFactor EXCEPT !.state = "active", !.secret = 1]
          /\ recovery = {c \in RecoveryCode : c.set = 1} /\ confirmed = {1}
          /\ made = [secrets |-> 1, sets |-> 1, requests |-> 0]
    /\ required \in BOOLEAN
    /\ challenge = [c \in Challenge |-> [state |-> "none", attempts |-> 0]]
    /\ request = [r \in Request |-> Done]
    /\ now = 0
    /\ uses = [c \in TotpCode \cup RecoveryCode |-> 0]
    /\ sessions = [c \in Challenge |-> 0]

Active == factor.state = "active"
Goto(r, pc) == request' = [request EXCEPT ![r].pc = pc]
End(r) == request' = [request EXCEPT ![r] = Done]
\* The code was accepted, or refused: either way it is not looked at again.
Accepted(r, pc) == request' = [request EXCEPT ![r].pc = pc, ![r].code = Wrong]
Refused(r) ==
    request' = [request EXCEPT ![r] = [Done EXCEPT !.pc = IF request[r].route = "verify" THEN "wrong" ELSE "count",
                                                   !.challenge = request[r].challenge]]
\* A use of a code of the secret that is on; one checked before a phone move is no use of the new secret.
Use(code) == uses' = IF code \in RecoveryCode \/ code.secret = factor'.secret THEN [uses EXCEPT ![code] = @ + 1] ELSE uses
history == <<uses, sessions, confirmed>>

\* matchTotpStep: the code is of this secret, within the window of now.
Matches(code, secret) ==
    /\ code \in TotpCode /\ code.secret = secret
    /\ code.step <= now + TOTP_WINDOW /\ now <= code.step + TOTP_WINDOW

FreshSet == {c \in RecoveryCode : c.set = made.sets + 1}

-----------------------------------------------------------------------------
\* A request arrives, with a code from any phone or paper the administrator ever had, or a wrong
\* one (as is every code of a step outside the window, now and at each later check).
Codes ==
    {c \in TotpCode : Matches(c, c.secret) /\ c.secret <= made.secrets} \cup {c \in RecoveryCode : c.set <= made.sets} \cup {Wrong}

\* verify and disable take a recovery code in place of the authenticator's.
Arrive(r, route) ==
    /\ request[r].pc = "done" /\ made.requests < MaxRequests
    /\ made' = [made EXCEPT !.requests = @ + 1]
    /\ \E code \in IF route = "enrol" THEN {Wrong} ELSE Codes, c \in Challenge :
          /\ code \in RecoveryCode => route \in {"verify", "disable"}
          /\ route = "verify" => challenge[c].state # "none"
          /\ request' = [request EXCEPT ![r] =
                [Done EXCEPT !.route = route, !.code = code,
                             !.pc = CASE route = "verify" -> "begin" [] route = "confirm" -> "secret" [] OTHER -> "state",
                             !.challenge = IF route = "verify" THEN c ELSE NoChallenge]]
    /\ UNCHANGED <<factor, recovery, required, challenge, now, history>>

\* POST /login with the right password: an active factor gets a challenge, dead ones are deleted.
PasswordStep(c) ==
    /\ Active
    /\ challenge[c].state = "none"
    /\ challenge' = [challenge EXCEPT ![c] = [state |-> "live", attempts |-> 0]]
    /\ UNCHANGED <<factor, recovery, required, request, now, made, history>>

\* findLiveChallenge
FindChallenge(r) ==
    /\ request[r].pc = "begin"
    /\ LET c == challenge[request[r].challenge]
       IN  IF c.state = "live" /\ c.attempts < CHALLENGE_MAX_ATTEMPTS THEN Goto(r, "state") ELSE End(r)
    /\ UNCHANGED <<factor, recovery, required, challenge, now, made, history>>

\* readTotpState, isLocked and isTwoFactorRequired: enrolment wants no active factor, the others one.
ReadState(r) ==
    /\ request[r].pc = "state"
    /\ LET route == request[r].route
           goes == CASE route = "enrol" -> ~Active
                     [] route = "disable" -> Active /\ ~required /\ ~factor.locked
                     [] OTHER -> Active /\ ~factor.locked
       IN  IF ~goes THEN End(r)
           ELSE Goto(r, IF route = "enrol" THEN "act" ELSE IF request[r].code \in RecoveryCode THEN "accept" ELSE "secret")
    /\ UNCHANGED <<factor, recovery, required, challenge, now, made, history>>

\* readTotpSecret or readPendingDeviceMove, and the code is checked against what was read. The
\* confirmation of an enrolment reads nothing else, and wants a factor that is not on.
ReadSecret(r) ==
    /\ request[r].pc = "secret"
    /\ LET route == request[r].route
           secret == IF route = "move confirm" THEN factor.pending ELSE factor.secret
           code == request[r].code
       IN  /\ IF Matches(code, secret) /\ (route = "confirm" => ~Active)
              THEN /\ request' = [request EXCEPT ![r].secret = IF route = "move confirm" THEN secret ELSE NoSecret,
                                                 ![r].pc = IF route \in {"confirm", "move confirm"} THEN "act" ELSE "accept"]
                   /\ confirmed' = confirmed \cup {secret}
              ELSE /\ IF route = "confirm" \/ (route = "move confirm" /\ secret = NoSecret) THEN End(r) ELSE Refused(r)
                   /\ UNCHANGED confirmed
    /\ UNCHANGED <<factor, recovery, required, challenge, now, made, uses, sessions>>

\* Mutant: a code may be used again in its own step.
LaterOrSame(code) == factor.last <= code.step + 1

\* last_used_step IS NULL OR last_used_step < step: 0 stands for NULL, so steps are kept plus one.
Later(code) == factor.last < code.step + 1

\* acceptTotpStep or consumeRecoveryCode: one UPDATE, whose WHERE decides.
Accept(r) ==
    /\ request[r].pc = "accept"
    /\ LET code == request[r].code
           verify == request[r].route = "verify"
       IN  \/ /\ code \in TotpCode
              /\ IF Active /\ Later(code) /\ ~factor.locked
                 THEN /\ factor' = [factor EXCEPT !.last = code.step + 1, !.failed = 0]
                      /\ Use(code) /\ Accepted(r, "act")
                 ELSE Refused(r) /\ UNCHANGED <<factor, uses>>
              /\ UNCHANGED recovery
           \/ /\ code \in RecoveryCode
              /\ IF code \in recovery
                 THEN recovery' = recovery \ {code} /\ Use(code) /\ Accepted(r, IF verify THEN "clear" ELSE "act")
                 ELSE Refused(r) /\ UNCHANGED <<recovery, uses>>
              /\ UNCHANGED factor
    /\ UNCHANGED <<required, challenge, now, made, sessions, confirmed>>

\* clearTotpFailures, after a recovery code at sign-in.
ClearFailures(r) ==
    /\ request[r].pc = "clear"
    /\ factor' = IF Active THEN [factor EXCEPT !.failed = 0] ELSE factor
    /\ Goto(r, "act")
    /\ UNCHANGED <<recovery, required, challenge, now, made, history>>

\* recordChallengeFailure
WrongForChallenge(r) ==
    /\ request[r].pc = "wrong"
    /\ challenge' = [challenge EXCEPT ![request[r].challenge].attempts = @ + 1]
    /\ request' = [request EXCEPT ![r] = [Done EXCEPT !.pc = "count"]]
    /\ UNCHANGED <<factor, recovery, required, now, made, history>>

\* recordTotpFailure: the count is the account's, and locks it; past TOTP_LOCK_AFTER it is kept there, as it locks each time.
CountWrong(r) ==
    /\ request[r].pc = "count"
    /\ LET failed == IF factor.failed < TOTP_LOCK_AFTER THEN factor.failed + 1 ELSE TOTP_LOCK_AFTER
       IN  factor' = IF factor.state = "none" THEN factor
                     ELSE [factor EXCEPT !.failed = failed, !.locked = @ \/ failed = TOTP_LOCK_AFTER]
    /\ End(r)
    /\ UNCHANGED <<recovery, required, challenge, now, made, history>>

-----------------------------------------------------------------------------
At(r, route, pc) == request[r].route = route /\ request[r].pc = pc

\* Mutant: a spent challenge can be spent again until it expires.
SpendAgain(r) ==
    /\ At(r, "verify", "act")
    /\ LET c == request[r].challenge
       IN  IF challenge[c].state # "expired"
           THEN challenge' = [challenge EXCEPT ![c].state = "spent"] /\ Goto(r, "issue")
           ELSE UNCHANGED challenge /\ End(r)
    /\ UNCHANGED <<factor, recovery, required, now, made, history>>

\* spendChallenge: consumed_at is set by one request.
Spend(r) ==
    /\ At(r, "verify", "act")
    /\ LET c == request[r].challenge
       IN  IF challenge[c].state = "live"
           THEN challenge' = [challenge EXCEPT ![c].state = "spent"] /\ Goto(r, "issue")
           ELSE UNCHANGED challenge /\ End(r)
    /\ UNCHANGED <<factor, recovery, required, now, made, history>>

\* issueSession
Issue(r) ==
    /\ request[r].pc = "issue"
    /\ sessions' = [sessions EXCEPT ![request[r].challenge] = @ + 1]
    /\ End(r)
    /\ UNCHANGED <<factor, recovery, required, challenge, now, made, uses, confirmed>>

NewSecret == made.secrets < MaxSecrets /\ made' = [made EXCEPT !.secrets = @ + 1]

\* savePendingTotpSecret: a factor that is on is not replaced, a pending one is.
SavePending(r) ==
    /\ At(r, "enrol", "act")
    /\ IF Active THEN UNCHANGED <<factor, made>>
       ELSE /\ NewSecret
            /\ factor' = IF factor.state = "pending" THEN [factor EXCEPT !.secret = made.secrets + 1]
                         ELSE [NoFactor EXCEPT !.state = "pending", !.secret = made.secrets + 1]
    /\ End(r)
    /\ UNCHANGED <<recovery, required, challenge, now, history>>

\* activateTotp: the stored secret, whichever it is by now, becomes active, with new recovery codes.
Activate(r) ==
    /\ At(r, "confirm", "act")
    /\ IF factor.state = "pending"
       THEN /\ made.sets < MaxSets
            /\ factor' = [factor EXCEPT !.state = "active", !.last = request[r].code.step + 1, !.failed = 0, !.locked = FALSE]
            /\ recovery' = FreshSet
            /\ made' = [made EXCEPT !.sets = @ + 1]
            /\ Use(request[r].code)
       ELSE UNCHANGED <<factor, recovery, made, uses>>
    /\ End(r)
    /\ UNCHANGED <<required, challenge, now, sessions, confirmed>>

\* replaceRecoveryCodes: the DELETE sees the rows committed when it starts ...
DeleteCodes(r) ==
    /\ At(r, "codes", "act")
    /\ request' = [request EXCEPT ![r].pc = "commit", ![r].old = recovery]
    /\ UNCHANGED <<factor, recovery, required, challenge, now, made, history>>

\* ... and at COMMIT those are gone and the new set is there.
InsertCodes(r) ==
    /\ request[r].pc = "commit"
    /\ made.sets < MaxSets
    /\ recovery' = (recovery \ request[r].old) \cup FreshSet
    /\ made' = [made EXCEPT !.sets = @ + 1]
    /\ End(r)
    /\ UNCHANGED <<factor, required, challenge, now, history>>

\* Mutant: the row is enough, the factor may have been reset and enrolment begun again.
MayMoveAny == factor.state # "none"

\* savePendingDeviceMove, for an active factor: the new secret waits beside the working one.
MayMove == Active

StartMove(r) ==
    /\ At(r, "move", "act")
    /\ IF MayMove THEN NewSecret /\ factor' = [factor EXCEPT !.pending = made.secrets + 1]
       ELSE UNCHANGED <<factor, made>>
    /\ End(r)
    /\ UNCHANGED <<recovery, required, challenge, now, history>>

\* Mutant: to whatever secret is waiting.
AnyMove(r) == factor.pending # NoSecret

\* completeDeviceMove switches to the very secret the code was checked against, or not at all.
SameMove(r) == factor.pending = request[r].secret

CompleteMove(r) ==
    /\ At(r, "move confirm", "act")
    /\ IF Active /\ SameMove(r)
       THEN /\ factor' = [factor EXCEPT !.secret = factor.pending, !.pending = NoSecret,
                                        !.last = request[r].code.step + 1, !.failed = 0, !.locked = FALSE]
            /\ Use(request[r].code)
       ELSE UNCHANGED <<factor, uses>>
    /\ End(r)
    /\ UNCHANGED <<recovery, required, challenge, now, made, sessions, confirmed>>

\* Mutant: the route's own reading of the requirement is trusted.
MayDisableStale == Active

\* disableTwoFactor reads the requirement and the factor again, under their row locks.
MayDisable == ~required /\ Active

Disable(r) ==
    /\ At(r, "disable", "act")
    /\ IF MayDisable THEN factor' = NoFactor /\ recovery' = {} ELSE UNCHANGED <<factor, recovery>>
    /\ End(r)
    /\ UNCHANGED <<required, challenge, now, made, history>>

-----------------------------------------------------------------------------
\* PUT /required
SetRequired(on) ==
    /\ required' = on
    /\ UNCHANGED <<factor, recovery, challenge, request, now, made, history>>

\* chronixedu_two_factor.break_glass_reset, in the database.
BreakGlass ==
    /\ factor.state # "none"
    /\ factor' = NoFactor /\ recovery' = {}
    /\ UNCHANGED <<required, challenge, request, now, made, history>>

Time ==
    /\ \/ now < MaxStep /\ now' = now + 1 /\ UNCHANGED <<factor, challenge>>
       \/ factor.locked /\ factor' = [factor EXCEPT !.locked = FALSE] /\ UNCHANGED <<now, challenge>>
       \/ factor.pending # NoSecret /\ factor' = [factor EXCEPT !.pending = NoSecret] /\ UNCHANGED <<now, challenge>>
       \/ /\ \E c \in Challenge : challenge[c].state = "live" /\ challenge' = [challenge EXCEPT ![c].state = "expired"]
          /\ UNCHANGED <<now, factor>>
    /\ UNCHANGED <<recovery, required, request, made, history>>

\* The request is refused outside, or its process dies: what it wrote stays, a transaction does not.
Refuse(r) ==
    /\ request[r].pc # "done"
    /\ End(r)
    /\ UNCHANGED <<factor, recovery, required, challenge, now, made, history>>

Serve(r) ==
    \/ FindChallenge(r) \/ ReadState(r) \/ ReadSecret(r) \/ Accept(r) \/ ClearFailures(r)
    \/ WrongForChallenge(r) \/ CountWrong(r) \/ Spend(r) \/ Issue(r)
    \/ SavePending(r) \/ Activate(r) \/ DeleteCodes(r) \/ InsertCodes(r)
    \/ StartMove(r) \/ CompleteMove(r) \/ Disable(r)

Next ==
    \/ \E r \in Request : (\E route \in Route : Arrive(r, route)) \/ Serve(r) \/ Refuse(r)
    \/ \E c \in Challenge : PasswordStep(c)
    \/ \E on \in BOOLEAN : SetRequired(on)
    \/ BreakGlass \/ Time

Spec == Init /\ [][Next]_vars

-----------------------------------------------------------------------------
FactorTypeOK ==
    /\ factor \in Factor /\ (factor.state = "none" => factor = NoFactor) /\ (factor.pending # NoSecret => Active)
    /\ recovery \subseteq RecoveryCode /\ required \in BOOLEAN
    /\ challenge \in [Challenge -> [state : {"none", "live", "spent", "expired"}, attempts : Nat]]
    /\ request \in [Request -> RequestState]
    /\ now \in 0..MaxStep /\ made \in [secrets : 0..MaxSecrets, sets : 0..MaxSets, requests : 0..MaxRequests]
    /\ uses \in [TotpCode \cup RecoveryCode -> Nat]
    /\ sessions \in [Challenge -> Nat] /\ confirmed \subseteq Secret

(***************************************************************************)
(* A code, of the authenticator or from the recovery sheet, is accepted    *)
(* once: on whichever route, and however many requests present it          *)
(* together (for the authenticator, while its secret is the one stored).   *)
(***************************************************************************)
CodesWorkOnce == \A c \in TotpCode \cup RecoveryCode : uses[c] <= 1

\* A challenge opens one session, also when two requests answer it rightly with different codes.
OneSessionPerChallenge == \A c \in Challenge : sessions[c] <= 1 /\ (sessions[c] = 1 => challenge[c].state # "live")

(***************************************************************************)
(* A phone move ends on a secret that the new phone was seen to hold: one  *)
(* started again in another tab, between the check and the switch, cannot  *)
(* put an unconfirmed secret in place (readPendingDeviceMove's promise).   *)
(***************************************************************************)
MovesAreConfirmed ==
    [][Active /\ factor'.state = "active" /\ factor'.secret # factor.secret => factor'.secret \in confirmed]_vars

\* No request turns the factor off while the account is marked required, whenever it was so marked.
RequiredStaysOn ==
    [][\A r \in Request : At(r, "disable", "act") /\ Active /\ required => (request'[r] = Done => factor' # NoFactor)]_vars
=============================================================================
