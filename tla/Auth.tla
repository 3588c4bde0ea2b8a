----------------------------------- MODULE Auth -----------------------------------
(***************************************************************************)
(* AuthService (security/auth.service.ts) with the rows User                *)
(* (user.entity.ts) and ApiKey (api-key.entity.ts): registration under one  *)
(* email, logins and their lock, and one API key.  One step per awaited     *)
(* query or save; a row is saved whole from the copy loaded.                *)
(*                                                                          *)
(*   user       the user's row                                              *)
(*   apiKey     the row of the API key                                      *)
(*   authJob    per caller: the call it awaits next, and its copies         *)
(*   failures   the failed logins answered since the last good one          *)
(*   expired    the API key's time has passed                               *)
(*   keyDead    the revocation of the key has returned                      *)
(*   intruders  requests begun after that or after the expiry, and let in   *)
(*   authFaults, authOverlaps, authOps   as in Lending                      *)
(***************************************************************************)
EXTENDS Naturals

CONSTANTS AuthCallers,     \* concurrent requests
          MaxAttempts,     \* 5 failed logins lock the account
          MaxAuthFaults, MaxAuthOps

ASSUME AuthAssumption == MaxAttempts \in Nat \ {0} /\ MaxAuthFaults \in Nat

VARIABLES user, apiKey, authJob, failures, expired, keyDead, intruders, authFaults,
          authOverlaps, authOps

authVars == <<user, apiKey, authJob, failures, expired, keyDead, intruders, authFaults,
              authOverlaps, authOps>>

\* locked: lockedUntil lies ahead.  The status is ACTIVE from the start; nothing
\* here changes it.
User == [exists : BOOLEAN, loginAttempts : Nat, locked : BOOLEAN]

ApiKeyStatus == {"none", "active", "inactive", "revoked"}

ApiKey == [status : ApiKeyStatus, usageCount : Nat]

NoUser == [exists |-> FALSE, loginAttempts |-> 0, locked |-> FALSE]

NoKey == [status |-> "none", usageCount |-> 0]

AuthIdle == [next |-> "idle", user |-> NoUser, key |-> NoKey, good |-> FALSE, late |-> FALSE,
             expired |-> FALSE]

AuthTypeOK ==
    /\ user \in User /\ apiKey \in ApiKey /\ failures \in Nat /\ intruders \in BOOLEAN
    /\ \A c \in AuthCallers :
         /\ authJob[c].next \in {"idle", "saveUser", "compare", "saveFailed", "saveGood",
              "saveKey", "findKey", "compareKey", "saveUse", "saveRevoked"}
         /\ authJob[c].user \in User /\ authJob[c].key \in ApiKey
    /\ authFaults \in 0 .. MaxAuthFaults /\ authOverlaps \in BOOLEAN

AuthInit ==
    /\ user = NoUser /\ apiKey = NoKey /\ authJob = [c \in AuthCallers |-> AuthIdle]
    /\ failures = 0 /\ expired = FALSE /\ keyDead = FALSE /\ intruders = FALSE
    /\ authFaults = 0 /\ authOverlaps = FALSE /\ authOps = 0

-----------------------------------------------------------------------------

authGhosts == <<failures, expired, keyDead, intruders>>

AuthBegin(c, job) ==
    /\ authJob[c].next = "idle"
    /\ authJob' = [authJob EXCEPT ![c] = job]
    /\ authOverlaps' = (authOverlaps \/ \E d \in AuthCallers : authJob[d].next # "idle")
    /\ authOps' = authOps + 1
    /\ UNCHANGED <<user, apiKey, authGhosts, authFaults>>

SetJob(c, job) == authJob' = [authJob EXCEPT ![c] = job]

\* The awaited call is done, and another awaited, or none; or it is rejected,
\* which ends the request.
AuthStep(c, step, done, job) ==
    /\ authJob[c].next = step
    /\ \/ done /\ SetJob(c, job) /\ UNCHANGED authFaults
       \/ /\ authFaults' = authFaults + 1 /\ SetJob(c, AuthIdle)
          /\ UNCHANGED <<user, apiKey, authGhosts>>
    /\ UNCHANGED <<authOverlaps, authOps>>

Then(c, next) == [authJob[c] EXCEPT !.next = next]

-----------------------------------------------------------------------------
(* Users                                                                    *)

\* The query; the password is hashed before the save.
Register(c) ==
    ~user.exists /\ AuthBegin(c, [AuthIdle EXCEPT !.next = "saveUser"])

\* The email is unique in the table: the second of two saves is refused.
SaveUser(c) ==
    /\ authJob[c].next = "saveUser"
    /\ IF user.exists
       THEN SetJob(c, AuthIdle) /\ UNCHANGED <<user, authFaults, authOverlaps, authOps>>
       ELSE AuthStep(c, "saveUser", user' = [NoUser EXCEPT !.exists = TRUE], AuthIdle)
    /\ UNCHANGED <<apiKey, authGhosts>>

CanAttemptLogin(u) == u.exists /\ ~u.locked

\* The query, with the lock checked on its result.
Login(c) ==
    /\ CanAttemptLogin(user)
    /\ \E good \in BOOLEAN :
         AuthBegin(c, [AuthIdle EXCEPT !.next = "compare", !.user = user, !.good = good])

\* bcrypt compares in another thread.
ComparePassword(c) ==
    AuthStep(c, "compare", UNCHANGED <<user, apiKey, authGhosts>>,
             Then(c, IF authJob[c].good THEN "saveGood" ELSE "saveFailed"))

\* Mutant: the account is locked one failure late.
AfterFailedLoginLate(u) ==
    [u EXCEPT !.loginAttempts = @ + 1, !.locked = u.loginAttempts >= MaxAttempts]

AfterFailedLogin(u) ==
    [u EXCEPT !.loginAttempts = @ + 1, !.locked = u.loginAttempts + 1 >= MaxAttempts]

\* The copy is saved whole, its counter and its lock.
HandleFailedLogin(c) ==
    AuthStep(c, "saveFailed",
             /\ user' = AfterFailedLogin(authJob[c].user) /\ failures' = failures + 1
             /\ UNCHANGED <<apiKey, expired, keyDead, intruders>>, AuthIdle)

SaveLogin(c) ==
    AuthStep(c, "saveGood",
             /\ user' = [authJob[c].user EXCEPT !.loginAttempts = 0] /\ failures' = 0
             /\ UNCHANGED <<apiKey, expired, keyDead, intruders>>, AuthIdle)

\* lockedUntil passes.  The attempts stay: the next failure locks again.
LockEnds ==
    /\ user.locked /\ user' = [user EXCEPT !.locked = FALSE] /\ failures' = 0
    /\ UNCHANGED <<apiKey, authJob, expired, keyDead, intruders, authFaults, authOverlaps,
                   authOps>>

-----------------------------------------------------------------------------
(* The API key                                                              *)

CreateApiKey(c) ==
    /\ user.exists /\ apiKey = NoKey /\ \A d \in AuthCallers : authJob[d].next # "saveKey"
    /\ AuthBegin(c, [AuthIdle EXCEPT !.next = "saveKey"])

SaveApiKey(c) ==
    AuthStep(c, "saveKey",
             /\ apiKey' = [status |-> "active", usageCount |-> 0]
             /\ UNCHANGED <<user, authGhosts>>, AuthIdle)

ValidateApiKey(c) ==
    AuthBegin(c, [AuthIdle EXCEPT !.next = "findKey", !.late = keyDead \/ expired])

FindApiKey(c) ==
    AuthStep(c, "findKey", UNCHANGED <<user, apiKey, authGhosts>>,
             [Then(c, IF apiKey = NoKey THEN "idle" ELSE "compareKey") EXCEPT !.key = apiKey])

\* Of the copy, when its hash has been compared.
IsValid(key) == key.status = "active" /\ ~expired

CompareKey(c) ==
    LET key == authJob[c].key
    IN  AuthStep(c, "compareKey", UNCHANGED <<user, apiKey, authGhosts>>,
                 IF IsValid(key)
                 THEN [Then(c, "saveUse") EXCEPT !.key.usageCount = key.usageCount + 1]
                 ELSE AuthIdle)

\* The copy is saved whole: the status it was loaded with, too.  Then the request
\* is let in.
SaveUse(c) ==
    AuthStep(c, "saveUse",
             /\ apiKey' = authJob[c].key /\ intruders' = (intruders \/ authJob[c].late)
             /\ UNCHANGED <<user, failures, expired, keyDead>>, AuthIdle)

RevokeApiKey(c) ==
    /\ apiKey # NoKey
    /\ AuthBegin(c, [AuthIdle EXCEPT !.next = "saveRevoked",
                                     !.key = [apiKey EXCEPT !.status = "revoked"]])

SaveRevokedKey(c) ==
    AuthStep(c, "saveRevoked",
             /\ apiKey' = authJob[c].key /\ keyDead' = TRUE
             /\ UNCHANGED <<user, failures, expired, intruders>>, AuthIdle)

KeyExpires ==
    /\ apiKey # NoKey /\ ~expired /\ expired' = TRUE
    /\ UNCHANGED <<user, apiKey, authJob, failures, keyDead, intruders, authFaults,
                   authOverlaps, authOps>>

AuthSteps ==
    \/ LockEnds \/ KeyExpires
    \/ \E c \in AuthCallers :
         \/ Register(c) \/ SaveUser(c) \/ Login(c) \/ ComparePassword(c)
         \/ HandleFailedLogin(c) \/ SaveLogin(c) \/ CreateApiKey(c) \/ SaveApiKey(c)
         \/ ValidateApiKey(c) \/ FindApiKey(c) \/ CompareKey(c) \/ SaveUse(c)
         \/ RevokeApiKey(c) \/ SaveRevokedKey(c)

\* Within the bounds of a run.
AuthNext ==
    /\ AuthSteps
    /\ authOps' <= MaxAuthOps /\ authFaults' <= MaxAuthFaults
    /\ authOverlaps' => authFaults' = 0

-----------------------------------------------------------------------------

\* While requests do not overlap, whatever fails, no more than the allowed number
\* of failed logins is answered between a good one or the end of a lock and the
\* next lock, each is in the counter, and no request is let in by an API key
\* whose revocation had returned, or whose time had passed, when it began.
LocksHold ==
    ~authOverlaps => /\ failures <= MaxAttempts /\ failures <= user.loginAttempts
                     /\ failures = MaxAttempts => user.locked
                     /\ ~intruders
=============================================================================
