---------------------------- MODULE AccountAccess ----------------------------
(***************************************************************************)
(* The access to one account: what changes its password or its state, and  *)
(* which sessions it accepts.  Every change reads the users row without a  *)
(* lock, prepares the new row, and writes auth_version as the number it    *)
(* has read plus one.  What authorises a change is a secret that works     *)
(* once: a reset link of the platform (identity), one of the pilot         *)
(* (pilot_product), or a key of the environment (api).                     *)
(*                                                                         *)
(* A request that is refused before it has written anything leaves no      *)
(* trace, and is no step here.                                             *)
(***************************************************************************)
EXTENDS Integers, FiniteSets

CONSTANTS
    Requests,
    Links,       \* password_reset_tokens
    PilotLinks,  \* pilot_password_reset_tokens
    Recoveries,  \* SRIS_PASSWORD_RECOVERY_TOKEN, as it is set over time
    Activations, \* SRIS_ACCESS_ACTIVATION_TOKEN
    NoSecret,
    MaxChanges   \* bounds the changes the model makes

Keys == Recoveries \cup Activations

Secrets == Links \cup PilotLinks \cup Keys

ASSUME AccessAssumption ==
    /\ Links \cap PilotLinks = {}
    /\ Keys \cap (Links \cup PilotLinks) = {}
    /\ Recoveries \cap Activations = {}
    /\ NoSecret \notin Secrets
    /\ MaxChanges \in Nat

VARIABLES
    account,  \* the users row, and how many changes it has seen
    link,     \* the state of every reset link
    spent,    \* password_recovery_uses
    sessions, \* the sessions that were signed
    uses,     \* how often each secret has changed the account
    overlap,  \* a change has overwritten another one it had not read
    ctx       \* what a request is for, its secret, and what it has read

vars == <<account, link, spent, sessions, uses, overlap, ctx>>

Kinds == {"reset", "pilot", "recover", "activate", "state", "register",
          "request", "pilotRequest"}

Idle == "none"

\* An issued link is in the table, an open one with the person too.
LinkStates == {"none", "issued", "open", "expired", "revoked", "used"}

NoAccount == [exists |-> FALSE, active |-> FALSE, version |-> 1, era |-> 0]

NoContext ==
    [kind |-> Idle, secret |-> NoSecret, read |-> NoAccount, others |-> {}]

\* An account that was just registered, or none; at most one link of each kind.
Init ==
    /\ account \in {NoAccount, [exists |-> TRUE, active |-> TRUE, version |-> 1, era |-> 0]}
    /\ link \in [Links \cup PilotLinks -> {"none", "open"}]
    /\ \A set \in {Links, PilotLinks} : \A k, l \in set :
          link[k] = "open" /\ link[l] = "open" => k = l /\ account.exists
    /\ spent = {}
    /\ sessions = {}
    /\ uses = [s \in Secrets |-> 0]
    /\ overlap = FALSE
    /\ ctx = [h \in Requests |-> NoContext]

Usable == account.exists /\ account.active

\* What a new request for a link revokes: links neither used nor revoked.
Unsettled == {l \in Links : link[l] \in {"issued", "open", "expired"}}

Active(h) == ctx[h].kind # Idle

-----------------------------------------------------------------------------
(***************************************************************************)
(* Sessions.                                                               *)
(***************************************************************************)

\* A session carries auth_version; the era is what it ought to stand for.
Session == [version |-> account.version, era |-> account.era]

\* current_user.
Accepted(s) == Usable /\ s.version = account.version

Login ==
    /\ Usable
    /\ sessions' = sessions \cup {Session}
    /\ UNCHANGED <<account, link, spent, uses, overlap, ctx>>

\* refresh_session: a new session of the version that was asked with.
Refresh(s) ==
    /\ Accepted(s)
    /\ sessions' = sessions \cup {[s EXCEPT !.version = account.version]}
    /\ UNCHANGED <<account, link, spent, uses, overlap, ctx>>

-----------------------------------------------------------------------------
(***************************************************************************)
(* Locks.                                                                  *)
(***************************************************************************)

\* SELECT ... FOR UPDATE of confirm_password_reset.
Locked(l) == \E g \in Requests : Active(g) /\ ctx[g].kind = "reset" /\ ctx[g].secret = l

\* _ensure_pilot_schema: CREATE INDEX IF NOT EXISTS shares the table of links
\* until the transaction ends, and an UPDATE of it waits for the others.
Sharing == {g \in Requests : Active(g) /\ ctx[g].kind \in {"pilot", "pilotRequest"}}

\* What h has to wait for before it can write.
WaitsFor(h, g) ==
    /\ g # h
    /\ \/ /\ ctx[h].kind \in {"reset", "request"}
          /\ Active(g) /\ ctx[g].kind = "reset" /\ ctx[g].secret \in ctx[h].others
       \/ h \in Sharing /\ g \in Sharing

CanWrite(h) == \A g \in Requests : ~ WaitsFor(h, g)

-----------------------------------------------------------------------------
(***************************************************************************)
(* Requests read, and prepare what they write.                             *)
(***************************************************************************)

Begin(h, kind, secret, others) ==
    /\ ~ Active(h)
    /\ account.era < MaxChanges
    /\ ctx' = [ctx EXCEPT ![h] =
          [kind |-> kind, secret |-> secret, read |-> account, others |-> others]]
    /\ UNCHANGED <<account, link, spent, sessions, uses, overlap>>

\* Mutant: the link is read without FOR UPDATE.
ReadUnlocked(l) == link[l] = "open"

\* The lock, and what the row says once it is granted.
ReadLocked(l) == ~ Locked(l) /\ link[l] = "open"

\* confirm_password_reset: the link is locked, and the user's others are read.
BeginReset(h, l) ==
    /\ ReadLocked(l)
    /\ Usable
    /\ Begin(h, "reset", l, Unsettled \ {l})

\* pilot_password_reset_confirm reads its link without a lock.
BeginPilotReset(h, l) ==
    /\ link[l] = "open"
    /\ Usable
    /\ Begin(h, "pilot", l, {})

\* emergency_password_recovery.
BeginRecovery(h, k) ==
    /\ k \notin spent
    /\ Usable
    /\ Begin(h, "recover", k, {})

\* emergency_access_activation creates or repairs the account.
BeginActivation(h, k) ==
    /\ k \notin spent
    /\ Begin(h, "activate", k, {})

\* set_account_state, by an administrator who holds another account.
BeginState(h) ==
    /\ account.exists
    /\ Begin(h, "state", NoSecret, {})

\* register, pilot_register.
BeginRegister(h) ==
    /\ ~ account.exists
    /\ Begin(h, "register", NoSecret, {})

\* A link nobody has been given, or is about to be given.
Fresh(l) ==
    /\ link[l] = "none"
    /\ \A g \in Requests : Active(g) => ctx[g].secret # l

\* request_password_reset, after its cooldown.
BeginRequest(h, l) ==
    /\ Usable
    /\ Fresh(l)
    /\ Begin(h, "request", l, Unsettled)

\* pilot_password_reset_request.
BeginPilotRequest(h, l) ==
    /\ Usable
    /\ Fresh(l)
    /\ Begin(h, "pilotRequest", l, {})

-----------------------------------------------------------------------------
(***************************************************************************)
(* They write, and commit.                                                 *)
(***************************************************************************)

\* Mutant: the version is left as it is when the account is repaired.
NextVersionUnlessRepaired(h) ==
    IF ctx[h].kind = "activate" THEN ctx[h].read.version ELSE ctx[h].read.version + 1

\* user.auth_version += 1, on the row as it was read.
NextVersion(h) == ctx[h].read.version + 1

\* The session writes is_active only where it changes what was read.
Write(h, active) ==
    /\ account' = [exists |-> TRUE, active |-> active, version |-> NextVersion(h),
                   era |-> account.era + 1]
    /\ overlap' = (overlap \/ ctx[h].read # account)
    /\ uses' = [s \in Secrets |-> IF s = ctx[h].secret THEN uses[s] + 1 ELSE uses[s]]

Finish(h) == ctx' = [ctx EXCEPT ![h] = NoContext]

\* The rows of these links, wherever they were not used before.
Revoke(set, l) == IF l \in set /\ link[l] # "used" THEN "revoked" ELSE link[l]

ConfirmReset(h) ==
    /\ Finish(h)
    /\ ctx[h].kind = "reset"
    /\ CanWrite(h)
    /\ Write(h, account.active)
    /\ link' = [l \in DOMAIN link |->
          IF l = ctx[h].secret THEN "used" ELSE Revoke(ctx[h].others, l)]
    /\ UNCHANGED <<spent, sessions>>

ConfirmPilotReset(h) ==
    /\ Finish(h)
    /\ ctx[h].kind = "pilot"
    /\ CanWrite(h)
    /\ Write(h, account.active)
    /\ link' = [link EXCEPT ![ctx[h].secret] = "used"]
    /\ UNCHANGED <<spent, sessions>>

\* Mutant: the use of the key is recorded under no unique key.
KeyNotReserved(k) == TRUE

\* The primary key of the use reserves it.
KeyIsFree(k) == k \notin spent

Recover(h) ==
    /\ Finish(h)
    /\ ctx[h].kind = "recover"
    /\ KeyIsFree(ctx[h].secret)
    /\ Write(h, account.active)
    /\ spent' = spent \cup {ctx[h].secret}
    /\ UNCHANGED <<link, sessions>>

Repair(h) ==
    /\ Finish(h)
    /\ ctx[h].kind = "activate"
    /\ ctx[h].read.exists
    /\ KeyIsFree(ctx[h].secret)
    /\ Write(h, account.active \/ ~ ctx[h].read.active)
    /\ spent' = spent \cup {ctx[h].secret}
    /\ UNCHANGED <<link, sessions>>

\* The account is new, and its email a unique key.
Create(h) ==
    /\ Finish(h)
    /\ ~ ctx[h].read.exists /\ ~ account.exists
    /\ account' = [account EXCEPT !.exists = TRUE, !.active = TRUE]
    /\ UNCHANGED <<link, overlap>>

ActivateNew(h) ==
    /\ ctx[h].kind = "activate"
    /\ KeyIsFree(ctx[h].secret)
    /\ Create(h)
    /\ spent' = spent \cup {ctx[h].secret}
    /\ uses' = [uses EXCEPT ![ctx[h].secret] = @ + 1]
    /\ UNCHANGED sessions

\* The pilot signs a session for the account it has created.
Register(h, signs) ==
    /\ ctx[h].kind = "register"
    /\ Create(h)
    /\ sessions' = IF signs THEN sessions \cup {[version |-> 1, era |-> account.era]}
                   ELSE sessions
    /\ UNCHANGED <<spent, uses>>

\* A state that is what was read already changes nothing but the audit.
ChangeState(h, active) ==
    /\ Finish(h)
    /\ ctx[h].kind = "state"
    /\ active # ctx[h].read.active
    /\ Write(h, active)
    /\ UNCHANGED <<link, spent, sessions>>

IssueLink(h) ==
    /\ Finish(h)
    /\ ctx[h].kind = "request"
    /\ CanWrite(h)
    /\ link' = [l \in DOMAIN link |->
          IF l = ctx[h].secret THEN "issued" ELSE Revoke(ctx[h].others, l)]
    /\ UNCHANGED <<account, spent, sessions, uses, overlap>>

\* UPDATE ... SET used_at = now() WHERE used_at IS NULL, and the new link.
IssuePilotLink(h) ==
    /\ Finish(h)
    /\ ctx[h].kind = "pilotRequest"
    /\ CanWrite(h)
    /\ link' = [l \in DOMAIN link |->
          IF l = ctx[h].secret THEN "issued"
          ELSE IF l \in PilotLinks /\ link[l] # "none" THEN "used" ELSE link[l]]
    /\ UNCHANGED <<account, spent, sessions, uses, overlap>>

-----------------------------------------------------------------------------
(***************************************************************************)
(* Mail, failures, and time.                                               *)
(***************************************************************************)

\* _send_password_reset_email of identity: the background task looks again.
MailLink(l) ==
    /\ link[l] = "issued"
    /\ Usable
    /\ link' = [link EXCEPT ![l] = "open"]
    /\ UNCHANGED <<account, spent, sessions, uses, overlap, ctx>>

\* That of pilot_product_secure sends what was just committed.
MailPilotLink(l) ==
    /\ link[l] = "issued"
    /\ link' = [link EXCEPT ![l] = "open"]
    /\ UNCHANGED <<account, spent, sessions, uses, overlap, ctx>>

Fail(h) ==
    /\ Active(h)
    /\ Finish(h)
    /\ UNCHANGED <<account, link, spent, sessions, uses, overlap>>

\* A unique key, or two that wait for each other, of which one is aborted.
FailInDatabase(h) ==
    /\ \/ ctx[h].secret \in spent
       \/ account.exists /\ ~ ctx[h].read.exists
       \/ \E g \in Requests : WaitsFor(h, g) /\ WaitsFor(g, h)
    /\ Fail(h)

\* The new password is the old one, the worker stops, the client gives up, or
\* there is nothing to change.
Abandon(h) == Fail(h)

Expire(l) ==
    /\ link[l] \in {"issued", "open"}
    /\ link' = [link EXCEPT ![l] = "expired"]
    /\ UNCHANGED <<account, spent, sessions, uses, overlap, ctx>>

-----------------------------------------------------------------------------

Start(h) ==
    \/ \E l \in Links : BeginReset(h, l)
    \/ \E l \in PilotLinks : BeginPilotReset(h, l)
    \/ \E k \in Recoveries : BeginRecovery(h, k)
    \/ \E k \in Activations : BeginActivation(h, k)
    \/ \E l \in Links : BeginRequest(h, l)
    \/ \E l \in PilotLinks : BeginPilotRequest(h, l)
    \/ BeginState(h) \/ BeginRegister(h)

Step(h) ==
    \/ ConfirmReset(h) \/ ConfirmPilotReset(h) \/ Recover(h) \/ Repair(h)
    \/ ActivateNew(h)
    \/ \E signs \in BOOLEAN : Register(h, signs)
    \/ \E active \in BOOLEAN : ChangeState(h, active)
    \/ IssueLink(h) \/ IssuePilotLink(h) \/ FailInDatabase(h)

Next ==
    \/ \E h \in Requests : Start(h) \/ Step(h) \/ Abandon(h)
    \/ \E l \in Links : MailLink(l)
    \/ \E l \in PilotLinks : MailPilotLink(l)
    \/ \E l \in Links \cup PilotLinks : Expire(l)
    \/ Login
    \/ \E s \in sessions : Refresh(s)

Spec == Init /\ [][Next]_vars

------------------------------------------------------------------------------
(***************************************************************************)
(* What the routes of identity promise about one account.                  *)
(***************************************************************************)

Account == [exists : BOOLEAN, active : BOOLEAN, version : Nat, era : Nat]

Context ==
    [kind : Kinds \cup {Idle}, secret : Secrets \cup {NoSecret}, read : Account,
     others : SUBSET Links]

\* Every variable has its type, and a key is recorded as spent when it was used.
AccessTypes ==
    /\ account \in Account
    /\ link \in [Links \cup PilotLinks -> LinkStates]
    /\ spent \in SUBSET Keys
    /\ sessions \in SUBSET [version : Nat, era : Nat]
    /\ uses \in [Secrets -> Nat]
    /\ overlap \in BOOLEAN
    /\ ctx \in [Requests -> Context]
    /\ \A k \in Keys : uses[k] = IF k \in spent THEN 1 ELSE 0

Dead(s) == IF s \in Keys THEN s \in spent ELSE link[s] \in {"used", "revoked"}

(***************************************************************************)
(* A secret that was used, revoked or replaced never changes the account   *)
(* again, whoever else was already holding it (identity.py 199: "o link só *)
(* pode ser usado uma vez"; api.py, "a concurrent replay fails before it   *)
(* can change a password").                                                *)
(***************************************************************************)
DeadSecretsChangeNothing ==
    [][\A s \in Secrets : Dead(s) => uses'[s] = uses[s]]_vars

(***************************************************************************)
(* While no change has overwritten another one, a session is accepted only *)
(* if nothing has changed the account since it was signed: not a password, *)
(* not a deactivation that was taken back.                                 *)
(***************************************************************************)
LoneChangesEndSessions ==
    ~ overlap => \A s \in sessions : Accepted(s) => s.era = account.era

\* docs/SRIS-IDENTITY-AND-ACCESS.md: a successful reset increments auth_version,
\* immediately invalidating the sessions before it.
SessionsEndWithTheirEra == \A s \in sessions : Accepted(s) => s.era = account.era
==============================================================================
