----------------------------- MODULE Invitations -----------------------------
(***************************************************************************)
(* The invitations of one person to one organisation, and the membership   *)
(* they lead to.  Administrators create, resend and revoke; the person     *)
(* accepts with the token of the mail; owners change roles and remove      *)
(* members.  Only the acceptance locks a row.  All others read it, check   *)
(* it, and update it by its key when they commit; an update writes those   *)
(* columns only that differ from what the request has read.                *)
(***************************************************************************)
EXTENDS Integers, FiniteSets

CONSTANTS
    Calls,
    Rows,      \* the rows of user_invitations
    Tokens,    \* the tokens they are given, one after the other
    None

ASSUME InvitationAssumption == None \notin Tokens \cup Rows

VARIABLES
    row,      \* user_invitations
    person,  \* whether the person has an account
    member,   \* the membership: its role, and the number of its row
    mails,    \* the background tasks that send a token, and whether they have looked
    inbox,    \* the tokens the person has received
    admitted, \* how often each invitation has been accepted
    call       \* what a request is for, and what it has read

invitationVars == <<row, person, member, mails, inbox, admitted, call>>

\* Roles: the others of INVITABLE_BY_ADMIN count as reviewers.
Roles == {"owner", "admin", "reviewer"}

\* _assert_invitable.
Invitable(inviter) == IF inviter = "owner" THEN {"admin", "reviewer"} ELSE {"reviewer"}

NoRow ==
    [made |-> FALSE, accepted |-> FALSE, revoked |-> FALSE, late |-> FALSE,
     token |-> None, role |-> "reviewer"]

NoMember == [role |-> "none", number |-> 0]

CallKinds == {"create", "resend", "revoke", "accept", "role", "remove", "activate"}

NoCall ==
    [kind |-> "none", at |-> None, token |-> None, revoked |-> FALSE,
     member |-> NoMember, account |-> FALSE, role |-> "reviewer", others |-> {}]

InvitationsInit ==
    /\ row = [i \in Rows |-> NoRow]
    /\ person \in BOOLEAN
    /\ member = NoMember
    /\ mails = {}
    /\ inbox = {}
    /\ admitted = [i \in Rows |-> 0]
    /\ call = [h \in Calls |-> NoCall]

\* _invitation_status.
Status(r) ==
    IF r.accepted THEN "accepted"
    ELSE IF r.revoked THEN "revoked"
    ELSE IF r.late THEN "expired"
    ELSE "pending"

Pending(i) == row[i].made /\ Status(row[i]) = "pending"

IsMember == member.role # "none"

Busy(h) == call[h].kind # "none"

\* _new_token: one that nobody has seen.
FreshToken(t) ==
    /\ \A i \in Rows : row[i].token # t
    /\ t \notin inbox
    /\ \A m \in mails : m.token # t

\* SELECT ... FOR UPDATE of accept_invitation, until it commits.
LockedRow(i) == \E g \in Calls : call[g].kind = "accept" /\ call[g].at = i

-----------------------------------------------------------------------------
(***************************************************************************)
(* Calls read and check.                                                   *)
(***************************************************************************)

BeginCall(h, read) ==
    /\ ~ Busy(h)
    /\ call' = [call EXCEPT ![h] = read]
    /\ UNCHANGED <<row, person, member, mails, inbox, admitted>>

\* create_invitation: no member, and nothing pending; what has expired is revoked.
BeginCreate(h, inviter, role) ==
    /\ role \in Invitable(inviter)
    /\ ~ (person /\ IsMember)
    /\ \A i \in Rows : ~ Pending(i)
    /\ BeginCall(h, [NoCall EXCEPT !.kind = "create", !.role = role,
                    !.others = {i \in Rows : row[i].made /\ Status(row[i]) = "expired"}])

Reissuable(i, inviter) ==
    /\ row[i].made
    /\ ~ row[i].accepted
    /\ row[i].role \in Invitable(inviter)

\* resend_invitation, which also revives what was revoked.
BeginResend(h, i, inviter) ==
    /\ Reissuable(i, inviter)
    /\ BeginCall(h, [NoCall EXCEPT !.kind = "resend", !.at = i, !.revoked = row[i].revoked])

\* revoke_invitation.
BeginRevoke(h, i, inviter) ==
    /\ Reissuable(i, inviter)
    /\ BeginCall(h, [NoCall EXCEPT !.kind = "revoke", !.at = i])

\* Mutant: the row is read without FOR UPDATE.
HeldUnlocked(i, t) == row[i].token = t /\ Pending(i)

\* The row of the token as it is once the lock is granted.
Held(i, t) == ~ LockedRow(i) /\ row[i].token = t /\ Pending(i)

\* accept_invitation.
BeginAccept(h, t) ==
    /\ t \in inbox
    /\ \E i \in Rows :
          /\ Held(i, t)
          /\ BeginCall(h, [NoCall EXCEPT !.kind = "accept", !.at = i, !.token = t,
                          !.role = row[i].role, !.member = member, !.account = person])

\* update_membership_role, set_account_role.
BeginRole(h, role) ==
    /\ IsMember /\ member.role # "owner"
    /\ BeginCall(h, [NoCall EXCEPT !.kind = "role", !.role = role, !.member = member])

\* remove_membership.
BeginRemove(h) ==
    /\ IsMember /\ member.role # "owner"
    /\ BeginCall(h, [NoCall EXCEPT !.kind = "remove", !.member = member])

\* emergency_access_activation makes the person an owner.
BeginActivate(h) ==
    BeginCall(h, [NoCall EXCEPT !.kind = "activate", !.member = member, !.account = person])

-----------------------------------------------------------------------------
(***************************************************************************)
(* They write, and commit.                                                 *)
(***************************************************************************)

EndCall(h, kind) ==
    /\ call[h].kind = kind
    /\ call' = [call EXCEPT ![h] = NoCall]

Task(i, t) == [at |-> i, token |-> t, looked |-> FALSE]

\* The new row, and a background task for its mail.
CreateInvitation(h, i, t) ==
    /\ EndCall(h, "create")
    /\ ~ row[i].made
    /\ FreshToken(t)
    /\ \A j \in call[h].others : ~ LockedRow(j)
    /\ row' = [j \in Rows |->
          IF j = i THEN [NoRow EXCEPT !.made = TRUE, !.token = t, !.role = call[h].role]
          ELSE IF j \in call[h].others THEN [row[j] EXCEPT !.revoked = TRUE]
          ELSE row[j]]
    /\ mails' = mails \cup {Task(i, t)}
    /\ UNCHANGED <<person, member, inbox, admitted>>

\* A new token; what was revoked when it was read is not any more.
Resend(h, t) ==
    LET i == call[h].at IN
    /\ EndCall(h, "resend")
    /\ ~ LockedRow(i)
    /\ FreshToken(t)
    /\ row' = [row EXCEPT
          ![i].token = t,
          ![i].revoked = @ /\ ~ call[h].revoked,
          ![i].late = FALSE]
    /\ mails' = mails \cup {Task(i, t)}
    /\ UNCHANGED <<person, member, inbox, admitted>>

RevokeInvitation(h) ==
    /\ EndCall(h, "revoke")
    /\ ~ LockedRow(call[h].at)
    /\ row' = [row EXCEPT ![call[h].at].revoked = TRUE]
    /\ UNCHANGED <<person, member, mails, inbox, admitted>>

\* A user, and a membership, where there was none: both have unique keys.
KeysAreFree(h) ==
    /\ person => call[h].account
    /\ IsMember => call[h].member.role # "none"

Joined(role) == [role |-> role, number |-> member.number + 1]

\* A membership that was there keeps its role.
JoinedOnce(h) ==
    IF call[h].member.role = "none" THEN Joined(call[h].role) ELSE member

Accept(h) ==
    /\ EndCall(h, "accept")
    /\ KeysAreFree(h)
    /\ person' = TRUE
    /\ member' = JoinedOnce(h)
    /\ row' = [row EXCEPT ![call[h].at].accepted = TRUE]
    /\ admitted' = [admitted EXCEPT ![call[h].at] = @ + 1]
    /\ UNCHANGED <<mails, inbox>>

\* The membership that was read is still there.
SameMember(h) == IsMember /\ member.number = call[h].member.number

ChangeRole(h) ==
    /\ EndCall(h, "role")
    /\ SameMember(h)
    /\ member' = (IF call[h].role = call[h].member.role THEN member
                  ELSE [member EXCEPT !.role = call[h].role])
    /\ UNCHANGED <<row, person, mails, inbox, admitted>>

RemoveMember(h) ==
    /\ EndCall(h, "remove")
    /\ SameMember(h)
    /\ member' = [member EXCEPT !.role = "none"]
    /\ UNCHANGED <<row, person, mails, inbox, admitted>>

Activate(h) ==
    /\ EndCall(h, "activate")
    /\ KeysAreFree(h)
    /\ call[h].member.role # "none" => SameMember(h)
    /\ person' = TRUE
    /\ member' = IF call[h].member.role = "none" THEN Joined("owner")
                 ELSE IF call[h].member.role = "owner" THEN member
                 ELSE [member EXCEPT !.role = "owner"]
    /\ UNCHANGED <<row, mails, inbox, admitted>>

\* A unique key, a row that has gone, a wrong password, or a crash.
FailCall(h) ==
    /\ Busy(h)
    /\ call' = [call EXCEPT ![h] = NoCall]
    /\ UNCHANGED <<row, person, member, mails, inbox, admitted>>

-----------------------------------------------------------------------------
(***************************************************************************)
(* _send_invitation_email.                                                 *)
(***************************************************************************)

\* Only what is pending is sent; which token is current is not looked at.
LookBeforeMail(m) ==
    /\ ~ m.looked
    /\ mails' = (mails \ {m}) \cup
                (IF Pending(m.at) THEN {[m EXCEPT !.looked = TRUE]} ELSE {})
    /\ UNCHANGED <<row, person, member, inbox, admitted, call>>

\* send_transactional_email; what is recorded of it nobody decides upon.
Mail(m, arrives) ==
    /\ m.looked
    /\ mails' = mails \ {m}
    /\ inbox' = IF arrives THEN inbox \cup {m.token} ELSE inbox
    /\ UNCHANGED <<row, person, member, admitted, call>>

\* The process stops, and its background tasks with it.
LoseTasks ==
    /\ mails # {}
    /\ mails' = {}
    /\ UNCHANGED <<row, person, member, inbox, admitted, call>>

ExpireInvitation(i) ==
    /\ row[i].made /\ ~ row[i].late
    /\ row' = [row EXCEPT ![i].late = TRUE]
    /\ UNCHANGED <<person, member, mails, inbox, admitted, call>>

-----------------------------------------------------------------------------

StartCall(h) ==
    \/ \E inviter \in {"owner", "admin"} :
          \/ \E role \in Roles : BeginCreate(h, inviter, role)
          \/ \E i \in Rows : BeginResend(h, i, inviter) \/ BeginRevoke(h, i, inviter)
    \/ \E t \in Tokens : BeginAccept(h, t)
    \/ \E role \in Roles \ {"owner"} : BeginRole(h, role)
    \/ BeginRemove(h) \/ BeginActivate(h)

CallStep(h) ==
    \/ \E i \in Rows, t \in Tokens : CreateInvitation(h, i, t)
    \/ \E t \in Tokens : Resend(h, t)
    \/ RevokeInvitation(h) \/ Accept(h) \/ ChangeRole(h) \/ RemoveMember(h) \/ Activate(h)
    \/ FailCall(h)

Deliver(m) ==
    \/ LookBeforeMail(m)
    \/ \E arrives \in BOOLEAN : Mail(m, arrives)

InvitationsNext ==
    \/ \E h \in Calls : StartCall(h) \/ CallStep(h)
    \/ \E m \in mails : Deliver(m)
    \/ \E i \in Rows : ExpireInvitation(i)
    \/ LoseTasks

InvitationsSpec == InvitationsInit /\ [][InvitationsNext]_invitationVars

------------------------------------------------------------------------------
(***************************************************************************)
(* What an invitation promises.                                            *)
(***************************************************************************)

Row ==
    [made : BOOLEAN, accepted : BOOLEAN, revoked : BOOLEAN, late : BOOLEAN,
     token : Tokens \cup {None}, role : Roles]

Member == [role : Roles \cup {"none"}, number : Nat]

CallContext ==
    [kind : CallKinds \cup {"none"}, at : Rows \cup {None}, token : Tokens \cup {None},
     revoked : BOOLEAN, member : Member, account : BOOLEAN, role : Roles,
     others : SUBSET Rows]

\* Every variable has its type, and an accepted invitation was accepted once.
InvitationTypes ==
    /\ row \in [Rows -> Row]
    /\ person \in BOOLEAN
    /\ member \in Member
    /\ mails \in SUBSET [at : Rows, token : Tokens, looked : BOOLEAN]
    /\ inbox \in SUBSET Tokens
    /\ call \in [Calls -> CallContext]
    /\ admitted = [i \in Rows |-> IF row[i].accepted THEN 1 ELSE 0]

(***************************************************************************)
(* An acceptance takes effect on the invitation it has checked: nobody has *)
(* accepted or revoked it or given it a new token in between, whoever      *)
(* tries (identity.py 519: the row is locked until the acceptance commits).*)
(***************************************************************************)
AcceptedAsChecked ==
    [][\A h \in Calls :
        LET i == call[h].at IN
        call[h].kind = "accept" /\ admitted' # admitted /\ call'[h].kind = "none" =>
            /\ ~ row[i].accepted
            /\ ~ row[i].revoked
            /\ row[i].token = call[h].token]_invitationVars

(***************************************************************************)
(* Accepting an invitation makes a member and never changes what a member  *)
(* is: with two invitations of different roles, or an owner who is invited *)
(* as less, the membership that is there keeps its role.                   *)
(***************************************************************************)
RolesSurviveAcceptance ==
    [][admitted' # admitted /\ IsMember => member' = member]_invitationVars

\* An invitation is accepted as it stood, and never changes a member's role.
InvitationsAreKept == AcceptedAsChecked /\ RolesSurviveAcceptance
==============================================================================
