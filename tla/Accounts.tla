------------------------------ MODULE Accounts ------------------------------
(***************************************************************************)
(* Who may act on the platform: organizations and their applications,      *)
(* users and invitations, sessions, passwords, passkeys, and the           *)
(* decisions that take access away.  Every action is one transaction.      *)
(* What a request reads before its transaction (the password hash of a     *)
(* login, the account of a reset request, the reviewers' sessions) is      *)
(* read again inside it, or appears below as a choice among the values it  *)
(* may have had.  All decisions about access hold one advisory lock        *)
(* (lockAccessDecisions); the others lock organization, user, session in   *)
(* that order.                                                             *)
(***************************************************************************)
EXTENDS Integers, FiniteSets

CONSTANTS
    Users,          \* by email address, which is unique
    Orgs,
    Sessions,       \* sessions alive at a time
    Keys,           \* passkeys one user may hold
    Tokens,         \* password reset tokens alive at a time
    Invitations,
    MfaEnforced,    \* config.mfaEnforced
    Holders,        \* the accounts, organizations and sessions at the start
    MaxRequests     \* requests that begin something, in a behaviour

Roles == {"platform", "admin", "member"}

ASSUME RequestsAssumption == MaxRequests \in Nat

\* Absent references are "none"; a session that is no longer there is "gone".
ASSUME NamesAssumption ==
    /\ IsFiniteSet(Users)
    /\ "none" \notin Users /\ "none" \notin Orgs /\ "none" \notin Keys
    /\ "gone" \notin Sessions

VARIABLES
    users,          \* users with user_roles and user_passkeys
    orgs,           \* organizations: absent, open or suspended
    applications,   \* organization_access_applications, by organization
    sessions,       \* sessions neither revoked nor expired, and mfa_challenges
    tokens,         \* password_reset_tokens neither used nor expired
    invitations,    \* user_invitations
    requests        \* how many there were

vars == <<users, orgs, applications, sessions, tokens, invitations, requests>>

NoUser == [status |-> "absent", org |-> "none", role |-> "none", suspended |-> FALSE,
           password |-> 0, keys |-> {}, history |-> FALSE, recovery |-> FALSE]
NoSession == [user |-> "none", password |-> 0, key |-> "none", fresh |-> FALSE,
              challenge |-> "none"]
NoToken == [user |-> "none", locked |-> FALSE]
NoInvitation == [status |-> "none", expired |-> FALSE, org |-> "none", email |-> "none",
                 role |-> "none", by |-> "none"]
NoApplication == [status |-> "none", email |-> "none"]

Request == requests < MaxRequests /\ requests' = requests + 1

\* loadCurrentActor
MayAct(user, states) ==
    user.status = "active" /\ ~user.suspended /\ states[user.org] = "open"
Usable(u) == MayAct(users[u], orgs)

Live(s) == sessions[s] # NoSession
Actor(s) == sessions[s].user

\* requireFresh: verified within five minutes with a key that is still valid.
Fresh(s) == sessions[s].fresh /\ sessions[s].key \in users[Actor(s)].keys

Privileged(role) == role \in {"platform", "admin"}

\* assertMutationAssurance
Assured(s) ==
    /\ Live(s) /\ Usable(Actor(s))
    /\ users[Actor(s)].history \/ (MfaEnforced /\ Privileged(users[Actor(s)].role))
         => Fresh(s)

-----------------------------------------------------------------------------
\* What the decisions below take away from some users.
WithoutSessions(us) ==
    [s \in Sessions |-> IF sessions[s].user \in us THEN NoSession ELSE sessions[s]]
OtherSessionsOut(s) ==
    [x \in Sessions |-> IF x # s /\ sessions[x].user = Actor(s) THEN NoSession ELSE sessions[x]]

\* A token that a reset has locked makes everybody else wait.
TokensFree(us) == \A t \in Tokens : tokens[t].user \in us => ~tokens[t].locked
WithoutTokens(us) ==
    [t \in Tokens |-> IF tokens[t].user \in us THEN NoToken ELSE tokens[t]]

Pending(i) == invitations[i].status = "pending"

InvitationsKept(us) ==
    invitations

\* invited_by_user_id
InvitationsRevokedBy(us) ==
    [i \in Invitations |-> IF Pending(i) /\ invitations[i].by \in us
                           THEN [invitations[i] EXCEPT !.status = "revoked"]
                           ELSE invitations[i]]
InvitationsRevokedTo(o) ==
    [i \in Invitations |-> IF Pending(i) /\ invitations[i].org = o
                           THEN [invitations[i] EXCEPT !.status = "revoked"]
                           ELSE invitations[i]]

MembersOf(o) == {u \in Users : users[u].org = o}
Protected(o) == \E u \in MembersOf(o) : users[u].role = "platform"


-----------------------------------------------------------------------------
(***************************************************************************)
(* Login and passwords.  The login compares the password with a hash read  *)
(* earlier; createSession takes only the hash the user still has.          *)
(***************************************************************************)
LoginHashesRead(u) ==
    0..users[u].password

LoginHashes(u) == {hash \in 0..users[u].password : hash = users[u].password}

createSession(u, s) ==
    /\ sessions[s] = NoSession
    /\ Usable(u) /\ Request
    /\ \E hash \in LoginHashes(u) :
         sessions' = [sessions EXCEPT ![s] = [NoSession EXCEPT !.user = u, !.password = hash]]
    /\ UNCHANGED <<users, orgs, applications, tokens, invitations>>

\* Logout, or the end of the session's day.
revokeSession(s) ==
    /\ Live(s)
    /\ sessions' = [sessions EXCEPT ![s] = NoSession]
    /\ UNCHANGED <<users, orgs, applications, tokens, invitations, requests>>

\* The account was usable when it was read, before the transaction.
requestPasswordReset(u, t) ==
    /\ users[u].status # "absent"
    /\ Request
    /\ TokensFree({u})
    /\ WithoutTokens({u})[t] = NoToken
    /\ tokens' = [WithoutTokens({u}) EXCEPT ![t] = [user |-> u, locked |-> FALSE]]
    /\ UNCHANGED <<users, orgs, applications, sessions, invitations>>

\* resetPassword locks its token and reads the account without locking it,
lockResetToken(t) ==
    /\ tokens[t] # NoToken /\ ~tokens[t].locked
    /\ Usable(tokens[t].user)
    /\ tokens' = [tokens EXCEPT ![t].locked = TRUE]
    /\ UNCHANGED <<users, orgs, applications, sessions, invitations, requests>>

\* and changes the password after hashing it.
resetPassword(t) ==
    /\ tokens[t].locked
    /\ users' = [users EXCEPT ![tokens[t].user].password = @ + 1]
    /\ sessions' = WithoutSessions({tokens[t].user})
    /\ tokens' = [tokens EXCEPT ![t] = NoToken]
    /\ UNCHANGED <<orgs, applications, invitations, requests>>

\* The token expires, or the transaction of a reset fails.
endToken(t) ==
    /\ tokens[t] # NoToken
    /\ tokens' = [tokens EXCEPT ![t] = IF tokens[t].locked
                                       THEN [@ EXCEPT !.locked = FALSE] ELSE NoToken]
    /\ UNCHANGED <<users, orgs, applications, sessions, invitations, requests>>

\* The session that changes the password is the one that stays.  It was authenticated
\* before the transaction, which looks at the user alone: it may be gone by now.
changePassword(u, s) ==
    /\ users[u].status = "active"
    /\ s # "gone" => Actor(s) = u
    /\ Request
    /\ TokensFree({u})
    /\ users' = [users EXCEPT ![u].password = @ + 1]
    /\ sessions' = [x \in Sessions |->
                      IF Actor(x) # u THEN sessions[x]
                      ELSE IF x = s THEN [sessions[x] EXCEPT !.password = users[u].password + 1]
                      ELSE NoSession]
    /\ tokens' = WithoutTokens({u})
    /\ UNCHANGED <<orgs, applications, invitations>>

-----------------------------------------------------------------------------
(***************************************************************************)
(* Passkeys (modules/mfa).  A challenge belongs to a session; verifying    *)
(* consumes it whatever the outcome.                                       *)
(***************************************************************************)
\* lockIdentity
Identified(s) == Live(s) /\ Usable(Actor(s))

MayRegister(s) ==
    LET u == users[Actor(s)]
    IN  /\ u.keys = {} /\ u.history => u.recovery
        /\ u.keys # {} => Fresh(s)
        /\ u.keys # Keys

options(s, purpose) ==
    /\ Identified(s) /\ Request
    /\ \/ purpose = "registration" /\ MayRegister(s)
       \/ purpose = "authentication" /\ users[Actor(s)].keys # {}
    /\ sessions' = [sessions EXCEPT ![s].challenge = purpose]
    /\ UNCHANGED <<users, orgs, applications, tokens, invitations>>

verifyRegistration(s, k) ==
    /\ Identified(s) /\ sessions[s].challenge = "registration"
    /\ MayRegister(s) /\ k \notin users[Actor(s)].keys
    /\ users' = [users EXCEPT ![Actor(s)].keys = @ \cup {k}, ![Actor(s)].history = TRUE,
                              ![Actor(s)].recovery = FALSE]
    /\ sessions' = [sessions EXCEPT ![s].key = k, ![s].fresh = TRUE, ![s].challenge = "none"]
    /\ UNCHANGED <<orgs, applications, tokens, invitations, requests>>

verifyAuthentication(s, k) ==
    /\ Identified(s) /\ sessions[s].challenge = "authentication"
    /\ k \in users[Actor(s)].keys
    /\ sessions' = [sessions EXCEPT ![s].key = k, ![s].fresh = TRUE, ![s].challenge = "none"]
    /\ UNCHANGED <<users, orgs, applications, tokens, invitations, requests>>

\* An invalid response, or five minutes without one.
endChallenge(s) ==
    /\ sessions[s].challenge # "none"
    /\ sessions' = [sessions EXCEPT ![s].challenge = "none"]
    /\ UNCHANGED <<users, orgs, applications, tokens, invitations, requests>>

freshnessEnds(s) ==
    /\ sessions[s].fresh
    /\ sessions' = [sessions EXCEPT ![s].fresh = FALSE]
    /\ UNCHANGED <<users, orgs, applications, tokens, invitations, requests>>

Removable(s, k) ==
    /\ k \in users[Actor(s)].keys
    /\ Cardinality(users[Actor(s)].keys) >= 2 /\ sessions[s].key # k

revokeKey(s, k) ==
    /\ Identified(s) /\ Fresh(s)
    /\ Removable(s, k)
    /\ users' = [users EXCEPT ![Actor(s)].keys = @ \ {k}]
    /\ sessions' = [OtherSessionsOut(s) EXCEPT ![s].challenge = "none"]
    /\ UNCHANGED <<orgs, applications, tokens, invitations, requests>>

-----------------------------------------------------------------------------
(***************************************************************************)
(* Decisions of two reviewers (recovery.ts, privilegedLifecycle.ts).       *)
(***************************************************************************)
ReviewerUnverified(s) ==
    Live(s) /\ Usable(Actor(s)) /\ users[Actor(s)].role = "platform"

\* lockReviewerAssurance
Reviewer(s) ==
    /\ Live(s) /\ Usable(Actor(s)) /\ users[Actor(s)].role = "platform"
    /\ Fresh(s)

Reviewed(s, s2) == Reviewer(s) /\ Reviewer(s2) /\ Actor(s) # Actor(s2)

approveRecovery(s, s2, u) ==
    /\ Request
    /\ Reviewed(s, s2) /\ u \notin {Actor(s), Actor(s2)}
    /\ users[u].status = "active"
    /\ TokensFree({u})
    /\ users' = [users EXCEPT ![u].keys = {}, ![u].recovery = TRUE]
    /\ sessions' = WithoutSessions({u})
    /\ tokens' = WithoutTokens({u})
    /\ UNCHANGED <<orgs, applications, invitations>>

\* Thirty minutes later.
recoveryEnds(u) ==
    /\ users[u].recovery
    /\ users' = [users EXCEPT ![u].recovery = FALSE]
    /\ UNCHANGED <<orgs, applications, sessions, tokens, invitations, requests>>

Administrators == {u \in Users : /\ Usable(u) /\ users[u].role = "platform"
                                 /\ users[u].keys # {}}

suspendUser(s, s2, u) ==
    /\ Request
    /\ Reviewed(s, s2) /\ u \notin {Actor(s), Actor(s2)}
    /\ users[u].status = "active" /\ ~users[u].suspended
    /\ Cardinality(Administrators \ {u}) >= 2
    /\ TokensFree({u})
    /\ users' = [users EXCEPT ![u].suspended = TRUE, ![u].recovery = FALSE]
    /\ sessions' = WithoutSessions({u})
    /\ tokens' = WithoutTokens({u})
    /\ invitations' = InvitationsRevokedBy({u})
    /\ UNCHANGED <<orgs, applications>>

deactivateUser(s, s2, u) ==
    /\ Request
    /\ Reviewed(s, s2) /\ u \notin {Actor(s), Actor(s2)}
    /\ users[u].status = "active"
    /\ Cardinality(Administrators \ {u}) >= 2
    /\ TokensFree({u})
    /\ users' = [users EXCEPT ![u].status = "inactive", ![u].recovery = FALSE, ![u].keys = {}]
    /\ sessions' = WithoutSessions({u})
    /\ tokens' = WithoutTokens({u})
    /\ invitations' = InvitationsRevokedBy({u})
    /\ UNCHANGED <<orgs, applications>>

suspendOrganization(s, s2, o) ==
    /\ Request
    /\ Reviewed(s, s2) /\ o \notin {users[Actor(s)].org, users[Actor(s2)].org}
    /\ orgs[o] = "open"
    /\ Cardinality(Administrators \ MembersOf(o)) >= 2
    /\ TokensFree(MembersOf(o))
    /\ orgs' = [orgs EXCEPT ![o] = "suspended"]
    /\ users' = [u \in Users |-> IF u \in MembersOf(o)
                                 THEN [users[u] EXCEPT !.recovery = FALSE] ELSE users[u]]
    /\ sessions' = WithoutSessions(MembersOf(o))
    /\ tokens' = WithoutTokens(MembersOf(o))
    /\ invitations' = InvitationsRevokedTo(o)
    /\ UNCHANGED applications

\* Either procedure restores; neither brings back what was revoked.
RestoredUser(u) ==
    /\ users[u].status = "active" /\ users[u].suspended
    /\ orgs[users[u].org] # "suspended"
    /\ users' = [users EXCEPT ![u].suspended = FALSE]
    /\ UNCHANGED <<orgs, applications, sessions, tokens, invitations>>

RestoredOrganization(o) ==
    /\ orgs[o] = "suspended"
    /\ orgs' = [orgs EXCEPT ![o] = "open"]
    /\ UNCHANGED <<users, applications, sessions, tokens, invitations>>

decidePrivilegedAccess(s, s2) ==
    \/ \E u \in Users : suspendUser(s, s2, u) \/ deactivateUser(s, s2, u)
    \/ \E o \in Orgs : suspendOrganization(s, s2, o)
    \/ \E u \in Users \ {Actor(s), Actor(s2)} : Request /\ Reviewed(s, s2) /\ RestoredUser(u)
    \/ \E o \in Orgs : /\ Request
                       /\ Reviewed(s, s2) /\ o \notin {users[Actor(s)].org, users[Actor(s2)].org}
                       /\ RestoredOrganization(o)

-----------------------------------------------------------------------------
(***************************************************************************)
(* Routine suspension by one platform administrator (accessControls).      *)
(* Reset tokens and the suspended user's invitations stay.                 *)
(***************************************************************************)
RoutineDecision(s, o) ==
    /\ Request
    /\ Assured(s) /\ users[Actor(s)].role = "platform"
    /\ users[Actor(s)].org # o /\ ~Protected(o)

changeUserAccess(s, u) ==
    /\ users[u].status = "active"
    /\ RoutineDecision(s, users[u].org)
    /\ \/ /\ ~users[u].suspended
          /\ users' = [users EXCEPT ![u].suspended = TRUE]
          /\ sessions' = WithoutSessions({u})
          /\ UNCHANGED <<orgs, applications, tokens, invitations>>
       \/ RestoredUser(u)

changeOrganizationAccess(s, o) ==
    /\ RoutineDecision(s, o)
    /\ \/ /\ orgs[o] = "open"
          /\ orgs' = [orgs EXCEPT ![o] = "suspended"]
          /\ sessions' = WithoutSessions(MembersOf(o))
          /\ invitations' = InvitationsRevokedTo(o)
          /\ UNCHANGED <<users, applications, tokens>>
       \/ RestoredOrganization(o)

(***************************************************************************)
(* Team administration (teamMembers): another role, or deactivation.       *)
(***************************************************************************)
UsableAdmins(o) ==
    {u \in MembersOf(o) : /\ users[u].status = "active" /\ ~users[u].suspended
                          /\ users[u].role = "admin"}

changeMember(s, u, role) ==
    LET o == users[Actor(s)].org
    IN  /\ Request
        /\ Assured(s) /\ users[Actor(s)].role = "admin" /\ ~Protected(o)
        /\ u \in MembersOf(o) \ {Actor(s)}
        /\ u \in UsableAdmins(o) /\ role # "admin" => Cardinality(UsableAdmins(o)) > 1
        /\ TokensFree({u})
        /\ \/ /\ role # "none" /\ users[u].role # role
              /\ users' = [users EXCEPT ![u].role = role, ![u].recovery = FALSE]
           \/ /\ role = "none" /\ users[u].status = "active"
              /\ users' = [users EXCEPT ![u].status = "inactive", ![u].recovery = FALSE,
                                        ![u].keys = {}]
        /\ sessions' = WithoutSessions({u})
        /\ tokens' = WithoutTokens({u})
        /\ invitations' = InvitationsRevokedBy({u})
        /\ UNCHANGED <<orgs, applications>>

-----------------------------------------------------------------------------
(***************************************************************************)
(* Invitations (invitationsWorkflow) and applications of organizations     *)
(* (organizationAccess).                                                   *)
(***************************************************************************)
\* lockInvitationAuthority
Inviter(s) == Assured(s) /\ users[Actor(s)].role \in {"platform", "admin"}
PlatformInviter(s) == users[Actor(s)].role = "platform"

Invitation(o, u, role, by) ==
    [status |-> "pending", expired |-> FALSE, org |-> o, email |-> u, role |-> role, by |-> by]

createPendingInvitation(s, i, o, u, role) ==
    /\ Inviter(s) /\ Request
    /\ invitations[i] = NoInvitation
    /\ orgs[o] = "open"
    /\ PlatformInviter(s) \/ (users[Actor(s)].org = o /\ role = "member")
    /\ users[u].status = "absent"
    /\ \A x \in Invitations : Pending(x) => invitations[x].email # u
    /\ invitations' = [invitations EXCEPT ![i] = Invitation(o, u, role, Actor(s))]
    /\ UNCHANGED <<users, orgs, applications, sessions, tokens>>

acceptInvitation(i) ==
    /\ Pending(i) /\ ~invitations[i].expired
    /\ orgs[invitations[i].org] # "suspended"
    /\ users[invitations[i].email].status = "absent"
    /\ users' = [users EXCEPT ![invitations[i].email] =
                   [NoUser EXCEPT !.status = "active", !.org = invitations[i].org,
                                  !.role = invitations[i].role]]
    /\ invitations' = [invitations EXCEPT ![i].status = "accepted"]
    /\ UNCHANGED <<orgs, applications, sessions, tokens, requests>>

\* lockInvitationTarget
InvitationTarget(s, i) ==
    /\ Inviter(s)
    /\ Pending(i) /\ orgs[invitations[i].org] = "open"
    /\ PlatformInviter(s) \/ users[Actor(s)].org = invitations[i].org

revokeInvitation(s, i) ==
    /\ InvitationTarget(s, i)
    /\ invitations' = [invitations EXCEPT ![i].status = "revoked"]
    /\ UNCHANGED <<users, orgs, applications, sessions, tokens, requests>>

resendInvitation(s, i) ==
    /\ InvitationTarget(s, i) /\ Request
    /\ invitations' = [invitations EXCEPT ![i].expired = FALSE]
    /\ UNCHANGED <<users, orgs, applications, sessions, tokens>>

invitationExpires(i) ==
    /\ Pending(i) /\ ~invitations[i].expired
    /\ invitations' = [invitations EXCEPT ![i].expired = TRUE]
    /\ UNCHANGED <<users, orgs, applications, sessions, tokens, requests>>

\* The queries of create and approve do not ask whether the invitation was revoked.
Registered(u) ==
    \/ users[u].status # "absent"
    \/ \E i \in Invitations : /\ invitations[i].email = u /\ ~invitations[i].expired
                              /\ invitations[i].status \in {"pending", "revoked"}

apply(o, u) ==
    /\ orgs[o] = "absent" /\ applications[o].status \in {"none", "rejected"}
    /\ ~Registered(u) /\ Request
    /\ \A x \in Orgs : applications[x].status \in {"unverified", "review"}
                         => applications[x].email # u
    /\ applications' = [applications EXCEPT ![o] = [status |-> "unverified", email |-> u]]
    /\ UNCHANGED <<users, orgs, sessions, tokens, invitations>>

verifyEmail(o) ==
    /\ applications[o].status = "unverified"
    /\ applications' = [applications EXCEPT ![o].status = "review"]
    /\ UNCHANGED <<users, orgs, sessions, tokens, invitations, requests>>

removeUnverified(o) ==
    /\ applications[o].status = "unverified"
    /\ applications' = [applications EXCEPT ![o] = NoApplication]
    /\ UNCHANGED <<users, orgs, sessions, tokens, invitations, requests>>

approve(s, o, i) ==
    /\ Inviter(s) /\ PlatformInviter(s)
    /\ applications[o].status = "review"
    /\ orgs[o] = "absent" /\ ~Registered(applications[o].email)
    /\ invitations[i] = NoInvitation
    /\ orgs' = [orgs EXCEPT ![o] = "open"]
    /\ invitations' = [invitations EXCEPT ![i] =
                         Invitation(o, applications[o].email, "admin", Actor(s))]
    /\ applications' = [applications EXCEPT ![o].status = "approved"]
    /\ UNCHANGED <<users, sessions, tokens, requests>>

\* assertMutationAssurance alone: without a passkey nothing asks for the session again.
reject(u, o) ==
    /\ Usable(u) /\ users[u].role = "platform"
    /\ users[u].history \/ MfaEnforced => \E s \in Sessions : Actor(s) = u /\ Fresh(s)
    /\ applications[o].status = "review"
    /\ applications' = [applications EXCEPT ![o].status = "rejected"]
    /\ UNCHANGED <<users, orgs, sessions, tokens, invitations, requests>>

-----------------------------------------------------------------------------
Init ==
    /\ users = Holders.users
    /\ orgs = Holders.orgs
    /\ sessions = Holders.sessions
    /\ applications = [o \in Orgs |-> NoApplication]
    /\ tokens = [t \in Tokens |-> NoToken]
    /\ invitations = [i \in Invitations |-> NoInvitation]
    /\ requests = 0

SessionStep(s) ==
    \/ \E u \in Users : createSession(u, s)
    \/ revokeSession(s)
    \/ \E purpose \in {"registration", "authentication"} : options(s, purpose)
    \/ \E k \in Keys : verifyRegistration(s, k) \/ verifyAuthentication(s, k) \/ revokeKey(s, k)
    \/ endChallenge(s) \/ freshnessEnds(s)

PasswordStep ==
    \/ \E u \in Users, s \in Sessions \cup {"gone"} : changePassword(u, s)
    \/ \E u \in Users, t \in Tokens : requestPasswordReset(u, t)
    \/ \E t \in Tokens : lockResetToken(t) \/ resetPassword(t) \/ endToken(t)

DecisionStep(s) ==
    \/ \E s2 \in Sessions : decidePrivilegedAccess(s, s2)
                              \/ \E u \in Users : approveRecovery(s, s2, u)
    \/ \E u \in Users : changeUserAccess(s, u)
    \/ \E o \in Orgs : changeOrganizationAccess(s, o)
    \/ \E u \in Users, role \in {"admin", "member", "none"} : changeMember(s, u, role)

InvitationStep(s) ==
    \/ \E i \in Invitations, o \in Orgs, u \in Users, role \in Roles :
         createPendingInvitation(s, i, o, u, role)
    \/ \E i \in Invitations : revokeInvitation(s, i) \/ resendInvitation(s, i)
    \/ \E o \in Orgs, i \in Invitations : approve(s, o, i)

Next ==
    \/ \E s \in Sessions : SessionStep(s) \/ DecisionStep(s) \/ InvitationStep(s)
    \/ PasswordStep
    \/ \E u \in Users : recoveryEnds(u)
    \/ \E i \in Invitations : acceptInvitation(i) \/ invitationExpires(i)
    \/ \E o \in Orgs, u \in Users : apply(o, u) \/ reject(u, o)
    \/ \E o \in Orgs : verifyEmail(o) \/ removeUnverified(o)

Spec == Init /\ [][Next]_vars

-----------------------------------------------------------------------------
UserRows ==
    [status : {"absent", "active", "inactive"}, org : Orgs \cup {"none"},
     role : Roles \cup {"none"}, suspended : BOOLEAN, password : Nat, keys : SUBSET Keys,
     history : BOOLEAN, recovery : BOOLEAN]
OrgStates == {"absent", "open", "suspended"}
SessionRows ==
    [user : Users \cup {"none"}, password : Nat, key : Keys \cup {"none"}, fresh : BOOLEAN,
     challenge : {"none", "registration", "authentication"}]
TokenRows == [user : Users \cup {"none"}, locked : BOOLEAN]
InvitationRows ==
    [status : {"none", "pending", "accepted", "revoked"}, expired : BOOLEAN,
     org : Orgs \cup {"none"}, email : Users \cup {"none"}, role : Roles \cup {"none"},
     by : Users \cup {"none"}]
ApplicationRows ==
    [status : {"none", "unverified", "review", "approved", "rejected"},
     email : Users \cup {"none"}]

TypeOK ==
    /\ users \in [Users -> UserRows]
    /\ orgs \in [Orgs -> OrgStates]
    /\ applications \in [Orgs -> ApplicationRows]
    /\ sessions \in [Sessions -> SessionRows]
    /\ tokens \in [Tokens -> TokenRows]
    /\ invitations \in [Invitations -> InvitationRows]
    /\ requests \in 0..MaxRequests

\* What the session was opened with and verified by is still what the user has.
Current(session, user) ==
    /\ session.password = user.password
    /\ session.key # "none" => session.key \in user.keys

\* No session outlives what it stands on: the account and its organization are usable, the
\* password is the one the session was opened under or changed itself, and the passkey it
\* was verified with is not revoked, however logins in flight, suspensions, team changes,
\* resets and key removals interleave.
SessionsAreCurrent ==
    \A s \in Sessions :
        Live(s) => Usable(Actor(s)) /\ Current(sessions[s], users[Actor(s)])

\* Two usable platform administrators with a passkey remain, so that there always are
\* reviewers: approveRecovery, which takes every key of its target and counts nobody,
\* leaves the two reviewers themselves.
AdministratorsRemain == Cardinality(Administrators) >= 2

\* An invitation that can still be accepted leads into an organization that is not
\* suspended, and whoever sent it still has an active account.
PendingInvitationsHold ==
    \A i \in Invitations :
        Pending(i) => /\ orgs[invitations[i].org] = "open"
                      /\ users[invitations[i].by].status = "active"

(***************************************************************************)
(* The start: nobody acts for an organization that is not there, sessions  *)
(* are those of users who may act, and the platform has two administrators *)
(* with a passkey, as the first decision about access requires.            *)
(***************************************************************************)
ASSUME HoldersAssumption ==
    /\ Holders.users \in [Users -> UserRows]
    /\ Holders.orgs \in [Orgs -> OrgStates]
    /\ Holders.sessions \in [Sessions -> SessionRows]
    /\ \A u \in Users : Holders.users[u].status # "absent" => Holders.users[u].org \in Orgs
    /\ \A s \in Sessions :
          LET session == Holders.sessions[s]
          IN  session # NoSession =>
                /\ session.user \in Users
                /\ MayAct(Holders.users[session.user], Holders.orgs)
                /\ Current(session, Holders.users[session.user])
    /\ \E u, v \in Users : u # v /\ \A x \in {u, v} :
          /\ MayAct(Holders.users[x], Holders.orgs)
          /\ Holders.users[x].role = "platform" /\ Holders.users[x].keys # {}
=============================================================================
