--------------------------- MODULE AccountsProofs ---------------------------
(***************************************************************************)
(* Theorems about Accounts for all sets of users, organizations, sessions, *)
(* passkeys, reset tokens and invitations, and any number of requests.     *)
(***************************************************************************)
EXTENDS Accounts, FiniteSetTheorems, TLAPS

-----------------------------------------------------------------------------
(***************************************************************************)
(* The inductive invariant.  Rows that are in use name rows that exist: an *)
(* account has an organization, sessions and tokens have a user, and an    *)
(* open invitation has an organization, an address and a sender.           *)
(***************************************************************************)
AccountRows == {r \in UserRows : r.status # "absent" => r.org \in Orgs}
LoginRows == {r \in SessionRows : r = NoSession \/ r.user \in Users}
ResetRows == {r \in TokenRows : r = NoToken \/ r.user \in Users}
ApplicantRows == {r \in ApplicationRows : r.status # "none" => r.email \in Users}
LetterRows ==
    {r \in InvitationRows :
        r.status = "pending" => /\ r.org \in Orgs /\ r.email \in Users
                                /\ r.by \in Users /\ r.role \in Roles}

Rows ==
    /\ users \in [Users -> AccountRows]
    /\ orgs \in [Orgs -> OrgStates]
    /\ applications \in [Orgs -> ApplicantRows]
    /\ sessions \in [Sessions -> LoginRows]
    /\ tokens \in [Tokens -> ResetRows]
    /\ invitations \in [Invitations -> LetterRows]
    /\ requests \in 0..MaxRequests

\* Two different administrators, which says the same without counting.
TwoRemain == \E u, v \in Administrators : u # v

AccountsInv == Rows /\ SessionsAreCurrent /\ PendingInvitationsHold /\ TwoRemain

-----------------------------------------------------------------------------
(* Counting to two.                                                        *)

\* Two different elements of a finite set are two or more.
LEMMA ManyOfTwo ==
    ASSUME NEW S, IsFiniteSet(S), NEW x \in S, NEW y \in S, x # y
    PROVE  Cardinality(S) >= 2
<1>1. Cardinality(S \ {x}) = Cardinality(S) - 1 /\ IsFiniteSet(S \ {x})
    BY FS_RemoveElement
<1>2. Cardinality(S \ {x}) # 0
    BY <1>1, FS_EmptySet
<1>3. Cardinality(S) \in Nat /\ Cardinality(S \ {x}) \in Nat
    BY <1>1, FS_CardinalityType
<1>. QED
    BY <1>1, <1>2, <1>3

-----------------------------------------------------------------------------
(* Rows.                                                                   *)

\* The rows the invariant describes are rows of the schema.
LEMMA RowsAreTyped == Rows => TypeOK
BY DEF Rows, TypeOK, AccountRows, ApplicantRows, LoginRows, ResetRows, LetterRows

\* The blank rows have the types of their tables.
LEMMA Blanks ==
    /\ NoUser \in AccountRows /\ NoSession \in LoginRows /\ NoToken \in ResetRows
    /\ NoApplication \in ApplicantRows /\ NoInvitation \in LetterRows
    /\ NoSession.user \notin Users /\ NoToken.user \notin Users
    /\ NoSession.challenge = "none" /\ ~NoSession.fresh /\ ~NoToken.locked
    /\ NoInvitation.status = "none"
BY NamesAssumption
   DEF NoUser, UserRows, AccountRows, NoSession, SessionRows, LoginRows, NoToken, TokenRows, ResetRows,
       NoInvitation, InvitationRows, LetterRows, NoApplication, ApplicationRows, ApplicantRows, Roles

\* Who acts through a session is a user: the blank session acts for nobody.
LEMMA ActorsExist ==
    ASSUME Rows, NEW s \in Sessions
    PROVE  /\ sessions[s] \in SessionRows /\ sessions[s] \in LoginRows
           /\ Live(s) <=> Actor(s) \in Users
           /\ Live(s) => users[Actor(s)] \in AccountRows
           /\ sessions[s].challenge # "none" => Actor(s) \in Users
           /\ sessions[s].fresh => Actor(s) \in Users
BY Blanks DEF Rows, LoginRows, Live, Actor

\* A change to a session in use, other than of its user, leaves it a row of its table.
LEMMA SessionChanged ==
    ASSUME Rows, NEW s \in Sessions, Actor(s) \in Users,
           NEW r \in SessionRows, r.user = Actor(s)
    PROVE  [sessions EXCEPT ![s] = r] \in [Sessions -> LoginRows]
BY DEF Rows, LoginRows

\* A change to an account, other than of its organization, leaves it a row of its table.
LEMMA AccountChanged ==
    ASSUME Rows, NEW u \in Users, users[u].status # "absent",
           NEW r \in UserRows, r.org = users[u].org
    PROVE  [users EXCEPT ![u] = r] \in [Users -> AccountRows]
BY DEF Rows, AccountRows

\* What ends for some users leaves the tables well formed.
LEMMA WithoutRows ==
    ASSUME Rows, NEW us
    PROVE  /\ WithoutSessions(us) \in [Sessions -> LoginRows]
           /\ WithoutTokens(us) \in [Tokens -> ResetRows]
BY Blanks DEF Rows, WithoutSessions, WithoutTokens

\* A revoked invitation is a row of its table.
LEMMA Revoked ==
    ASSUME Rows, NEW i \in Invitations
    PROVE  [invitations[i] EXCEPT !.status = "revoked"] \in LetterRows
BY DEF Rows, LetterRows, InvitationRows

\* ... so revoking some leaves the table well formed.
LEMMA RevokedRows ==
    ASSUME Rows
    PROVE  /\ \A us : InvitationsRevokedBy(us) \in [Invitations -> LetterRows]
           /\ \A o : InvitationsRevokedTo(o) \in [Invitations -> LetterRows]
BY Revoked DEF Rows, InvitationsRevokedBy, InvitationsRevokedTo

\* A request is counted within the bound.
LEMMA RequestCounted == Rows /\ Request => requests' \in 0..MaxRequests
BY RequestsAssumption DEF Rows, Request

\* Sessions come and go, are challenged and verified; keys are added and taken away.
LEMMA SessionRowsKept ==
    ASSUME Rows, NEW s \in Sessions, SessionStep(s)
    PROVE  Rows'
<1>1. ASSUME NEW u \in Users, createSession(u, s)
      PROVE  Rows'
    <2>1. PICK hash \in 0..users[u].password :
              sessions' = [sessions EXCEPT ![s] = [NoSession EXCEPT !.user = u, !.password = hash]]
        BY <1>1 DEF createSession, LoginHashes
    <2>2. users[u].password \in Nat
        BY DEF Rows, AccountRows, UserRows
    <2>3. NoSession \in SessionRows
        BY Blanks DEF LoginRows
    <2>4. /\ [NoSession EXCEPT !.user = u, !.password = hash] \in SessionRows
          /\ [NoSession EXCEPT !.user = u, !.password = hash].user = u
        <3>1. hash \in Nat
            BY <2>2
        <3>. QED
            BY <2>3, <3>1 DEF SessionRows
    <2>5. [NoSession EXCEPT !.user = u, !.password = hash] \in LoginRows
        BY <2>4 DEF LoginRows
    <2>. QED
        BY <1>1, <2>1, <2>5, RequestCounted DEF createSession, Rows
<1>2. ASSUME revokeSession(s)
      PROVE  Rows'
    BY <1>2, Blanks DEF revokeSession, Rows
<1>3. ASSUME NEW purpose \in {"registration", "authentication"}, options(s, purpose)
      PROVE  Rows'
    <2>1. [sessions[s] EXCEPT !.challenge = purpose] \in SessionRows
        BY ActorsExist DEF SessionRows
    <2>2. Actor(s) \in Users /\ [sessions[s] EXCEPT !.challenge = purpose].user = Actor(s)
        BY <1>3, ActorsExist DEF options, Identified, Actor, SessionRows
    <2>3. [sessions EXCEPT ![s].challenge = purpose] \in [Sessions -> LoginRows]
        BY <2>1, <2>2, SessionChanged
    <2>. QED
        BY <1>3, <2>3, RequestCounted DEF options, Rows
<1>4. ASSUME NEW k \in Keys, verifyRegistration(s, k) \/ verifyAuthentication(s, k)
      PROVE  Rows'
    <2>. DEFINE session == [sessions[s] EXCEPT !.key = k, !.fresh = TRUE, !.challenge = "none"]
                user == [users[Actor(s)] EXCEPT !.keys = @ \cup {k}, !.history = TRUE,
                                                !.recovery = FALSE]
    <2>1. session \in SessionRows /\ session.user = Actor(s)
        BY ActorsExist DEF SessionRows, Actor
    <2>2. Actor(s) \in Users /\ users[Actor(s)].status = "active"
        BY <1>4, ActorsExist DEF verifyRegistration, verifyAuthentication, Identified, Usable, MayAct
    <2>3. user \in UserRows /\ user.org = users[Actor(s)].org
        BY <2>2, ActorsExist DEF AccountRows, UserRows
    <2>. HIDE DEF session
    <2>10. [sessions EXCEPT ![s] = session] \in [Sessions -> LoginRows]
        BY <2>1, <2>2, SessionChanged
    <2>4. sessions' \in [Sessions -> LoginRows]
        BY <1>4, <2>10 DEF verifyRegistration, verifyAuthentication, session
    <2>5. [users EXCEPT ![Actor(s)] = user] \in [Users -> AccountRows]
        BY <2>2, <2>3, AccountChanged
    <2>6. users' \in {users, [users EXCEPT ![Actor(s)] = user]}
        BY <1>4 DEF verifyRegistration, verifyAuthentication
    <2>. QED
        BY <1>4, <2>4, <2>5, <2>6 DEF verifyRegistration, verifyAuthentication, Rows
<1>5. ASSUME NEW k \in Keys, revokeKey(s, k)
      PROVE  Rows'
    <2>. DEFINE user == [users[Actor(s)] EXCEPT !.keys = @ \ {k}]
    <2>1. Actor(s) \in Users /\ users[Actor(s)].status = "active" /\ sessions[s].user \in Users
        BY <1>5, ActorsExist DEF revokeKey, Identified, Usable, MayAct, Actor
    <2>2. user \in UserRows /\ user.org = users[Actor(s)].org
        BY <2>1, ActorsExist DEF AccountRows, UserRows
    <2>3. users' \in [Users -> AccountRows]
        BY <1>5, <2>1, <2>2, AccountChanged DEF revokeKey
    <2>4. OtherSessionsOut(s) \in [Sessions -> LoginRows] /\ OtherSessionsOut(s)[s] = sessions[s]
        BY Blanks DEF OtherSessionsOut, Rows
    <2>5. [sessions[s] EXCEPT !.challenge = "none"] \in LoginRows
        BY <2>1, ActorsExist DEF LoginRows, SessionRows
    <2>6. sessions' \in [Sessions -> LoginRows]
        BY <1>5, <2>4, <2>5 DEF revokeKey
    <2>. QED
        BY <1>5, <2>3, <2>6 DEF revokeKey, Rows
<1>6. ASSUME endChallenge(s) \/ freshnessEnds(s)
      PROVE  Rows'
    <2>1. /\ [sessions[s] EXCEPT !.challenge = "none"] \in SessionRows
          /\ [sessions[s] EXCEPT !.challenge = "none"].user = Actor(s)
          /\ [sessions[s] EXCEPT !.fresh = FALSE] \in SessionRows
          /\ [sessions[s] EXCEPT !.fresh = FALSE].user = Actor(s)
        BY ActorsExist DEF SessionRows, Actor
    <2>2. Actor(s) \in Users
        BY <1>6, ActorsExist DEF endChallenge, freshnessEnds
    <2>3. /\ [sessions EXCEPT ![s].challenge = "none"] \in [Sessions -> LoginRows]
          /\ [sessions EXCEPT ![s].fresh = FALSE] \in [Sessions -> LoginRows]
        BY <2>1, <2>2, SessionChanged
    <2>. QED
        BY <1>6, <2>3 DEF endChallenge, freshnessEnds, Rows
<1>. QED
    BY <1>1, <1>2, <1>3, <1>4, <1>5, <1>6 DEF SessionStep

\* Passwords are changed, by their users or with a token.
LEMMA PasswordRowsKept == Rows /\ PasswordStep => Rows'
<1>. SUFFICES ASSUME Rows, PasswordStep PROVE Rows'
    OBVIOUS
<1>1. ASSUME NEW u \in Users, users[u].status # "absent"
      PROVE  [users EXCEPT ![u].password = @ + 1] \in [Users -> AccountRows]
    <2>1. /\ [users[u] EXCEPT !.password = @ + 1] \in UserRows
          /\ [users[u] EXCEPT !.password = @ + 1].org = users[u].org
        BY DEF Rows, AccountRows, UserRows
    <2>. QED
        BY <1>1, <2>1, AccountChanged
<1>2. ASSUME NEW u \in Users, NEW s \in Sessions \cup {"gone"}, changePassword(u, s)
      PROVE  Rows'
    <2>1. ASSUME NEW x \in Sessions, Actor(x) = u
          PROVE  [sessions[x] EXCEPT !.password = users[u].password + 1] \in LoginRows
        BY <2>1, ActorsExist DEF Rows, AccountRows, UserRows, LoginRows, SessionRows, Actor
    <2>2. sessions' \in [Sessions -> LoginRows]
        BY <1>2, <2>1, Blanks, ActorsExist DEF changePassword
    <2>3. users' \in [Users -> AccountRows] /\ tokens' \in [Tokens -> ResetRows]
        BY <1>1, <1>2, WithoutRows DEF changePassword
    <2>. QED
        BY <1>2, <2>2, <2>3, RequestCounted DEF changePassword, Rows
<1>3. ASSUME NEW u \in Users, NEW t \in Tokens, requestPasswordReset(u, t)
      PROVE  Rows'
    <2>1. [user |-> u, locked |-> FALSE] \in ResetRows
        BY DEF ResetRows, TokenRows
    <2>2. tokens' \in [Tokens -> ResetRows]
        BY <1>3, <2>1, WithoutRows DEF requestPasswordReset
    <2>. QED
        BY <1>3, <2>2, RequestCounted DEF requestPasswordReset, Rows
<1>4. ASSUME NEW t \in Tokens, tokens[t] # NoToken, NEW locked \in BOOLEAN
      PROVE  [tokens[t] EXCEPT !.locked = locked] \in ResetRows
    BY <1>4 DEF Rows, ResetRows, TokenRows
<1>5. ASSUME NEW t \in Tokens, lockResetToken(t)
      PROVE  Rows'
    BY <1>4, <1>5 DEF lockResetToken, Rows
<1>6. ASSUME NEW t \in Tokens, resetPassword(t)
      PROVE  Rows'
    <2>1. tokens[t] # NoToken
        BY <1>6, Blanks DEF resetPassword
    <2>2. tokens[t].user \in Users
        BY <2>1 DEF Rows, ResetRows
    <2>3. [users EXCEPT ![tokens[t].user].password = @ + 1] \in [Users -> AccountRows]
        <3>1. /\ [users[tokens[t].user] EXCEPT !.password = @ + 1] \in AccountRows
            BY <2>2 DEF Rows, AccountRows, UserRows
        <3>. QED
            BY <2>2, <3>1 DEF Rows
    <2>. QED
        BY <1>6, <2>3, WithoutRows, Blanks DEF resetPassword, Rows
<1>7. ASSUME NEW t \in Tokens, endToken(t)
      PROVE  Rows'
    BY <1>4, <1>7, Blanks DEF endToken, Rows
<1>. QED
    BY <1>2, <1>3, <1>5, <1>6, <1>7 DEF PasswordStep

\* Decisions about access change accounts, organizations and what depends on them.
LEMMA DecisionRowsKept ==
    ASSUME Rows, NEW s \in Sessions, DecisionStep(s)
    PROVE  Rows'
<1>1. ASSUME NEW u \in Users, users[u].status # "absent", NEW role \in Roles
      PROVE  /\ [users EXCEPT ![u].keys = {}, ![u].recovery = TRUE] \in [Users -> AccountRows]
             /\ [users EXCEPT ![u].suspended = TRUE, ![u].recovery = FALSE] \in [Users -> AccountRows]
             /\ [users EXCEPT ![u].suspended = TRUE] \in [Users -> AccountRows]
             /\ [users EXCEPT ![u].suspended = FALSE] \in [Users -> AccountRows]
             /\ [users EXCEPT ![u].status = "inactive", ![u].recovery = FALSE, ![u].keys = {}]
                  \in [Users -> AccountRows]
             /\ [users EXCEPT ![u].role = role, ![u].recovery = FALSE] \in [Users -> AccountRows]
    <2>1. users[u] \in UserRows /\ users[u].org \in Orgs
        BY <1>1 DEF Rows, AccountRows
    <2>2. /\ [users[u] EXCEPT !.keys = {}, !.recovery = TRUE] \in AccountRows
          /\ [users[u] EXCEPT !.suspended = TRUE, !.recovery = FALSE] \in AccountRows
        BY <2>1 DEF AccountRows, UserRows
    <2>3. /\ [users[u] EXCEPT !.suspended = TRUE] \in AccountRows
          /\ [users[u] EXCEPT !.suspended = FALSE] \in AccountRows
        BY <2>1 DEF AccountRows, UserRows
    <2>4. [users[u] EXCEPT !.status = "inactive", !.recovery = FALSE, !.keys = {}] \in AccountRows
        BY <2>1 DEF AccountRows, UserRows
    <2>5. [users[u] EXCEPT !.role = role, !.recovery = FALSE] \in AccountRows
        BY <2>1 DEF AccountRows, UserRows
    <2>. QED
        BY <2>2, <2>3, <2>4, <2>5 DEF Rows
<1>2. ASSUME NEW s2 \in Sessions, NEW u \in Users, approveRecovery(s, s2, u)
      PROVE  Rows'
    <2>1. users' \in [Users -> AccountRows]
        BY <1>1, <1>2 DEF approveRecovery, Roles
    <2>. QED
        BY <1>2, <2>1, WithoutRows, RequestCounted DEF approveRecovery, Rows
<1>3. ASSUME NEW s2 \in Sessions, NEW u \in Users, suspendUser(s, s2, u)
      PROVE  Rows'
    <2>1. users' \in [Users -> AccountRows]
        BY <1>1, <1>3 DEF suspendUser, Roles
    <2>. QED
        BY <1>3, <2>1, WithoutRows, RevokedRows, RequestCounted DEF suspendUser, Rows
<1>4. ASSUME NEW s2 \in Sessions, NEW u \in Users, deactivateUser(s, s2, u)
      PROVE  Rows'
    <2>1. users' \in [Users -> AccountRows]
        BY <1>1, <1>4 DEF deactivateUser, Roles
    <2>. QED
        BY <1>4, <2>1, WithoutRows, RevokedRows, RequestCounted DEF deactivateUser, Rows
<1>5. ASSUME NEW s2 \in Sessions, NEW o \in Orgs, suspendOrganization(s, s2, o)
      PROVE  Rows'
    <2>1. \A u \in Users : [users[u] EXCEPT !.recovery = FALSE] \in AccountRows
        BY DEF Rows, AccountRows, UserRows
    <2>2. users' \in [Users -> AccountRows]
        BY <1>5, <2>1 DEF suspendOrganization, Rows
    <2>3. orgs' \in [Orgs -> OrgStates]
        BY <1>5 DEF suspendOrganization, Rows, OrgStates
    <2>. QED
        BY <1>5, <2>2, <2>3, WithoutRows, RevokedRows, RequestCounted DEF suspendOrganization, Rows
<1>6. ASSUME NEW u \in Users, RestoredUser(u), requests' \in 0..MaxRequests
      PROVE  Rows'
    <2>1. users' \in [Users -> AccountRows]
        BY <1>1, <1>6 DEF RestoredUser, Roles
    <2>. QED
        BY <1>6, <2>1 DEF RestoredUser, Rows
<1>7. ASSUME NEW o \in Orgs, RestoredOrganization(o), requests' \in 0..MaxRequests
      PROVE  Rows'
    BY <1>7 DEF RestoredOrganization, Rows, OrgStates
<1>8. ASSUME NEW s2 \in Sessions, decidePrivilegedAccess(s, s2)
      PROVE  Rows'
    BY <1>3, <1>4, <1>5, <1>6, <1>7, <1>8, RequestCounted DEF decidePrivilegedAccess
<1>9. ASSUME NEW u \in Users, changeUserAccess(s, u)
      PROVE  Rows'
    <2>1. requests' \in 0..MaxRequests
        BY <1>9, RequestCounted DEF changeUserAccess, RoutineDecision
    <2>2. CASE RestoredUser(u)
        BY <1>6, <2>1, <2>2
    <2>3. CASE ~RestoredUser(u)
        <3>1. users' \in [Users -> AccountRows]
            BY <1>1, <1>9, <2>3 DEF changeUserAccess, Roles
        <3>. QED
            BY <1>9, <2>1, <2>3, <3>1, WithoutRows DEF changeUserAccess, Rows
    <2>. QED
        BY <2>2, <2>3
<1>10. ASSUME NEW o \in Orgs, changeOrganizationAccess(s, o)
      PROVE  Rows'
    <2>1. requests' \in 0..MaxRequests
        BY <1>10, RequestCounted DEF changeOrganizationAccess, RoutineDecision
    <2>2. CASE RestoredOrganization(o)
        BY <1>7, <2>1, <2>2
    <2>3. CASE ~RestoredOrganization(o)
        <3>1. orgs' \in [Orgs -> OrgStates]
            BY <1>10, <2>3 DEF changeOrganizationAccess, Rows, OrgStates
        <3>. QED
            BY <1>10, <2>1, <2>3, <3>1, WithoutRows, RevokedRows DEF changeOrganizationAccess, Rows
    <2>. QED
        BY <2>2, <2>3
<1>11. ASSUME NEW u \in Users, NEW role \in {"admin", "member", "none"}, changeMember(s, u, role)
      PROVE  Rows'
    <2>1. /\ requests' \in 0..MaxRequests
          /\ sessions' = WithoutSessions({u}) /\ tokens' = WithoutTokens({u})
          /\ invitations' = InvitationsRevokedBy({u})
          /\ UNCHANGED <<orgs, applications>>
        BY <1>11, RequestCounted DEF changeMember
    <2>2. users[u].org = users[Actor(s)].org /\ users[Actor(s)] \in AccountRows
            /\ users[Actor(s)].status # "absent"
        BY <1>11, ActorsExist DEF changeMember, Assured, Usable, MayAct, MembersOf
    <2>3. users[Actor(s)].org \in Orgs
        BY <2>2 DEF AccountRows
    <2>4. users' \in [Users -> AccountRows]
        <3>1. users[u] \in UserRows /\ users[u].org \in Orgs
            BY <2>2, <2>3 DEF Rows, AccountRows
        <3>2. role # "none" => [users[u] EXCEPT !.role = role, !.recovery = FALSE] \in AccountRows
            BY <3>1 DEF AccountRows, UserRows, Roles
        <3>3. [users[u] EXCEPT !.status = "inactive", !.recovery = FALSE, !.keys = {}] \in AccountRows
            BY <3>1 DEF AccountRows, UserRows
        <3>. QED
            BY <1>11, <3>2, <3>3 DEF changeMember, Rows
    <2>. QED
        BY <2>1, <2>4, WithoutRows, RevokedRows DEF Rows
<1>. QED
    BY <1>2, <1>8, <1>9, <1>10, <1>11 DEF DecisionStep

\* Invitations are written, sent again, revoked; an approved applicant is invited.
LEMMA InvitationRowsKept ==
    ASSUME Rows, NEW s \in Sessions, InvitationStep(s)
    PROVE  Rows'
<1>1. ASSUME NEW o \in Orgs, NEW u \in Users, NEW by \in Users, NEW role \in Roles
      PROVE  Invitation(o, u, role, by) \in LetterRows
    BY DEF Invitation, LetterRows, InvitationRows
<1>2. Inviter(s) => Actor(s) \in Users
    BY ActorsExist DEF Inviter, Assured
<1>3. ASSUME NEW i \in Invitations, NEW o \in Orgs, NEW u \in Users, NEW role \in Roles,
             createPendingInvitation(s, i, o, u, role)
      PROVE  Rows'
    <2>1. invitations' \in [Invitations -> LetterRows]
        BY <1>1, <1>2, <1>3 DEF createPendingInvitation, Rows
    <2>. QED
        BY <1>3, <2>1, RequestCounted DEF createPendingInvitation, Rows
<1>4. ASSUME NEW i \in Invitations, revokeInvitation(s, i)
      PROVE  Rows'
    BY <1>4, Revoked DEF revokeInvitation, Rows
<1>5. ASSUME NEW i \in Invitations, resendInvitation(s, i)
      PROVE  Rows'
    <2>1. [invitations[i] EXCEPT !.expired = FALSE] \in LetterRows
        BY DEF Rows, LetterRows, InvitationRows
    <2>. QED
        BY <1>5, <2>1, RequestCounted DEF resendInvitation, Rows
<1>6. ASSUME NEW o \in Orgs, NEW i \in Invitations, approve(s, o, i)
      PROVE  Rows'
    <2>1. applications[o] \in ApplicationRows /\ applications[o].email \in Users
        BY <1>6 DEF approve, Rows, ApplicantRows
    <2>2. [applications[o] EXCEPT !.status = "approved"] \in ApplicantRows
        BY <2>1 DEF ApplicationRows, ApplicantRows
    <2>3. applications' \in [Orgs -> ApplicantRows] /\ orgs' \in [Orgs -> OrgStates]
        BY <1>6, <2>2 DEF approve, Rows, OrgStates
    <2>4. Invitation(o, applications[o].email, "admin", Actor(s)) \in LetterRows
        BY <1>1, <1>2, <1>6, <2>1 DEF approve, Roles
    <2>5. invitations' \in [Invitations -> LetterRows]
        BY <1>6, <2>4 DEF approve, Rows
    <2>. QED
        BY <1>6, <2>3, <2>5 DEF approve, Rows
<1>. QED
    BY <1>3, <1>4, <1>5, <1>6 DEF InvitationStep

\* The other steps: recovery ends, an invitation is accepted or expires, applications.
LEMMA OtherRowsKept ==
    /\ \A u \in Users : Rows /\ recoveryEnds(u) => Rows'
    /\ \A i \in Invitations : Rows /\ (acceptInvitation(i) \/ invitationExpires(i)) => Rows'
    /\ \A o \in Orgs, u \in Users : Rows /\ (apply(o, u) \/ reject(u, o)) => Rows'
    /\ \A o \in Orgs : Rows /\ (verifyEmail(o) \/ removeUnverified(o)) => Rows'
<1>1. ASSUME Rows, NEW u \in Users, recoveryEnds(u)
      PROVE  Rows'
    <2>1. [users[u] EXCEPT !.recovery = FALSE] \in AccountRows
        BY <1>1 DEF Rows, AccountRows, UserRows
    <2>. QED
        BY <1>1, <2>1 DEF recoveryEnds, Rows
<1>2. ASSUME Rows, NEW i \in Invitations, acceptInvitation(i)
      PROVE  Rows'
    <2>1. invitations[i] \in InvitationRows /\ invitations[i].org \in Orgs
            /\ invitations[i].role \in Roles /\ invitations[i].email \in Users
        BY <1>2 DEF acceptInvitation, Pending, Rows, LetterRows
    <2>2. NoUser \in UserRows
        BY Blanks DEF AccountRows
    <2>3. [NoUser EXCEPT !.status = "active", !.org = invitations[i].org,
                         !.role = invitations[i].role] \in AccountRows
        BY <2>1, <2>2 DEF AccountRows, UserRows
    <2>4. [invitations[i] EXCEPT !.status = "accepted"] \in LetterRows
        BY <2>1 DEF LetterRows, InvitationRows
    <2>5. users' \in [Users -> AccountRows]
        BY <1>2, <2>3 DEF acceptInvitation, Rows
    <2>. QED
        BY <1>2, <2>4, <2>5 DEF acceptInvitation, Rows
<1>3. ASSUME Rows, NEW i \in Invitations, invitationExpires(i)
      PROVE  Rows'
    <2>1. [invitations[i] EXCEPT !.expired = TRUE] \in LetterRows
        BY <1>3 DEF Rows, LetterRows, InvitationRows
    <2>. QED
        BY <1>3, <2>1 DEF invitationExpires, Rows
<1>4. ASSUME Rows, NEW o \in Orgs, NEW status \in {"review", "rejected"},
             applications[o].status # "none"
      PROVE  [applications[o] EXCEPT !.status = status] \in ApplicantRows
    BY <1>4 DEF Rows, ApplicationRows, ApplicantRows
<1>5. ASSUME Rows, NEW o \in Orgs, NEW u \in Users, apply(o, u)
      PROVE  Rows'
    <2>1. [status |-> "unverified", email |-> u] \in ApplicantRows
        BY DEF ApplicationRows, ApplicantRows
    <2>. QED
        BY <1>5, <2>1, RequestCounted DEF apply, Rows
<1>6. ASSUME Rows, NEW o \in Orgs, NEW u \in Users, reject(u, o)
      PROVE  Rows'
    BY <1>4, <1>6 DEF reject, Rows
<1>7. ASSUME Rows, NEW o \in Orgs, verifyEmail(o)
      PROVE  Rows'
    BY <1>4, <1>7 DEF verifyEmail, Rows
<1>8. ASSUME Rows, NEW o \in Orgs, removeUnverified(o)
      PROVE  Rows'
    BY <1>8, Blanks DEF removeUnverified, Rows
<1>. QED
    BY <1>1, <1>2, <1>3, <1>5, <1>6, <1>7, <1>8

\* Every step keeps the rows well formed.
LEMMA RowsKept == Rows /\ [Next]_vars => Rows'
<1>1. Rows /\ Next => Rows'
    BY SessionRowsKept, PasswordRowsKept, DecisionRowsKept, InvitationRowsKept, OtherRowsKept
       DEF Next
<1>2. Rows /\ UNCHANGED vars => Rows'
    BY DEF Rows, vars
<1>. QED
    BY <1>1, <1>2

-----------------------------------------------------------------------------
(***************************************************************************)
(* Sessions.  A step that leaves a session in place either leaves what it  *)
(* stands on - the access of its user and organization, the password, the  *)
(* keys - or is a step of that session that renews it.                     *)
(***************************************************************************)
StandsOn(s) == Usable(Actor(s)) /\ Current(sessions[s], users[Actor(s)])

\* What a session stands on does not change.
AccessKept(u) ==
    /\ users'[u].status = users[u].status /\ users'[u].suspended = users[u].suspended
    /\ users'[u].org = users[u].org
    /\ orgs'[users[u].org] = orgs[users[u].org]
    /\ users'[u].password = users[u].password /\ users'[u].keys = users[u].keys

\* A session that is left alone stays current if its user keeps access.
LEMMA LeftAlone ==
    ASSUME SessionsAreCurrent, NEW s \in Sessions, Live(s)', sessions'[s] = sessions[s],
           AccessKept(Actor(s))
    PROVE  StandsOn(s)'
<1>1. StandsOn(s)
    BY DEF SessionsAreCurrent, StandsOn, Live
<1>. QED
    BY <1>1 DEF StandsOn, AccessKept, Usable, MayAct, Current, Actor

\* ... so a step that touches no account, organization or session keeps all current.
LEMMA NothingTouched ==
    ASSUME SessionsAreCurrent, UNCHANGED <<users, orgs, sessions>>
    PROVE  SessionsAreCurrent'
BY DEF SessionsAreCurrent, Usable, MayAct, Current, Actor, Live

\* A step that ends the sessions of some users may change those users alone.
LEMMA OthersUntouched ==
    ASSUME Rows, SessionsAreCurrent, NEW us, sessions' = WithoutSessions(us),
           \A u \in Users \ us : AccessKept(u)
    PROVE  SessionsAreCurrent'
<1>1. ASSUME NEW s \in Sessions, Live(s)'
      PROVE  StandsOn(s)'
    <2>1. sessions'[s] = sessions[s] /\ Actor(s) \notin us
        BY <1>1 DEF WithoutSessions, Live, Actor
    <2>2. Actor(s) \in Users
        BY <1>1, <2>1, ActorsExist DEF Live
    <2>. QED
        BY <1>1, <2>1, <2>2, LeftAlone
<1>. QED
    BY <1>1 DEF SessionsAreCurrent, StandsOn

\* Opening, ending, challenging and verifying a session; adding and removing keys.
LEMMA SessionStepCurrent ==
    ASSUME Rows, SessionsAreCurrent, NEW s \in Sessions, SessionStep(s)
    PROVE  SessionsAreCurrent'
<1>1. ASSUME NEW u \in Users, createSession(u, s)
      PROVE  SessionsAreCurrent'
    <2>. DEFINE opened == [NoSession EXCEPT !.user = u, !.password = users[u].password]
    <2>1. sessions' = [sessions EXCEPT ![s] = opened] /\ Usable(u) /\ UNCHANGED <<users, orgs>>
        BY <1>1 DEF createSession, LoginHashes
    <2>2. opened.user = u /\ opened.password = users[u].password /\ opened.key = "none"
        BY DEF NoSession
    <2>. HIDE DEF opened
    <2>3. ASSUME NEW x \in Sessions, Live(x)'
          PROVE  StandsOn(x)'
        <3>1. CASE x = s
            <4>1. sessions'[x] = opened
                BY <2>1, <3>1 DEF Rows
            <4>. QED
                BY <2>1, <2>2, <4>1 DEF StandsOn, Usable, MayAct, Current, Actor
        <3>2. CASE x # s
            <4>1. sessions'[x] = sessions[x] /\ AccessKept(Actor(x))
                BY <2>1, <3>2 DEF Rows, AccessKept
            <4>. QED
                BY <2>3, <4>1, LeftAlone
        <3>. QED
            BY <3>1, <3>2
    <2>. QED
        BY <2>3 DEF SessionsAreCurrent, StandsOn
<1>2. ASSUME revokeSession(s)
      PROVE  SessionsAreCurrent'
    <2>1. ASSUME NEW x \in Sessions, Live(x)'
          PROVE  StandsOn(x)'
        <3>1. sessions'[x] = sessions[x] /\ AccessKept(Actor(x))
            BY <1>2, <2>1 DEF revokeSession, Rows, AccessKept, Live
        <3>. QED
            BY <2>1, <3>1, LeftAlone
    <2>. QED
        BY <2>1 DEF SessionsAreCurrent, StandsOn
<1>3. ASSUME Live(s), NEW r \in SessionRows, sessions' = [sessions EXCEPT ![s] = r],
             r.user = Actor(s), r.password = sessions[s].password,
             r.key = sessions[s].key \/ r.key \in users'[Actor(s)].keys,
             users[Actor(s)].keys \subseteq users'[Actor(s)].keys,
             \A u \in Users \ {Actor(s)} : users'[u] = users[u],
             users'[Actor(s)].status = users[Actor(s)].status,
             users'[Actor(s)].suspended = users[Actor(s)].suspended,
             users'[Actor(s)].org = users[Actor(s)].org,
             users'[Actor(s)].password = users[Actor(s)].password,
             UNCHANGED orgs
      PROVE  SessionsAreCurrent'
    <2>1. ASSUME NEW x \in Sessions, Live(x)'
          PROVE  StandsOn(x)'
        <3>1. Live(x) /\ Actor(x)' = Actor(x) /\ sessions'[x].password = sessions[x].password
                /\ (sessions'[x].key = sessions[x].key \/ sessions'[x].key \in users'[Actor(x)].keys)
            BY <1>3, <2>1 DEF Rows, Live, Actor
        <3>2. StandsOn(x) /\ Actor(x) \in Users
            BY <3>1, ActorsExist DEF SessionsAreCurrent, StandsOn
        <3>3. /\ users'[Actor(x)].status = users[Actor(x)].status
              /\ users'[Actor(x)].suspended = users[Actor(x)].suspended
              /\ users'[Actor(x)].org = users[Actor(x)].org
              /\ users'[Actor(x)].password = users[Actor(x)].password
              /\ users[Actor(x)].keys \subseteq users'[Actor(x)].keys
            BY <1>3, <3>2
        <3>. QED
            BY <1>3, <3>1, <3>2, <3>3 DEF StandsOn, Usable, MayAct, Current
    <2>. QED
        BY <2>1 DEF SessionsAreCurrent, StandsOn
<1>4. ASSUME NEW purpose \in {"registration", "authentication"}, options(s, purpose)
      PROVE  SessionsAreCurrent'
    <2>. DEFINE r == [sessions[s] EXCEPT !.challenge = purpose]
    <2>1. r \in SessionRows /\ r.user = Actor(s) /\ r.password = sessions[s].password
            /\ r.key = sessions[s].key
        BY ActorsExist DEF SessionRows, Actor
    <2>. HIDE DEF r
    <2>2. Live(s) /\ sessions' = [sessions EXCEPT ![s] = r] /\ UNCHANGED <<users, orgs>>
        BY <1>4 DEF options, Identified, r
    <2>. QED
        BY <1>3, <2>1, <2>2
<1>5. ASSUME NEW k \in Keys, verifyRegistration(s, k) \/ verifyAuthentication(s, k)
      PROVE  SessionsAreCurrent'
    <2>. DEFINE r == [sessions[s] EXCEPT !.key = k, !.fresh = TRUE, !.challenge = "none"]
                user == [users[Actor(s)] EXCEPT !.keys = @ \cup {k}, !.history = TRUE,
                                                !.recovery = FALSE]
    <2>1. r \in SessionRows /\ r.user = Actor(s) /\ r.password = sessions[s].password /\ r.key = k
        BY ActorsExist DEF SessionRows, Actor
    <2>2. Live(s) /\ sessions' = [sessions EXCEPT ![s] = r] /\ UNCHANGED orgs
        BY <1>5 DEF verifyRegistration, verifyAuthentication, Identified
    <2>3. users[Actor(s)] \in UserRows /\ Actor(s) \in Users
        BY <2>2, ActorsExist DEF AccountRows
    <2>4. /\ user.status = users[Actor(s)].status /\ user.suspended = users[Actor(s)].suspended
          /\ user.org = users[Actor(s)].org /\ user.password = users[Actor(s)].password
          /\ user.keys = users[Actor(s)].keys \cup {k}
        BY <2>3 DEF UserRows
    <2>. HIDE DEF r, user
    <2>5. \/ users' = users /\ k \in users[Actor(s)].keys
          \/ users' = [users EXCEPT ![Actor(s)] = user]
        BY <1>5 DEF verifyRegistration, verifyAuthentication, user
    <2>6. /\ \A u \in Users \ {Actor(s)} : users'[u] = users[u]
          /\ users'[Actor(s)] \in {users[Actor(s)], user} /\ k \in users'[Actor(s)].keys
        BY <2>3, <2>4, <2>5 DEF Rows
    <2>. QED
        BY <1>3, <2>1, <2>2, <2>4, <2>6
<1>6. ASSUME NEW k \in Keys, revokeKey(s, k)
      PROVE  SessionsAreCurrent'
    <2>. DEFINE r == [sessions[s] EXCEPT !.challenge = "none"]
                user == [users[Actor(s)] EXCEPT !.keys = @ \ {k}]
    <2>1. r.user = Actor(s) /\ r.password = sessions[s].password /\ r.key = sessions[s].key
        BY ActorsExist DEF SessionRows, Actor
    <2>2. users[Actor(s)] \in UserRows /\ Actor(s) \in Users /\ Live(s)
        BY <1>6, ActorsExist DEF AccountRows, revokeKey, Identified
    <2>3. /\ user.status = users[Actor(s)].status /\ user.suspended = users[Actor(s)].suspended
          /\ user.org = users[Actor(s)].org /\ user.password = users[Actor(s)].password
          /\ user.keys = users[Actor(s)].keys \ {k}
        BY <2>2 DEF UserRows
    <2>4. OtherSessionsOut(s)[s] = sessions[s]
        BY DEF OtherSessionsOut
    <2>5. /\ \A x \in Sessions \ {s} : sessions'[x] = OtherSessionsOut(s)[x]
          /\ sessions'[s] = r
        BY <1>6, <2>4 DEF revokeKey, OtherSessionsOut
    <2>6. users' = [users EXCEPT ![Actor(s)] = user] /\ UNCHANGED orgs /\ sessions[s].key # k
        BY <1>6 DEF revokeKey, Removable
    <2>. HIDE DEF r, user
    <2>7. ASSUME NEW x \in Sessions, Live(x)'
          PROVE  StandsOn(x)'
        <3>1. CASE x = s
            <4>1. StandsOn(s)
                BY <2>2 DEF SessionsAreCurrent, StandsOn
            <4>2. Actor(s)' = Actor(s) /\ users'[Actor(s)] = user
                BY <2>1, <2>2, <2>5, <2>6 DEF Actor, Rows
            <4>. QED
                BY <2>1, <2>3, <2>5, <2>6, <3>1, <4>1, <4>2 DEF StandsOn, Usable, MayAct, Current
        <3>2. CASE x # s
            <4>1. sessions'[x] = sessions[x] /\ Actor(x) # Actor(s) /\ Live(x)
                BY <2>5, <2>7, <3>2 DEF OtherSessionsOut, Live, Actor
            <4>2. AccessKept(Actor(x))
                BY <2>6, <4>1, ActorsExist DEF AccessKept, Rows
            <4>. QED
                BY <2>7, <4>1, <4>2, LeftAlone
        <3>. QED
            BY <3>1, <3>2
    <2>. QED
        BY <2>7 DEF SessionsAreCurrent, StandsOn
<1>7. ASSUME endChallenge(s) \/ freshnessEnds(s)
      PROVE  SessionsAreCurrent'
    <2>. DEFINE r == IF endChallenge(s) THEN [sessions[s] EXCEPT !.challenge = "none"]
                                        ELSE [sessions[s] EXCEPT !.fresh = FALSE]
    <2>1. r \in SessionRows /\ r.user = Actor(s) /\ r.password = sessions[s].password
            /\ r.key = sessions[s].key
        BY ActorsExist DEF SessionRows, Actor
    <2>2. sessions' = [sessions EXCEPT ![s] = r] /\ UNCHANGED <<users, orgs>>
        BY <1>7 DEF endChallenge, freshnessEnds
    <2>3. Live(s)
        BY <1>7, ActorsExist DEF endChallenge, freshnessEnds
    <2>. HIDE DEF r
    <2>. QED
        BY <1>3, <2>1, <2>2, <2>3
<1>. QED
    BY <1>1, <1>2, <1>4, <1>5, <1>6, <1>7 DEF SessionStep

\* Whoever has a session has access.
LEMMA SessionsHaveAccess ==
    ASSUME Rows, SessionsAreCurrent, NEW s \in Sessions, Live(s)
    PROVE  /\ Actor(s) \in Users /\ users[Actor(s)].org \in Orgs
           /\ users[Actor(s)].status = "active" /\ ~users[Actor(s)].suspended
           /\ orgs[users[Actor(s)].org] = "open"
BY ActorsExist DEF SessionsAreCurrent, Usable, MayAct, AccountRows

\* Sessions stay current while only users and organizations without access change.
LEMMA AccessGiven ==
    ASSUME Rows, SessionsAreCurrent, UNCHANGED sessions,
           \A u \in Users : Usable(u) => AccessKept(u)
    PROVE  SessionsAreCurrent'
<1>1. ASSUME NEW s \in Sessions, Live(s)'
      PROVE  StandsOn(s)'
    <2>1. sessions'[s] = sessions[s] /\ Live(s) /\ Usable(Actor(s)) /\ Actor(s) \in Users
        BY <1>1, ActorsExist DEF Live, SessionsAreCurrent
    <2>. QED
        BY <1>1, <2>1, LeftAlone
<1>. QED
    BY <1>1 DEF SessionsAreCurrent, StandsOn

\* A changed password ends the sessions opened with the old one, but for the one changing it.
LEMMA PasswordStepCurrent == Rows /\ SessionsAreCurrent /\ PasswordStep => SessionsAreCurrent'
<1>. SUFFICES ASSUME Rows, SessionsAreCurrent, PasswordStep PROVE SessionsAreCurrent'
    OBVIOUS
<1>1. ASSUME NEW u \in Users, NEW s \in Sessions \cup {"gone"}, changePassword(u, s)
      PROVE  SessionsAreCurrent'
    <2>. DEFINE r(x) == [sessions[x] EXCEPT !.password = users[u].password + 1]
                user == [users[u] EXCEPT !.password = @ + 1]
    <2>1. \A x \in Sessions : r(x).user = Actor(x) /\ r(x).key = sessions[x].key
                                /\ r(x).password = users[u].password + 1
        BY ActorsExist DEF SessionRows, Actor
    <2>2. users[u] \in UserRows
        BY DEF Rows, AccountRows
    <2>3. /\ user.status = users[u].status /\ user.suspended = users[u].suspended
          /\ user.org = users[u].org /\ user.password = users[u].password + 1
          /\ user.keys = users[u].keys
        BY <2>2 DEF UserRows
    <2>4. /\ users' = [users EXCEPT ![u] = user] /\ UNCHANGED orgs
          /\ \A x \in Sessions : sessions'[x] = IF Actor(x) # u THEN sessions[x]
                                                ELSE IF x = s THEN r(x) ELSE NoSession
        BY <1>1 DEF changePassword
    <2>. HIDE DEF r, user
    <2>5. ASSUME NEW x \in Sessions, Live(x)'
          PROVE  StandsOn(x)'
        <3>1. CASE Actor(x) = u
            <4>1. sessions'[x] = r(x) /\ Live(x)
                BY <2>4, <2>5, <3>1, ActorsExist DEF Live
            <4>2. StandsOn(x)
                BY <4>1 DEF SessionsAreCurrent, StandsOn
            <4>3. Actor(x)' = u /\ users'[u] = user
                BY <2>1, <2>4, <3>1, <4>1 DEF Rows, Actor
            <4>. QED
                BY <2>1, <2>3, <2>4, <3>1, <4>1, <4>2, <4>3 DEF StandsOn, Usable, MayAct, Current
        <3>2. CASE Actor(x) # u
            <4>1. sessions'[x] = sessions[x]
                BY <2>4, <3>2
            <4>2. AccessKept(Actor(x))
                BY <2>4, <2>5, <3>2, <4>1, ActorsExist DEF AccessKept, Rows, Live
            <4>. QED
                BY <2>5, <4>1, <4>2, LeftAlone
        <3>. QED
            BY <3>1, <3>2
    <2>. QED
        BY <2>5 DEF SessionsAreCurrent, StandsOn
<1>2. ASSUME NEW u \in Users, NEW t \in Tokens, requestPasswordReset(u, t)
      PROVE  SessionsAreCurrent'
    BY <1>2, NothingTouched DEF requestPasswordReset
<1>3. ASSUME NEW t \in Tokens, lockResetToken(t) \/ endToken(t)
      PROVE  SessionsAreCurrent'
    BY <1>3, NothingTouched DEF lockResetToken, endToken
<1>4. ASSUME NEW t \in Tokens, resetPassword(t)
      PROVE  SessionsAreCurrent'
    <2>1. \A u \in Users \ {tokens[t].user} : AccessKept(u)
        BY <1>4 DEF resetPassword, AccessKept, Rows
    <2>. QED
        BY <1>4, <2>1, OthersUntouched DEF resetPassword
<1>. QED
    BY <1>1, <1>2, <1>3, <1>4 DEF PasswordStep

\* A decision about access ends the sessions of whomever it is about.
LEMMA DecisionStepCurrent ==
    ASSUME Rows, SessionsAreCurrent, NEW s \in Sessions, DecisionStep(s)
    PROVE  SessionsAreCurrent'
<1>1. ASSUME NEW s2 \in Sessions, NEW u \in Users,
             approveRecovery(s, s2, u) \/ suspendUser(s, s2, u) \/ deactivateUser(s, s2, u)
      PROVE  SessionsAreCurrent'
    <2>1. \A x \in Users \ {u} : AccessKept(x)
        BY <1>1 DEF approveRecovery, suspendUser, deactivateUser, AccessKept, Rows
    <2>. QED
        BY <1>1, <2>1, OthersUntouched DEF approveRecovery, suspendUser, deactivateUser
<1>2. ASSUME NEW s2 \in Sessions, NEW o \in Orgs, suspendOrganization(s, s2, o)
      PROVE  SessionsAreCurrent'
    <2>1. \A x \in Users \ MembersOf(o) : AccessKept(x)
        BY <1>2 DEF suspendOrganization, MembersOf, AccessKept, Rows
    <2>. QED
        BY <1>2, <2>1, OthersUntouched DEF suspendOrganization
<1>3. ASSUME NEW u \in Users, RestoredUser(u)
      PROVE  SessionsAreCurrent'
    <2>1. \A x \in Users : Usable(x) => AccessKept(x)
        BY <1>3 DEF RestoredUser, Usable, MayAct, AccessKept, Rows
    <2>. QED
        BY <1>3, <2>1, AccessGiven DEF RestoredUser
<1>4. ASSUME NEW o \in Orgs, RestoredOrganization(o)
      PROVE  SessionsAreCurrent'
    <2>1. \A x \in Users : Usable(x) => AccessKept(x)
        BY <1>4 DEF RestoredOrganization, Usable, MayAct, AccessKept, Rows
    <2>. QED
        BY <1>4, <2>1, AccessGiven DEF RestoredOrganization
<1>5. ASSUME NEW s2 \in Sessions, decidePrivilegedAccess(s, s2)
      PROVE  SessionsAreCurrent'
    BY <1>1, <1>2, <1>3, <1>4, <1>5 DEF decidePrivilegedAccess
<1>6. ASSUME NEW u \in Users, changeUserAccess(s, u)
      PROVE  SessionsAreCurrent'
    <2>1. CASE RestoredUser(u)
        BY <1>3, <2>1
    <2>2. CASE ~RestoredUser(u)
        <3>1. \A x \in Users \ {u} : AccessKept(x)
            BY <1>6, <2>2 DEF changeUserAccess, AccessKept, Rows
        <3>. QED
            BY <1>6, <2>2, <3>1, OthersUntouched DEF changeUserAccess
    <2>. QED
        BY <2>1, <2>2
<1>7. ASSUME NEW o \in Orgs, changeOrganizationAccess(s, o)
      PROVE  SessionsAreCurrent'
    <2>1. CASE RestoredOrganization(o)
        BY <1>4, <2>1
    <2>2. CASE ~RestoredOrganization(o)
        <3>1. /\ users' = users /\ orgs' = [orgs EXCEPT ![o] = "suspended"]
              /\ sessions' = WithoutSessions(MembersOf(o))
            BY <1>7, <2>2 DEF changeOrganizationAccess
        <3>2. \A x \in Users \ MembersOf(o) : AccessKept(x)
            BY <3>1 DEF MembersOf, AccessKept, Rows
        <3>. QED
            BY <3>1, <3>2, OthersUntouched
    <2>. QED
        BY <2>1, <2>2
<1>8. ASSUME NEW u \in Users, NEW role \in {"admin", "member", "none"}, changeMember(s, u, role)
      PROVE  SessionsAreCurrent'
    <2>1. sessions' = WithoutSessions({u}) /\ UNCHANGED orgs
            /\ \E row : users' = [users EXCEPT ![u] = row]
        BY <1>8 DEF changeMember
    <2>2. \A x \in Users \ {u} : AccessKept(x)
        BY <2>1 DEF AccessKept, Rows
    <2>. QED
        BY <2>1, <2>2, OthersUntouched
<1>. QED
    BY <1>1, <1>5, <1>6, <1>7, <1>8 DEF DecisionStep

\* Invitations, applications and the end of a recovery touch nobody who has access.
LEMMA OtherStepsCurrent ==
    ASSUME Rows, SessionsAreCurrent
    PROVE  /\ \A s \in Sessions : InvitationStep(s) => SessionsAreCurrent'
           /\ \A u \in Users : recoveryEnds(u) => SessionsAreCurrent'
           /\ \A i \in Invitations :
                acceptInvitation(i) \/ invitationExpires(i) => SessionsAreCurrent'
           /\ \A o \in Orgs, u \in Users : apply(o, u) \/ reject(u, o) => SessionsAreCurrent'
           /\ \A o \in Orgs : verifyEmail(o) \/ removeUnverified(o) => SessionsAreCurrent'
<1>1. ASSUME NEW s \in Sessions, NEW o \in Orgs, NEW i \in Invitations, approve(s, o, i)
      PROVE  SessionsAreCurrent'
    <2>1. \A x \in Users : Usable(x) => AccessKept(x)
        BY <1>1 DEF approve, Usable, MayAct, AccessKept, Rows
    <2>. QED
        BY <1>1, <2>1, AccessGiven DEF approve
<1>2. ASSUME NEW s \in Sessions, InvitationStep(s)
      PROVE  SessionsAreCurrent'
    BY <1>1, <1>2, NothingTouched
       DEF InvitationStep, createPendingInvitation, revokeInvitation, resendInvitation
<1>3. ASSUME NEW u \in Users, recoveryEnds(u)
      PROVE  SessionsAreCurrent'
    <2>1. [users[u] EXCEPT !.recovery = FALSE] = users'[u] /\ users[u] \in UserRows
        BY <1>3 DEF recoveryEnds, Rows, AccountRows
    <2>2. AccessKept(u)
        BY <1>3, <2>1 DEF recoveryEnds, AccessKept, UserRows
    <2>3. \A x \in Users : AccessKept(x)
        BY <1>3, <2>2 DEF recoveryEnds, AccessKept, Rows
    <2>. QED
        BY <1>3, <2>3, AccessGiven DEF recoveryEnds
<1>4. ASSUME NEW i \in Invitations, acceptInvitation(i)
      PROVE  SessionsAreCurrent'
    <2>1. \A x \in Users : Usable(x) => AccessKept(x)
        BY <1>4 DEF acceptInvitation, Usable, MayAct, AccessKept, Rows
    <2>. QED
        BY <1>4, <2>1, AccessGiven DEF acceptInvitation
<1>5. ASSUME NEW i \in Invitations, invitationExpires(i)
      PROVE  SessionsAreCurrent'
    BY <1>5, NothingTouched DEF invitationExpires
<1>6. ASSUME NEW o \in Orgs, NEW u \in Users,
             apply(o, u) \/ reject(u, o) \/ verifyEmail(o) \/ removeUnverified(o)
      PROVE  SessionsAreCurrent'
    BY <1>6, NothingTouched DEF apply, reject, verifyEmail, removeUnverified
<1>7. ASSUME NEW o \in Orgs, verifyEmail(o) \/ removeUnverified(o)
      PROVE  SessionsAreCurrent'
    BY <1>7, NothingTouched DEF verifyEmail, removeUnverified
<1>. QED
    BY <1>2, <1>3, <1>4, <1>5, <1>6, <1>7

\* Every step keeps every session current.
LEMMA StepCurrent == Rows /\ SessionsAreCurrent /\ [Next]_vars => SessionsAreCurrent'
<1>1. Rows /\ SessionsAreCurrent /\ Next => SessionsAreCurrent'
    BY SessionStepCurrent, PasswordStepCurrent, DecisionStepCurrent, OtherStepsCurrent DEF Next
<1>2. SessionsAreCurrent /\ UNCHANGED vars => SessionsAreCurrent'
    BY NothingTouched DEF vars
<1>. QED
    BY <1>1, <1>2

-----------------------------------------------------------------------------
(***************************************************************************)
(* Invitations.  An open invitation stays good while its organization      *)
(* stays open and its sender active, or is revoked with either.            *)
(***************************************************************************)
\* The invitations that stay open are among those that were, unchanged in what they name.
OnlyClosed ==
    \A i \in Invitations : Pending(i)' =>
        /\ Pending(i)
        /\ invitations'[i].org = invitations[i].org /\ invitations'[i].by = invitations[i].by

\* What an open invitation stands on does not change.
StillGood(i) ==
    orgs'[invitations[i].org] = "open" /\ users'[invitations[i].by].status = "active"

\* No new invitation, and the open ones keep what they stand on.
LEMMA LettersHold ==
    ASSUME PendingInvitationsHold, OnlyClosed,
           \A i \in Invitations : Pending(i)' => StillGood(i)
    PROVE  PendingInvitationsHold'
BY DEF PendingInvitationsHold, OnlyClosed, StillGood

\* Invitations are left alone while accounts stay active and organizations open.
LEMMA LettersLeft ==
    ASSUME Rows, PendingInvitationsHold, OnlyClosed,
           \A o \in Orgs : orgs[o] = "open" => orgs'[o] = "open",
           \A u \in Users : users[u].status = "active" => users'[u].status = "active"
    PROVE  PendingInvitationsHold'
<1>1. ASSUME NEW i \in Invitations, Pending(i)'
      PROVE  StillGood(i)
    <2>1. Pending(i)
        BY <1>1 DEF OnlyClosed
    <2>2. invitations[i].org \in Orgs /\ invitations[i].by \in Users
        BY <2>1 DEF Rows, LetterRows, Pending
    <2>. QED
        BY <2>1, <2>2 DEF PendingInvitationsHold, StillGood
<1>. QED
    BY <1>1, LettersHold

\* The steps that write no invitation.
LEMMA NoLetter == UNCHANGED invitations => OnlyClosed
BY DEF OnlyClosed, Pending

\* Revoking opens none.
LEMMA RevokingCloses ==
    ASSUME Rows, NEW us, NEW o
    PROVE  /\ invitations' = InvitationsRevokedBy(us) =>
                OnlyClosed /\ \A i \in Invitations : Pending(i)' => invitations[i].by \notin us
           /\ invitations' = InvitationsRevokedTo(o) =>
                OnlyClosed /\ \A i \in Invitations : Pending(i)' => invitations[i].org # o
<1>1. \A i \in Invitations : [invitations[i] EXCEPT !.status = "revoked"].status = "revoked"
    BY DEF Rows, LetterRows, InvitationRows
<1>. QED
    BY <1>1 DEF OnlyClosed, Pending, InvitationsRevokedBy, InvitationsRevokedTo

\* A decision about a user revokes what the user sent.
LEMMA SenderDecided ==
    ASSUME Rows, PendingInvitationsHold, NEW u \in Users, NEW row,
           users' = [users EXCEPT ![u] = row], UNCHANGED orgs,
           invitations' = InvitationsRevokedBy({u})
    PROVE  PendingInvitationsHold'
<1>1. ASSUME NEW i \in Invitations, Pending(i)'
      PROVE  StillGood(i)
    <2>1. Pending(i) /\ invitations[i].by # u
        BY <1>1, RevokingCloses DEF OnlyClosed
    <2>2. invitations[i].org \in Orgs /\ invitations[i].by \in Users
        BY <2>1 DEF Rows, LetterRows, Pending
    <2>. QED
        BY <2>1, <2>2 DEF PendingInvitationsHold, StillGood, Rows
<1>. QED
    BY <1>1, LettersHold, RevokingCloses

\* A decision about an organization revokes the invitations into it.
LEMMA TargetDecided ==
    ASSUME Rows, PendingInvitationsHold, NEW o \in Orgs,
           orgs' = [orgs EXCEPT ![o] = "suspended"],
           \A u \in Users : users'[u].status = users[u].status,
           invitations' = InvitationsRevokedTo(o)
    PROVE  PendingInvitationsHold'
<1>1. ASSUME NEW i \in Invitations, Pending(i)'
      PROVE  StillGood(i)
    <2>1. Pending(i) /\ invitations[i].org # o
        BY <1>1, RevokingCloses DEF OnlyClosed
    <2>2. invitations[i].org \in Orgs /\ invitations[i].by \in Users
        BY <2>1 DEF Rows, LetterRows, Pending
    <2>. QED
        BY <2>1, <2>2 DEF PendingInvitationsHold, StillGood, Rows
<1>. QED
    BY <1>1, LettersHold, RevokingCloses

\* Sessions, passwords and keys close no account.
LEMMA SignedInLetters ==
    ASSUME Rows, PendingInvitationsHold
    PROVE  /\ \A s \in Sessions : SessionStep(s) => PendingInvitationsHold'
           /\ PasswordStep => PendingInvitationsHold'
           /\ \A u \in Users : recoveryEnds(u) => PendingInvitationsHold'
<1>1. ASSUME UNCHANGED <<users, orgs, invitations>>
      PROVE  PendingInvitationsHold'
    BY <1>1, LettersLeft, NoLetter
<1>2. ASSUME UNCHANGED <<orgs, invitations>>,
             NEW u \in Users, NEW row, users' = [users EXCEPT ![u] = row],
             row.status = users[u].status
      PROVE  PendingInvitationsHold'
    <2>1. \A x \in Users : users'[x].status = users[x].status
        BY <1>2 DEF Rows
    <2>. QED
        BY <1>2, <2>1, LettersLeft, NoLetter
<1>3. ASSUME NEW s \in Sessions, SessionStep(s)
      PROVE  PendingInvitationsHold'
    <2>1. CASE \E k \in Keys : verifyRegistration(s, k)
        <3>1. PICK k \in Keys : verifyRegistration(s, k)
            BY <2>1
        <3>2. Actor(s) \in Users /\ users[Actor(s)] \in UserRows
            BY <3>1, ActorsExist DEF verifyRegistration, Identified, AccountRows
        <3>. DEFINE row == [users[Actor(s)] EXCEPT !.keys = @ \cup {k}, !.history = TRUE,
                                                   !.recovery = FALSE]
        <3>3. row.status = users[Actor(s)].status
            BY <3>2 DEF UserRows
        <3>4. users' = [users EXCEPT ![Actor(s)] = row] /\ UNCHANGED <<orgs, invitations>>
            BY <3>1 DEF verifyRegistration
        <3>. HIDE DEF row
        <3>. QED
            BY <1>2, <3>2, <3>3, <3>4
    <2>2. CASE \E k \in Keys : revokeKey(s, k)
        <3>1. PICK k \in Keys : revokeKey(s, k)
            BY <2>2
        <3>2. Actor(s) \in Users /\ users[Actor(s)] \in UserRows
            BY <3>1, ActorsExist DEF revokeKey, Identified, AccountRows
        <3>3. [users[Actor(s)] EXCEPT !.keys = @ \ {k}].status = users[Actor(s)].status
            BY <3>2 DEF UserRows
        <3>. QED
            BY <1>2, <3>1, <3>2, <3>3 DEF revokeKey
    <2>3. CASE ~(\E k \in Keys : verifyRegistration(s, k) \/ revokeKey(s, k))
        BY <1>1, <1>3, <2>3
           DEF SessionStep, createSession, revokeSession, options, verifyAuthentication,
               endChallenge, freshnessEnds
    <2>. QED
        BY <2>1, <2>2, <2>3
<1>4. ASSUME PasswordStep
      PROVE  PendingInvitationsHold'
    <2>1. ASSUME NEW u \in Users
          PROVE  [users[u] EXCEPT !.password = @ + 1].status = users[u].status
        BY DEF Rows, AccountRows, UserRows
    <2>2. ASSUME NEW u \in Users, NEW s \in Sessions \cup {"gone"}, changePassword(u, s)
          PROVE  PendingInvitationsHold'
        BY <1>2, <2>1, <2>2 DEF changePassword
    <2>3. ASSUME NEW t \in Tokens, resetPassword(t)
          PROVE  PendingInvitationsHold'
        <3>1. tokens[t].user \in Users
            BY <2>3, Blanks DEF resetPassword, Rows, ResetRows
        <3>. QED
            BY <1>2, <2>1, <2>3, <3>1 DEF resetPassword
    <2>4. ASSUME NEW u \in Users, NEW t \in Tokens, requestPasswordReset(u, t)
          PROVE  PendingInvitationsHold'
        BY <1>1, <2>4 DEF requestPasswordReset
    <2>5. ASSUME NEW t \in Tokens, lockResetToken(t) \/ endToken(t)
          PROVE  PendingInvitationsHold'
        BY <1>1, <2>5 DEF lockResetToken, endToken
    <2>. QED
        BY <1>4, <2>2, <2>3, <2>4, <2>5 DEF PasswordStep
<1>5. ASSUME NEW u \in Users, recoveryEnds(u)
      PROVE  PendingInvitationsHold'
    <2>1. [users[u] EXCEPT !.recovery = FALSE].status = users[u].status
        BY DEF Rows, AccountRows, UserRows
    <2>. QED
        BY <1>2, <1>5, <2>1 DEF recoveryEnds
<1>. QED
    BY <1>3, <1>4, <1>5

\* Decisions about access.
LEMMA DecisionLetters ==
    ASSUME Rows, PendingInvitationsHold, NEW s \in Sessions, DecisionStep(s)
    PROVE  PendingInvitationsHold'
<1>1. ASSUME NEW u \in Users, NEW row, users' = [users EXCEPT ![u] = row],
             row.status = users[u].status, UNCHANGED <<orgs, invitations>>
      PROVE  PendingInvitationsHold'
    <2>1. \A x \in Users : users'[x].status = users[x].status
        BY <1>1 DEF Rows
    <2>. QED
        BY <1>1, <2>1, LettersLeft, NoLetter
<1>2. \A u \in Users :
         /\ [users[u] EXCEPT !.keys = {}, !.recovery = TRUE].status = users[u].status
         /\ [users[u] EXCEPT !.suspended = FALSE].status = users[u].status
         /\ [users[u] EXCEPT !.suspended = TRUE].status = users[u].status
         /\ [users[u] EXCEPT !.recovery = FALSE].status = users[u].status
    BY DEF Rows, AccountRows, UserRows
<1>3. ASSUME NEW s2 \in Sessions, NEW u \in Users, approveRecovery(s, s2, u)
      PROVE  PendingInvitationsHold'
    BY <1>1, <1>2, <1>3 DEF approveRecovery
<1>4. ASSUME NEW s2 \in Sessions, NEW u \in Users, suspendUser(s, s2, u) \/ deactivateUser(s, s2, u)
      PROVE  PendingInvitationsHold'
    <2>1. /\ UNCHANGED orgs /\ invitations' = InvitationsRevokedBy({u})
          /\ \E row : users' = [users EXCEPT ![u] = row]
        BY <1>4 DEF suspendUser, deactivateUser
    <2>. QED
        BY <2>1, SenderDecided
<1>5. ASSUME NEW s2 \in Sessions, NEW o \in Orgs, suspendOrganization(s, s2, o)
      PROVE  PendingInvitationsHold'
    <2>1. \A u \in Users : users'[u].status = users[u].status
        BY <1>2, <1>5 DEF suspendOrganization
    <2>. QED
        BY <1>5, <2>1, TargetDecided DEF suspendOrganization
<1>6. ASSUME NEW u \in Users, RestoredUser(u)
      PROVE  PendingInvitationsHold'
    BY <1>1, <1>2, <1>6 DEF RestoredUser
<1>7. ASSUME NEW o \in Orgs, RestoredOrganization(o)
      PROVE  PendingInvitationsHold'
    <2>1. \A x \in Orgs : orgs[x] = "open" => orgs'[x] = "open"
        BY <1>7 DEF RestoredOrganization, Rows
    <2>. QED
        BY <1>7, <2>1, LettersLeft, NoLetter DEF RestoredOrganization
<1>8. ASSUME NEW s2 \in Sessions, decidePrivilegedAccess(s, s2)
      PROVE  PendingInvitationsHold'
    BY <1>4, <1>5, <1>6, <1>7, <1>8 DEF decidePrivilegedAccess
<1>9. ASSUME NEW u \in Users, changeUserAccess(s, u)
      PROVE  PendingInvitationsHold'
    <2>1. CASE RestoredUser(u)
        BY <1>6, <2>1
    <2>2. CASE ~RestoredUser(u)
        BY <1>1, <1>2, <1>9, <2>2 DEF changeUserAccess
    <2>. QED
        BY <2>1, <2>2
<1>10. ASSUME NEW o \in Orgs, changeOrganizationAccess(s, o)
      PROVE  PendingInvitationsHold'
    <2>1. CASE RestoredOrganization(o)
        BY <1>7, <2>1
    <2>2. CASE ~RestoredOrganization(o)
        BY <1>10, <2>2, TargetDecided DEF changeOrganizationAccess
    <2>. QED
        BY <2>1, <2>2
<1>11. ASSUME NEW u \in Users, NEW role \in {"admin", "member", "none"}, changeMember(s, u, role)
      PROVE  PendingInvitationsHold'
    <2>1. /\ UNCHANGED orgs /\ invitations' = InvitationsRevokedBy({u})
          /\ \E row : users' = [users EXCEPT ![u] = row]
        BY <1>11 DEF changeMember
    <2>. QED
        BY <2>1, SenderDecided
<1>. QED
    BY <1>3, <1>8, <1>9, <1>10, <1>11 DEF DecisionStep

\* Invitations themselves: into an open organization, from an active account.
LEMMA WrittenLetters ==
    ASSUME Rows, PendingInvitationsHold
    PROVE  /\ \A s \in Sessions : InvitationStep(s) => PendingInvitationsHold'
           /\ \A i \in Invitations :
                acceptInvitation(i) \/ invitationExpires(i) => PendingInvitationsHold'
           /\ \A o \in Orgs, u \in Users : apply(o, u) \/ reject(u, o) => PendingInvitationsHold'
           /\ \A o \in Orgs : verifyEmail(o) \/ removeUnverified(o) => PendingInvitationsHold'
<1>1. ASSUME NEW i \in Invitations
      PROVE  /\ [invitations[i] EXCEPT !.status = "revoked"].status = "revoked"
             /\ [invitations[i] EXCEPT !.status = "accepted"].status = "accepted"
             /\ \A x \in BOOLEAN :
                  /\ [invitations[i] EXCEPT !.expired = x].org = invitations[i].org
                  /\ [invitations[i] EXCEPT !.expired = x].by = invitations[i].by
                  /\ [invitations[i] EXCEPT !.expired = x].status = invitations[i].status
    BY DEF Rows, LetterRows, InvitationRows
<1>2. ASSUME NEW i \in Invitations, NEW row, invitations' = [invitations EXCEPT ![i] = row],
             \/ row.status # "pending"
             \/ /\ row.status = invitations[i].status /\ row.org = invitations[i].org
                /\ row.by = invitations[i].by
      PROVE  OnlyClosed
    BY <1>2 DEF OnlyClosed, Pending, Rows
<1>3. ASSUME NEW i \in Invitations, NEW s \in Sessions,
             revokeInvitation(s, i) \/ resendInvitation(s, i) \/ invitationExpires(i)
      PROVE  PendingInvitationsHold'
    <2>1. UNCHANGED <<users, orgs>>
        BY <1>3 DEF revokeInvitation, resendInvitation, invitationExpires
    <2>2. OnlyClosed
        BY <1>1, <1>2, <1>3 DEF revokeInvitation, resendInvitation, invitationExpires
    <2>. QED
        BY <2>1, <2>2, LettersLeft
<1>4. ASSUME NEW i \in Invitations, invitationExpires(i)
      PROVE  PendingInvitationsHold'
    <2>1. OnlyClosed
        BY <1>1, <1>2, <1>4 DEF invitationExpires
    <2>. QED
        BY <1>4, <2>1, LettersLeft DEF invitationExpires
<1>5. ASSUME NEW i \in Invitations, acceptInvitation(i)
      PROVE  PendingInvitationsHold'
    <2>1. OnlyClosed
        BY <1>1, <1>2, <1>5 DEF acceptInvitation
    <2>2. \A u \in Users : users[u].status = "active" => users'[u].status = "active"
        BY <1>5 DEF acceptInvitation, Rows
    <2>. QED
        BY <1>5, <2>1, <2>2, LettersLeft DEF acceptInvitation
<1>6. ASSUME NEW i \in Invitations, NEW o \in Orgs, NEW u, NEW role, NEW s \in Sessions, Inviter(s),
             invitations' = [invitations EXCEPT ![i] = Invitation(o, u, role, Actor(s))],
             orgs'[o] = "open", UNCHANGED users,
             \A x \in Orgs : orgs[x] = "open" => orgs'[x] = "open"
      PROVE  PendingInvitationsHold'
    <2>1. users[Actor(s)].status = "active" /\ Actor(s) \in Users
        BY <1>6, ActorsExist DEF Inviter, Assured, Usable, MayAct
    <2>2. ASSUME NEW x \in Invitations, Pending(x)'
          PROVE  orgs'[invitations'[x].org] = "open" /\ users'[invitations'[x].by].status = "active"
        <3>1. CASE x = i
            BY <1>6, <2>1, <3>1 DEF Invitation, Rows
        <3>2. CASE x # i
            <4>1. Pending(x) /\ invitations'[x] = invitations[x]
                BY <1>6, <2>2, <3>2 DEF Pending, Rows
            <4>2. invitations[x].org \in Orgs
                BY <4>1 DEF Rows, LetterRows, Pending
            <4>. QED
                BY <1>6, <4>1, <4>2 DEF PendingInvitationsHold
        <3>. QED
            BY <3>1, <3>2
    <2>. QED
        BY <2>2 DEF PendingInvitationsHold
<1>7. ASSUME NEW s \in Sessions, InvitationStep(s)
      PROVE  PendingInvitationsHold'
    <2>1. ASSUME NEW i \in Invitations, NEW o \in Orgs, NEW u \in Users, NEW role \in Roles,
                 createPendingInvitation(s, i, o, u, role)
          PROVE  PendingInvitationsHold'
        BY <1>6, <2>1 DEF createPendingInvitation
    <2>2. ASSUME NEW o \in Orgs, NEW i \in Invitations, approve(s, o, i)
          PROVE  PendingInvitationsHold'
        <3>1. orgs'[o] = "open" /\ \A x \in Orgs : orgs[x] = "open" => orgs'[x] = "open"
            BY <2>2 DEF approve, Rows
        <3>. QED
            BY <1>6, <2>2, <3>1 DEF approve
    <2>. QED
        BY <1>3, <1>7, <2>1, <2>2 DEF InvitationStep
<1>8. ASSUME UNCHANGED <<users, orgs, invitations>>
      PROVE  PendingInvitationsHold'
    BY <1>8, LettersLeft, NoLetter
<1>9. ASSUME NEW o \in Orgs, NEW u \in Users, apply(o, u) \/ reject(u, o)
      PROVE  PendingInvitationsHold'
    BY <1>8, <1>9 DEF apply, reject
<1>10. ASSUME NEW o \in Orgs, verifyEmail(o) \/ removeUnverified(o)
      PROVE  PendingInvitationsHold'
    BY <1>8, <1>10 DEF verifyEmail, removeUnverified
<1>. QED
    BY <1>4, <1>5, <1>7, <1>9, <1>10

\* Every step keeps the open invitations good.
LEMMA StepLetters == Rows /\ PendingInvitationsHold /\ [Next]_vars => PendingInvitationsHold'
<1>1. Rows /\ PendingInvitationsHold /\ Next => PendingInvitationsHold'
    BY SignedInLetters, DecisionLetters, WrittenLetters DEF Next
<1>2. Rows /\ PendingInvitationsHold /\ UNCHANGED vars => PendingInvitationsHold'
    BY LettersLeft, NoLetter DEF vars
<1>. QED
    BY <1>1, <1>2

-----------------------------------------------------------------------------
(***************************************************************************)
(* Administrators.  Nothing takes a usable administrator away but a        *)
(* decision of two others, who remain.                                     *)
(***************************************************************************)
\* What makes an administrator does not change.
RightsKept(u) ==
    /\ users'[u].status = users[u].status /\ users'[u].suspended = users[u].suspended
    /\ users'[u].org = users[u].org /\ users'[u].role = users[u].role
    /\ users'[u].keys # {}
    /\ orgs'[users[u].org] = orgs[users[u].org]

\* An administrator whose rights are kept remains one.
LEMMA Remains ==
    ASSUME NEW u \in Administrators, RightsKept(u)
    PROVE  u \in Administrators'
BY DEF Administrators, RightsKept, Usable, MayAct

\* Two administrators whose rights are kept remain.
LEMMA BothRemain ==
    ASSUME NEW u \in Administrators, NEW v \in Administrators, u # v, RightsKept(u), RightsKept(v)
    PROVE  TwoRemain'
BY Remains DEF TwoRemain

\* Nobody's rights change.
LEMMA AllRemain ==
    ASSUME TwoRemain, \A u \in Administrators : RightsKept(u)
    PROVE  TwoRemain'
BY BothRemain DEF TwoRemain

\* Nobody is touched.
LEMMA NobodyTouched ==
    ASSUME TwoRemain, UNCHANGED <<users, orgs>>
    PROVE  TwoRemain'
BY DEF TwoRemain, Administrators, Usable, MayAct

\* One user is touched, who is no administrator or keeps the rights of one.
LEMMA OneTouched ==
    ASSUME Rows, TwoRemain, NEW u \in Users, NEW row, users' = [users EXCEPT ![u] = row],
           UNCHANGED orgs,
           u \in Administrators =>
             /\ row.status = users[u].status /\ row.suspended = users[u].suspended
             /\ row.org = users[u].org /\ row.role = users[u].role /\ row.keys # {}
    PROVE  TwoRemain'
<1>1. \A x \in Administrators : RightsKept(x)
    BY DEF RightsKept, Administrators, Rows
<1>. QED
    BY <1>1, AllRemain

\* A reviewer is an administrator; two reviewers are two.
LEMMA ReviewersAreAdministrators ==
    ASSUME Rows, NEW s \in Sessions, Reviewer(s)
    PROVE  Actor(s) \in Administrators
BY ActorsExist DEF Reviewer, Fresh, Administrators

\* An administrator, seen from the row.
LEMMA AdministratorRows ==
    ASSUME Rows, NEW u \in Administrators
    PROVE  /\ u \in Users /\ users[u] \in UserRows /\ users[u].org \in Orgs
           /\ users[u].status = "active" /\ ~users[u].suspended /\ users[u].role = "platform"
           /\ orgs[users[u].org] = "open" /\ users[u].keys # {}
BY DEF Administrators, Usable, MayAct, Rows, AccountRows

\* Taking away a key leaves one.
LEMMA KeyLeft ==
    ASSUME Rows, NEW s \in Sessions, NEW k, Removable(s, k)
    PROVE  users[Actor(s)].keys \ {k} # {}
<1>1. CASE users[Actor(s)].keys = {}
    BY <1>1, FS_EmptySet DEF Removable
<1>2. CASE users[Actor(s)].keys = {k}
    <2>1. Cardinality({k}) = 1
        BY FS_Singleton
    <2>2. Cardinality({k}) >= 2
        BY <1>2 DEF Removable
    <2>. QED
        BY <2>1, <2>2
<1>. QED
    BY <1>1, <1>2

\* Sessions, passwords and keys.
LEMMA SignedInAdministrators ==
    ASSUME Rows, TwoRemain
    PROVE  /\ \A s \in Sessions : SessionStep(s) => TwoRemain'
           /\ PasswordStep => TwoRemain'
           /\ \A u \in Users : recoveryEnds(u) => TwoRemain'
<1>1. ASSUME NEW s \in Sessions, NEW k \in Keys, verifyRegistration(s, k)
      PROVE  TwoRemain'
    <2>. DEFINE row == [users[Actor(s)] EXCEPT !.keys = @ \cup {k}, !.history = TRUE,
                                               !.recovery = FALSE]
    <2>1. Actor(s) \in Users /\ users[Actor(s)] \in UserRows
        BY <1>1, ActorsExist DEF verifyRegistration, Identified, AccountRows
    <2>2. /\ row.status = users[Actor(s)].status /\ row.suspended = users[Actor(s)].suspended
          /\ row.org = users[Actor(s)].org /\ row.role = users[Actor(s)].role
          /\ row.keys # {}
        BY <2>1 DEF UserRows
    <2>3. users' = [users EXCEPT ![Actor(s)] = row] /\ UNCHANGED orgs
        BY <1>1 DEF verifyRegistration
    <2>. HIDE DEF row
    <2>. QED
        BY <2>1, <2>2, <2>3, OneTouched
<1>2. ASSUME NEW s \in Sessions, NEW k \in Keys, revokeKey(s, k)
      PROVE  TwoRemain'
    <2>. DEFINE row == [users[Actor(s)] EXCEPT !.keys = @ \ {k}]
    <2>1. Actor(s) \in Users /\ users[Actor(s)] \in UserRows /\ Removable(s, k)
        BY <1>2, ActorsExist DEF revokeKey, Identified, AccountRows
    <2>2. /\ row.status = users[Actor(s)].status /\ row.suspended = users[Actor(s)].suspended
          /\ row.org = users[Actor(s)].org /\ row.role = users[Actor(s)].role
          /\ row.keys # {}
        BY <2>1, KeyLeft DEF UserRows
    <2>3. users' = [users EXCEPT ![Actor(s)] = row] /\ UNCHANGED orgs
        BY <1>2 DEF revokeKey
    <2>. HIDE DEF row
    <2>. QED
        BY <2>1, <2>2, <2>3, OneTouched
<1>3. ASSUME NEW s \in Sessions, SessionStep(s)
      PROVE  TwoRemain'
    BY <1>1, <1>2, <1>3, NobodyTouched
       DEF SessionStep, createSession, revokeSession, options, verifyAuthentication,
           endChallenge, freshnessEnds
<1>4. ASSUME NEW u \in Users
      PROVE  /\ users' = [users EXCEPT ![u].password = @ + 1] /\ UNCHANGED orgs => TwoRemain'
             /\ users' = [users EXCEPT ![u].recovery = FALSE] /\ UNCHANGED orgs => TwoRemain'
    <2>. DEFINE row(x) == [users[u] EXCEPT !.password = x]
                over == [users[u] EXCEPT !.recovery = FALSE]
    <2>1. \A x : u \in Administrators =>
             /\ row(x).status = users[u].status /\ row(x).suspended = users[u].suspended
             /\ row(x).org = users[u].org /\ row(x).role = users[u].role /\ row(x).keys # {}
        BY AdministratorRows DEF UserRows
    <2>2. u \in Administrators =>
             /\ over.status = users[u].status /\ over.suspended = users[u].suspended
             /\ over.org = users[u].org /\ over.role = users[u].role /\ over.keys # {}
        BY AdministratorRows DEF UserRows
    <2>3. /\ users' = [users EXCEPT ![u].password = @ + 1] =>
                users' = [users EXCEPT ![u] = row(users[u].password + 1)]
          /\ users' = [users EXCEPT ![u].recovery = FALSE] => users' = [users EXCEPT ![u] = over]
        OBVIOUS
    <2>. HIDE DEF row, over
    <2>. QED
        BY <2>1, <2>2, <2>3, OneTouched
<1>5. ASSUME PasswordStep
      PROVE  TwoRemain'
    <2>1. ASSUME NEW t \in Tokens, resetPassword(t)
          PROVE  TwoRemain'
        <3>1. tokens[t].user \in Users
            BY <2>1, Blanks DEF resetPassword, Rows, ResetRows
        <3>. QED
            BY <1>4, <2>1, <3>1 DEF resetPassword
    <2>2. ASSUME NEW u \in Users, NEW s \in Sessions \cup {"gone"}, changePassword(u, s)
          PROVE  TwoRemain'
        BY <1>4, <2>2 DEF changePassword
    <2>3. ASSUME NEW u \in Users, NEW t \in Tokens, requestPasswordReset(u, t)
          PROVE  TwoRemain'
        BY <2>3, NobodyTouched DEF requestPasswordReset
    <2>4. ASSUME NEW t \in Tokens, lockResetToken(t) \/ endToken(t)
          PROVE  TwoRemain'
        BY <2>4, NobodyTouched DEF lockResetToken, endToken
    <2>. QED
        BY <1>5, <2>1, <2>2, <2>3, <2>4 DEF PasswordStep
<1>6. ASSUME NEW u \in Users, recoveryEnds(u)
      PROVE  TwoRemain'
    BY <1>4, <1>6 DEF recoveryEnds
<1>. QED
    BY <1>3, <1>5, <1>6

\* Decisions: two reviewers remain after their own; the others concern no administrator.
LEMMA DecisionAdministrators ==
    ASSUME Rows, TwoRemain, NEW s \in Sessions, DecisionStep(s)
    PROVE  TwoRemain'
<1>1. ASSUME NEW s2 \in Sessions, Reviewed(s, s2), NEW u \in Users, u \notin {Actor(s), Actor(s2)},
             NEW row, users' = [users EXCEPT ![u] = row], UNCHANGED orgs
      PROVE  TwoRemain'
    <2>1. Actor(s) \in Administrators /\ Actor(s2) \in Administrators /\ Actor(s) # Actor(s2)
        BY <1>1, ReviewersAreAdministrators DEF Reviewed
    <2>2. RightsKept(Actor(s)) /\ RightsKept(Actor(s2))
        BY <1>1, <2>1, AdministratorRows DEF RightsKept, Rows
    <2>. QED
        BY <2>1, <2>2, BothRemain
<1>2. ASSUME NEW s2 \in Sessions, NEW u \in Users,
             approveRecovery(s, s2, u) \/ suspendUser(s, s2, u) \/ deactivateUser(s, s2, u)
      PROVE  TwoRemain'
    <2>1. /\ Reviewed(s, s2) /\ u \notin {Actor(s), Actor(s2)} /\ UNCHANGED orgs
          /\ \E row : users' = [users EXCEPT ![u] = row]
        BY <1>2 DEF approveRecovery, suspendUser, deactivateUser
    <2>. QED
        BY <1>1, <2>1
<1>3. ASSUME NEW s2 \in Sessions, NEW o \in Orgs, suspendOrganization(s, s2, o)
      PROVE  TwoRemain'
    <2>1. Actor(s) \in Administrators /\ Actor(s2) \in Administrators /\ Actor(s) # Actor(s2)
        BY <1>3, ReviewersAreAdministrators DEF suspendOrganization, Reviewed
    <2>2. ASSUME NEW x \in Administrators, users[x].org # o
          PROVE  RightsKept(x)
        BY <1>3, <2>2, AdministratorRows DEF suspendOrganization, MembersOf, RightsKept, Rows
    <2>. QED
        BY <1>3, <2>1, <2>2, BothRemain DEF suspendOrganization
<1>4. ASSUME NEW u \in Users, RestoredUser(u)
      PROVE  TwoRemain'
    <2>1. u \notin Administrators
        BY <1>4, AdministratorRows DEF RestoredUser
    <2>. QED
        BY <1>4, <2>1, OneTouched DEF RestoredUser
<1>5. ASSUME NEW o \in Orgs, RestoredOrganization(o)
      PROVE  TwoRemain'
    <2>1. \A x \in Administrators : RightsKept(x)
        BY <1>5, AdministratorRows DEF RestoredOrganization, RightsKept, Rows
    <2>. QED
        BY <2>1, AllRemain
<1>6. ASSUME NEW s2 \in Sessions, decidePrivilegedAccess(s, s2)
      PROVE  TwoRemain'
    BY <1>2, <1>3, <1>4, <1>5, <1>6 DEF decidePrivilegedAccess
<1>7. ASSUME NEW u \in Administrators
      PROVE  Protected(users[u].org)
    BY AdministratorRows DEF Protected, MembersOf
<1>8. ASSUME NEW u \in Users, changeUserAccess(s, u)
      PROVE  TwoRemain'
    <2>1. u \notin Administrators
        BY <1>7, <1>8 DEF changeUserAccess, RoutineDecision
    <2>2. CASE RestoredUser(u)
        BY <1>4, <2>2
    <2>3. CASE ~RestoredUser(u)
        BY <1>8, <2>1, <2>3, OneTouched DEF changeUserAccess
    <2>. QED
        BY <2>2, <2>3
<1>9. ASSUME NEW o \in Orgs, changeOrganizationAccess(s, o)
      PROVE  TwoRemain'
    <2>1. CASE RestoredOrganization(o)
        BY <1>5, <2>1
    <2>2. CASE ~RestoredOrganization(o)
        <3>1. users' = users /\ orgs' = [orgs EXCEPT ![o] = "suspended"] /\ ~Protected(o)
            BY <1>9, <2>2 DEF changeOrganizationAccess, RoutineDecision
        <3>2. \A x \in Administrators : RightsKept(x)
            BY <1>7, <3>1, AdministratorRows DEF RightsKept, Rows
        <3>. QED
            BY <3>2, AllRemain
    <2>. QED
        BY <2>1, <2>2
<1>10. ASSUME NEW u \in Users, NEW role \in {"admin", "member", "none"}, changeMember(s, u, role)
      PROVE  TwoRemain'
    <2>1. /\ ~Protected(users[u].org) /\ UNCHANGED orgs
          /\ \E row : users' = [users EXCEPT ![u] = row]
        BY <1>10 DEF changeMember, MembersOf
    <2>2. u \notin Administrators
        BY <1>7, <2>1
    <2>. QED
        BY <2>1, <2>2, OneTouched
<1>. QED
    BY <1>2, <1>6, <1>8, <1>9, <1>10 DEF DecisionStep

\* Invitations and applications add accounts and organizations, and take none away.
LEMMA OtherAdministrators ==
    ASSUME Rows, TwoRemain
    PROVE  /\ \A s \in Sessions : InvitationStep(s) => TwoRemain'
           /\ \A i \in Invitations : acceptInvitation(i) \/ invitationExpires(i) => TwoRemain'
           /\ \A o \in Orgs, u \in Users : apply(o, u) \/ reject(u, o) => TwoRemain'
           /\ \A o \in Orgs : verifyEmail(o) \/ removeUnverified(o) => TwoRemain'
<1>1. ASSUME NEW s \in Sessions, NEW o \in Orgs, NEW i \in Invitations, approve(s, o, i)
      PROVE  TwoRemain'
    <2>1. \A x \in Administrators : RightsKept(x)
        BY <1>1, AdministratorRows DEF approve, RightsKept, Rows
    <2>. QED
        BY <2>1, AllRemain
<1>2. ASSUME NEW s \in Sessions, InvitationStep(s)
      PROVE  TwoRemain'
    BY <1>1, <1>2, NobodyTouched
       DEF InvitationStep, createPendingInvitation, revokeInvitation, resendInvitation
<1>3. ASSUME NEW i \in Invitations, acceptInvitation(i)
      PROVE  TwoRemain'
    <2>1. \A x \in Administrators : RightsKept(x)
        BY <1>3, AdministratorRows DEF acceptInvitation, RightsKept, Rows
    <2>. QED
        BY <2>1, AllRemain
<1>4. ASSUME NEW i \in Invitations, invitationExpires(i)
      PROVE  TwoRemain'
    BY <1>4, NobodyTouched DEF invitationExpires
<1>5. ASSUME NEW o \in Orgs, NEW u \in Users, apply(o, u) \/ reject(u, o)
      PROVE  TwoRemain'
    BY <1>5, NobodyTouched DEF apply, reject
<1>6. ASSUME NEW o \in Orgs, verifyEmail(o) \/ removeUnverified(o)
      PROVE  TwoRemain'
    BY <1>6, NobodyTouched DEF verifyEmail, removeUnverified
<1>. QED
    BY <1>2, <1>3, <1>4, <1>5, <1>6

\* Every step leaves two administrators.
LEMMA StepAdministrators == Rows /\ TwoRemain /\ [Next]_vars => TwoRemain'
<1>1. Rows /\ TwoRemain /\ Next => TwoRemain'
    BY SignedInAdministrators, DecisionAdministrators, OtherAdministrators DEF Next
<1>2. TwoRemain /\ UNCHANGED vars => TwoRemain'
    BY NobodyTouched DEF vars
<1>. QED
    BY <1>1, <1>2

-----------------------------------------------------------------------------
(* The theorems.                                                           *)

\* The accounts, organizations and sessions at the start satisfy the invariant.
LEMMA InitAccounts == Init => AccountsInv
<1>. SUFFICES ASSUME Init PROVE AccountsInv
    OBVIOUS
<1>1. Rows
    BY HoldersAssumption, Blanks, RequestsAssumption
       DEF Init, Rows, AccountRows, LoginRows
<1>2. SessionsAreCurrent
    BY HoldersAssumption DEF Init, SessionsAreCurrent, Live, Actor, Usable
<1>3. PendingInvitationsHold
    BY Blanks DEF Init, PendingInvitationsHold, Pending
<1>4. TwoRemain
    BY HoldersAssumption DEF Init, TwoRemain, Administrators, Usable
<1>. QED
    BY <1>1, <1>2, <1>3, <1>4 DEF AccountsInv

\* The invariant holds in every reachable state.
THEOREM SpecAccounts == Spec => []AccountsInv
<1>1. AccountsInv /\ [Next]_vars => AccountsInv'
    BY RowsKept, StepCurrent, StepLetters, StepAdministrators DEF AccountsInv
<1>. QED
    BY <1>1, InitAccounts, PTL DEF Spec

\* Every row keeps its type.
THEOREM AccountTypes == Spec => []TypeOK
<1>1. AccountsInv => TypeOK
    BY RowsAreTyped DEF AccountsInv
<1>. QED
    BY <1>1, SpecAccounts, PTL

(***************************************************************************)
(* Whatever logins, suspensions, role changes, resets and key removals     *)
(* interleave: a session in use is of an account and an organization that  *)
(* have access, opened under the present password, and verified, if at     *)
(* all, with a passkey the user still has.                                 *)
(***************************************************************************)
THEOREM SessionsStayCurrent == Spec => []SessionsAreCurrent
BY SpecAccounts, PTL DEF AccountsInv

(***************************************************************************)
(* Two platform administrators with access and a passkey always remain:    *)
(* each decision that takes one away is made by two others.                *)
(***************************************************************************)
THEOREM ReviewersRemain == Spec => []AdministratorsRemain
<1>1. TwoRemain => AdministratorsRemain
    <2>. SUFFICES ASSUME TwoRemain PROVE Cardinality(Administrators) >= 2
        BY DEF AdministratorsRemain
    <2>1. IsFiniteSet(Administrators)
        BY NamesAssumption, FS_Subset DEF Administrators
    <2>. QED
        BY <2>1, ManyOfTwo DEF TwoRemain
<1>. QED
    BY <1>1, SpecAccounts, PTL DEF AccountsInv

(***************************************************************************)
(* Whoever accepts an open invitation joins an open organization, on the   *)
(* word of an account that is still active: suspending the organization or *)
(* deactivating the sender revokes it.                                     *)
(***************************************************************************)
THEOREM InvitationsStayGood == Spec => []PendingInvitationsHold
BY SpecAccounts, PTL DEF AccountsInv

=============================================================================
