------------------------------ MODULE Identity ------------------------------
(***************************************************************************)
(* Users, memberships, sessions and compatibility grants as the database   *)
(* store keeps them.  The transactions run at READ COMMITTED and rest on   *)
(* row locks.  Those that may take an owner away (disabling, demoting and  *)
(* removing) hold the rows of the organizations while they count the other *)
(* owners; they are modelled statement by statement.  The others lock the  *)
(* rows of one user in their first statement and are one step, which waits *)
(* while a transaction has locked that user.  A login reads the user,      *)
(* compares the password and asks for a session later: two steps.          *)
(*                                                                         *)
(* Organizations are numbers, in the order of their identifiers.  Pairing  *)
(* grants, which most operations revoke too, are in DeviceEnrollment.      *)
(***************************************************************************)
EXTENDS Integers, FiniteSets, FiniteSetsExt

CONSTANTS Users, Orgs, Tokens, None, InitialRole, OfferedRoles, SessionLife,
          RotationLife, RecoveryWindow, MaxTime,
          Transactions,   \* identifiers of concurrent identity mutations
          MaxChanges      \* bound: changes of users and memberships begun

Policy == INSTANCE ScopedAuthorization

ASSUME IdentityAssumption ==
    /\ Orgs \subseteq Nat /\ IsFiniteSet(Orgs)
    /\ None \notin Policy!AllRoles
    /\ OfferedRoles \subseteq Policy!AllRoles
    /\ InitialRole \in [Users -> [Orgs -> Policy!AllRoles \cup {None}]]
    /\ \A o \in Orgs : \E u \in Users : InitialRole[u][o] = "OWNER"
    /\ SessionLife \in Nat \ {0} /\ RotationLife \in Nat \ {0}
    /\ RecoveryWindow \in Nat \ {0}
    /\ RotationLife <= SessionLife \* ten minutes and an hour

\* None is no session, of this store or of the in-memory one.
ASSUME IdentityNoneAssumption ==
    /\ None \notin [user : Users, org : Orgs, purpose : {"FULL", "ROTATION"},
                    expiresAt : Nat, revoked : BOOLEAN, authn : Nat,
                    authz : Nat, role : Policy!AllRoles \cup {None},
                    password : Nat]
    /\ None \notin [user : Users, org : Orgs, purpose : {"FULL", "ROTATION"},
                    expiresAt : Nat]

VARIABLES
    now,
    users,      \* "User": disabled, password, marker, authn (its epoch)
    members,    \* "Membership" of a user in an organization: role and authz
                \* epoch; the role is None when there is no such row
    grants,     \* "AccessGrant" rows of a membership that are not revoked
    sessions,   \* "UserSession" of a token, with what the login knew
    logins,     \* the login a token is meant for, None if there is none
    mutations,  \* the identity mutations in flight
    changes     \* number of changes begun

identityVars == <<now, users, members, grants, sessions, logins, mutations,
                  changes>>

Memberships(u) == {o \in Orgs : members[u][o].role # None}

\* compatibilityGrantCapabilities: what a role is given, for all screens.
CompatibilityRows(role, at) ==
    {[capability |-> c, scope |-> <<"ORGANIZATION", None>>, startsAt |-> at,
      expiresAt |-> None, revoked |-> FALSE] :
        c \in Policy!CompatibilityGrants[role]}

Init ==
    /\ now = 0
    /\ users = [u \in Users |-> [disabled |-> FALSE, password |-> 0,
                                 marker |-> None, authn |-> 0]]
    /\ members = [u \in Users |-> [o \in Orgs |->
                    [role |-> InitialRole[u][o], authz |-> 0]]]
    /\ grants = [u \in Users |-> [o \in Orgs |->
                    IF InitialRole[u][o] = None THEN {}
                    ELSE CompatibilityRows(InitialRole[u][o], 0)]]
    /\ sessions = [k \in Tokens |-> None]
    /\ logins = [k \in Tokens |-> None]
    /\ mutations = [t \in Transactions |-> None]
    /\ changes = 0

-----------------------------------------------------------------------------
(* Locks.                                                                   *)

InFlight == {t \in Transactions : mutations[t] # None}

\* FOR UPDATE OF membership, actor: nobody else has locked the user's rows.
RowsFree(u) ==
    \A t \in InFlight : mutations[t].user = u =>
        mutations[t].step \notin {"check", "write"}

\* Mutant of OrgFree: the row of the organization is not locked.
OrgRead(o, t) == o \in Orgs

\* FOR NO KEY UPDATE OF organization
OrgFree(o, t) == \A v \in InFlight \ {t} : o \notin mutations[v].held

-----------------------------------------------------------------------------
(* Sessions.                                                                *)

\* findActiveUserSession, and the role in the token against the current one.
Active(k) ==
    LET session == sessions[k] IN
    /\ session # None
    /\ LET user == users[session.user]
           member == members[session.user][session.org] IN
       /\ member.role # None /\ ~user.disabled
       /\ ~session.revoked /\ session.expiresAt > now
       /\ session.authn = user.authn /\ session.authz = member.authz
       /\ IF session.purpose = "FULL" THEN user.marker = None
          ELSE /\ user.marker # None
               /\ user.marker > now /\ session.expiresAt <= user.marker
       /\ session.role = member.role

\* findUserByEmail: the first membership of a user who is not disabled.
Home(u) == Min(Memberships(u))

SessionEnd(u) ==
    IF users[u].marker = None THEN now + SessionLife
    ELSE Min({users[u].marker, now + RotationLife})

\* POST /auth/login up to the point where the session is asked for: the user
\* gave the right password, and there is time left.
BeginLogin(u, k) ==
    /\ sessions[k] = None /\ logins[k] = None
    /\ ~users[u].disabled /\ Memberships(u) # {}
    /\ SessionEnd(u) > now
    /\ logins' = [logins EXCEPT ![k] =
          [user |-> u, org |-> Home(u), expiresAt |-> SessionEnd(u),
           password |-> users[u].password, marker |-> users[u].marker,
           authn |-> users[u].authn, member |-> members[u][Home(u)]]]
    /\ UNCHANGED <<now, users, members, grants, sessions, mutations, changes>>

\* Mutant of AsExpected: the user may still sign in, that is all.
MaySignIn(login) ==
    /\ ~users[login.user].disabled
    /\ members[login.user][login.org].role # None

\* The rows of the user are still those that the password was compared with.
AsExpected(login) ==
    /\ ~users[login.user].disabled
    /\ members[login.user][login.org] = login.member
    /\ members[login.user][login.org].role # None
    /\ users[login.user].password = login.password
    /\ users[login.user].authn = login.authn
    /\ users[login.user].marker = login.marker

\* What a session of each purpose asks for.
PurposeHolds(login) ==
    LET marker == users[login.user].marker IN
    /\ login.expiresAt > now
    /\ login.marker = None => marker = None
    /\ login.marker # None => /\ marker # None
                              /\ marker > now
                              /\ login.expiresAt <= marker
                              /\ login.expiresAt <= now + RotationLife

\* createUserSessionAndAudit, which also deletes the user's expired sessions.
CreateSession(k) ==
    LET login == logins[k] IN
    /\ login # None
    /\ RowsFree(login.user)
    /\ AsExpected(login) /\ PurposeHolds(login)
    /\ sessions' = [j \in Tokens |->
          IF j = k
          THEN [user |-> login.user, org |-> login.org,
                purpose |-> IF login.marker = None THEN "FULL" ELSE "ROTATION",
                expiresAt |-> login.expiresAt, revoked |-> FALSE,
                authn |-> users[login.user].authn,
                authz |-> members[login.user][login.org].authz,
                role |-> login.member.role, password |-> login.password]
          ELSE IF /\ sessions[j] # None
                  /\ sessions[j].user = login.user
                  /\ sessions[j].org = login.org
                  /\ sessions[j].expiresAt <= now
          THEN None ELSE sessions[j]]
    /\ logins' = [logins EXCEPT ![k] = None]
    /\ UNCHANGED <<now, users, members, grants, mutations, changes>>

RefuseLogin(k) ==
    LET login == logins[k] IN
    /\ login # None
    /\ RowsFree(login.user)
    /\ ~(AsExpected(login) /\ PurposeHolds(login))
    /\ logins' = [logins EXCEPT ![k] = None]
    /\ UNCHANGED <<now, users, members, grants, sessions, mutations, changes>>

\* revokeUserSessionAndAudit, by the holder of an active session.
Logout(k) ==
    /\ Active(k) /\ RowsFree(sessions[k].user)
    /\ sessions' = [sessions EXCEPT ![k].revoked = TRUE]
    /\ UNCHANGED <<now, users, members, grants, logins, mutations, changes>>

\* Every session that the user has in these organizations is revoked.
RevokeSessions(u, organizations) ==
    sessions' = [k \in Tokens |->
                    IF sessions[k] # None /\ sessions[k].user = u
                       /\ sessions[k].org \in organizations
                    THEN [sessions[k] EXCEPT !.revoked = TRUE]
                    ELSE sessions[k]]

-----------------------------------------------------------------------------
(* Passwords.                                                               *)

Change == changes < MaxChanges /\ changes' = changes + 1

\* rotateBootstrapPasswordAndAudit: a recovered password is replaced by its
\* user's own, and the marker is cleared.  The expected values are those of the
\* request's active session; a password never changes without the epoch, so
\* that they hold exactly when the session is active still.
RotateBootstrapPassword(k) ==
    /\ Change
    /\ Active(k) /\ sessions[k].purpose = "ROTATION"
    /\ LET u == sessions[k].user IN
       /\ RowsFree(u)
       /\ users' = [users EXCEPT ![u].password = @ + 1, ![u].authn = @ + 1,
                                 ![u].marker = None]
       /\ RevokeSessions(u, Orgs)
    /\ UNCHANGED <<now, members, grants, logins, mutations>>

RotateUserPassword(u) ==
    /\ Change
    /\ Memberships(u) # {} /\ RowsFree(u)
    /\ users' = [users EXCEPT ![u].password = @ + 1, ![u].authn = @ + 1]
    /\ RevokeSessions(u, Orgs)
    /\ UNCHANGED <<now, members, grants, logins, mutations>>

\* recoverBootstrapPassword, run by an operator with access to the database.
RecoverPassword(u) ==
    /\ Change
    /\ RowsFree(u) /\ ~users[u].disabled
    /\ \E o \in Orgs : members[u][o].role = "OWNER"
    /\ users' = [users EXCEPT ![u].password = @ + 1, ![u].authn = @ + 1,
                              ![u].marker = now + RecoveryWindow]
    /\ RevokeSessions(u, Orgs)
    /\ UNCHANGED <<now, members, grants, logins, mutations>>

-----------------------------------------------------------------------------
(* Disabling, demoting and removing.  A mutation is [kind, user, role, orgs *)
(* (it concerns), held (rows of organizations), at (its clock), step].      *)

Begin(t, kind, u, organizations, role) ==
    /\ Change
    /\ mutations[t] = None
    /\ mutations' = [mutations EXCEPT ![t] =
          [kind |-> kind, user |-> u, role |-> role, orgs |-> organizations,
           held |-> {}, at |-> now, step |-> "orgs"]]
    /\ UNCHANGED <<now, users, members, grants, sessions, logins>>

\* disableUserAndAudit reads the memberships first, without a lock.
BeginDisable(t, u) ==
    Memberships(u) # {} /\ Begin(t, "disable", u, Memberships(u), None)

BeginChangeRole(t, u, o, role) == Begin(t, "role", u, {o}, role)

BeginRemove(t, u, o) == Begin(t, "remove", u, {o}, None)

\* Mutant of NextOrg: unsorted, the organizations that the user does not own
\* were read first.
NextAsRead(m) ==
    LET rest == m.orgs \ m.held
        read == {o \in rest : members[m.user][o].role # "OWNER"}
    IN Min(IF read # {} THEN read ELSE rest)

\* The organizations are locked in the order of their identifiers.
NextOrg(m) == Min(m.orgs \ m.held)

\* lockOwnerContinuity: one organization after the other.
LockOrg(t) ==
    LET m == mutations[t] IN
    /\ m # None /\ m.step = "orgs" /\ m.orgs # m.held
    /\ OrgFree(NextOrg(m), t)
    /\ mutations' = [mutations EXCEPT ![t].held = @ \cup {NextOrg(m)}]
    /\ UNCHANGED <<now, users, members, grants, sessions, logins, changes>>

\* The rows of the user are locked and read; nothing happens if there is no
\* membership any more.
LockRows(t) ==
    LET m == mutations[t] IN
    /\ m # None /\ m.step = "orgs" /\ m.orgs = m.held
    /\ RowsFree(m.user)
    /\ mutations' = [mutations EXCEPT ![t] =
          IF m.orgs \cap Memberships(m.user) = {} THEN None
          ELSE [m EXCEPT !.step = "check"]]
    /\ UNCHANGED <<now, users, members, grants, sessions, logins, changes>>

ActiveOwner(u, o) == members[u][o].role = "OWNER" /\ ~users[u].disabled

\* Mutant of HasOtherActiveOwner: a disabled owner counts.
HasOtherOwner(u, o) == \E v \in Users \ {u} : members[v][o].role = "OWNER"

HasOtherActiveOwner(u, o) == \E v \in Users \ {u} : ActiveOwner(v, o)

\* The owner is counted in every organization where the user stops being one.
CheckOwners(t) ==
    LET m == mutations[t]
        refused == /\ m.role # "OWNER"
                   /\ \E o \in m.orgs : /\ ActiveOwner(m.user, o)
                                        /\ ~HasOtherActiveOwner(m.user, o)
    IN /\ m # None /\ m.step = "check"
       /\ mutations' = [mutations EXCEPT ![t] =
             IF refused THEN None ELSE [m EXCEPT !.step = "write"]]
       /\ UNCHANGED <<now, users, members, grants, sessions, logins, changes>>

CommitDisable(t) ==
    LET m == mutations[t] IN
    /\ m # None /\ m.step = "write" /\ m.kind = "disable"
    /\ users' = [users EXCEPT ![m.user].disabled = TRUE,
                              ![m.user].authn = @ + 1]
    /\ RevokeSessions(m.user, Orgs)
    /\ mutations' = [mutations EXCEPT ![t] = None]
    /\ UNCHANGED <<now, members, grants, logins, changes>>

\* Mutant of NewGrants: the grants follow the role that the member had.
OldGrants(m, o) == CompatibilityRows(members[m.user][o].role, m.at)

\* replaceCompatibilityGrants: all grants of the membership are the system's
\* and are revoked; the new role's take their place.
NewGrants(m, o) == CompatibilityRows(m.role, m.at)

CommitChangeRole(t) ==
    LET m == mutations[t] IN
    /\ m # None /\ m.step = "write" /\ m.kind = "role"
    /\ \E o \in m.orgs :
          /\ members' = [members EXCEPT ![m.user][o] =
                            [role |-> m.role, authz |-> @.authz + 1]]
          /\ grants' = [grants EXCEPT ![m.user][o] = NewGrants(m, o)]
    /\ RevokeSessions(m.user, m.orgs)
    /\ mutations' = [mutations EXCEPT ![t] = None]
    /\ UNCHANGED <<now, users, logins, changes>>

\* The grants are revoked by a trigger of the deleted membership.
CommitRemove(t) ==
    LET m == mutations[t] IN
    /\ m # None /\ m.step = "write" /\ m.kind = "remove"
    /\ \E o \in m.orgs :
          /\ members' = [members EXCEPT ![m.user][o] =
                            [role |-> None, authz |-> @.authz + 1]]
          /\ grants' = [grants EXCEPT ![m.user][o] = {}]
    /\ RevokeSessions(m.user, m.orgs)
    /\ mutations' = [mutations EXCEPT ![t] = None]
    /\ UNCHANGED <<now, users, logins, changes>>

Tick ==
    /\ now < MaxTime
    /\ now' = now + 1
    /\ UNCHANGED <<users, members, grants, sessions, logins, mutations,
                   changes>>

\* Time and the changes may run out; a transaction that waits must not be
\* left.
Rest == InFlight = {} /\ UNCHANGED identityVars

Next ==
    \/ Tick \/ Rest
    \/ \E k \in Tokens :
        \/ CreateSession(k) \/ RefuseLogin(k) \/ Logout(k)
        \/ RotateBootstrapPassword(k)
    \/ \E u \in Users :
        \/ RotateUserPassword(u) \/ RecoverPassword(u)
        \/ \E k \in Tokens : BeginLogin(u, k)
        \/ \E t \in Transactions :
            \/ BeginDisable(t, u)
            \/ \E o \in Orgs :
                \/ BeginRemove(t, u, o)
                \/ \E role \in OfferedRoles : BeginChangeRole(t, u, o, role)
    \/ \E t \in Transactions :
        \/ LockOrg(t) \/ LockRows(t) \/ CheckOwners(t)
        \/ CommitDisable(t) \/ CommitChangeRole(t) \/ CommitRemove(t)

Spec == Init /\ [][Next]_identityVars

-----------------------------------------------------------------------------
(* Correctness.                                                             *)

\* Every organization keeps an owner who is not disabled, although every
\* transaction counts the others before it writes (hasOtherActiveOwner under
\* lockOwnerContinuity).
OwnerRemains == \A o \in Orgs : \E u \in Users : ActiveOwner(u, o)

\* Who uses a session signed in with the password that the account has now
\* and with the role that the membership has now: no login that was under way
\* during a rotation, a recovery or a change of role ends in a session
\* (createUserSessionAndAudit, findActiveUserSession).
NoSessionOutlivesAuthority ==
    \A k \in Tokens : Active(k) =>
        /\ sessions[k].password = users[sessions[k].user].password
        /\ sessions[k].role = members[sessions[k].user][sessions[k].org].role

\* The shadow of scoped authorization agrees with the role policy for every
\* membership and capability, however roles are changed: promotions,
\* demotions and removals replace the grants (replaceCompatibilityGrants,
\* evaluateScopedAuthorization; "mirror the current role ceiling").
ScopedAgreesWithRole ==
    LET screen == [screen |-> "any", location |-> None, groups |-> {}]
        targets(c) == IF c \in Policy!TargetScoped THEN {screen} ELSE {}
        reason(u, o, c) == Policy!Evaluate(members[u][o].role, c, grants[u][o],
                                           targets(c), now)
    IN \A u \in Users, o \in Orgs, c \in Policy!Capabilities :
          Policy!HasCapability(members[u][o].role, c)
             <=> Policy!MismatchKind(reason(u, o, c)) = "NONE"

\* The locks that a transaction waits for in its next statement are free.
CanGoOn(t) ==
    LET m == mutations[t] IN
    m.step = "orgs" => IF m.orgs = m.held THEN RowsFree(m.user)
                       ELSE OrgFree(NextOrg(m), t)

\* Transactions never all wait for each other: disablings of users of several
\* organizations, which lock one row after another, meet demotions, removals
\* and each other without a deadlock (lockOwnerContinuity: "Sorting also
\* gives multi-tenant user disables one lock order").
SomeTransactionGoesOn == InFlight # {} => \E t \in InFlight : CanGoOn(t)

Directory == INSTANCE IdentityDirectory WITH
    users <- [u \in Users |-> [disabled |-> users[u].disabled,
                               password |-> users[u].password,
                               marker |-> users[u].marker]],
    roles <- [u \in Users |-> [o \in Orgs |-> members[u][o].role]],
    sessions <- [k \in Tokens |->
                    IF ~Active(k) THEN None
                    ELSE [user |-> sessions[k].user, org |-> sessions[k].org,
                          purpose |-> sessions[k].purpose,
                          expiresAt |-> sessions[k].expiresAt]]

\* Statement by statement, the transactions do what the in-memory store does
\* in one step: a session is active from its login to its logout, its expiry
\* or the next change of what it rests on, and no change slips past the count
\* of the owners.
ImplementsDirectory == Directory!DirectorySpec
=============================================================================
