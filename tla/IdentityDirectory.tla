------------------------- MODULE IdentityDirectory --------------------------
(***************************************************************************)
(* Users, their memberships and their sessions as the in-memory store      *)
(* keeps them, each operation one step.  This is what the identity part of *)
(* the store promises: a session lasts from a login to its logout, its     *)
(* expiry or the next change of its user's password, status or role in the *)
(* organization, whichever is first.  Epochs and revocation marks, by      *)
(* which the stores know that, do not appear here.                         *)
(***************************************************************************)
EXTENDS Integers

CONSTANTS
    Users, Orgs, Tokens, None,
    InitialRole,     \* [Users -> [Orgs -> roles or None]]
    OfferedRoles,    \* the roles a membership is changed to
    SessionLife,     \* lifetime of a full session
    RotationLife,    \* longest lifetime of a session for a new password
    RecoveryWindow,  \* time in which a recovered password must be replaced
    MaxTime          \* bound: the last instant

VARIABLES
    now,
    users,     \* each user: disabled, password (a version), marker (the time
               \* until which a recovered password is good, or None)
    roles,     \* the role of a user in an organization, None if not a member
    sessions   \* the session of each token, None if there is none

directoryVars == <<now, users, roles, sessions>>

DirectoryInit ==
    /\ now = 0
    /\ users = [u \in Users |-> [disabled |-> FALSE, password |-> 0,
                                 marker |-> None]]
    /\ roles = InitialRole
    /\ sessions = [k \in Tokens |-> None]

ActiveOwner(u, o) == roles[u][o] = "OWNER" /\ ~users[u].disabled

\* hasOtherActiveOwner, asked when an active owner is about to lose the role.
OwnerRemainsWithout(u, o) ==
    ActiveOwner(u, o) => \E v \in Users \ {u} : ActiveOwner(v, o)

IsMember(u) == \E o \in Orgs : roles[u][o] # None

\* The sessions that are left when those of a user in some organizations go.
SessionsWithout(u, organizations) ==
    [k \in Tokens |->
        IF sessions[k] # None /\ sessions[k].user = u
           /\ sessions[k].org \in organizations
        THEN None ELSE sessions[k]]

-----------------------------------------------------------------------------

\* A login.  A user with a recovered password gets a session for replacing
\* it, which ends no later than the password.
CreateSession(u, o, k, expiresAt) ==
    LET purpose == IF users[u].marker = None THEN "FULL" ELSE "ROTATION" IN
    /\ sessions[k] = None
    /\ roles[u][o] # None /\ ~users[u].disabled
    /\ expiresAt > now
    /\ purpose = "ROTATION" => /\ expiresAt <= users[u].marker
                               /\ expiresAt <= now + RotationLife
    /\ sessions' = [sessions EXCEPT ![k] = [user |-> u, org |-> o,
                                            purpose |-> purpose,
                                            expiresAt |-> expiresAt]]
    /\ UNCHANGED <<now, users, roles>>

Logout(k) ==
    /\ sessions[k] # None
    /\ sessions' = [sessions EXCEPT ![k] = None]
    /\ UNCHANGED <<now, users, roles>>

\* rotateBootstrapPasswordAndAudit: ends every session of the user.
RotateBootstrapPassword(k) ==
    /\ sessions[k] # None /\ sessions[k].purpose = "ROTATION"
    /\ LET u == sessions[k].user IN
       /\ users' = [users EXCEPT ![u].password = @ + 1, ![u].marker = None]
       /\ sessions' = SessionsWithout(u, Orgs)
    /\ UNCHANGED <<now, roles>>

\* rotateUserPasswordAndAudit: a marker stays as it is.
RotateUserPassword(u) ==
    /\ IsMember(u)
    /\ users' = [users EXCEPT ![u].password = @ + 1]
    /\ sessions' = SessionsWithout(u, Orgs)
    /\ UNCHANGED <<now, roles>>

\* recoverBootstrapPassword, run by an operator.
RecoverPassword(u) ==
    /\ \E o \in Orgs : ActiveOwner(u, o)
    /\ users' = [users EXCEPT ![u].password = @ + 1,
                              ![u].marker = now + RecoveryWindow]
    /\ sessions' = SessionsWithout(u, Orgs)
    /\ UNCHANGED <<now, roles>>

DisableUser(u) ==
    /\ IsMember(u)
    /\ \A o \in Orgs : OwnerRemainsWithout(u, o)
    /\ users' = [users EXCEPT ![u].disabled = TRUE]
    /\ sessions' = SessionsWithout(u, Orgs)
    /\ UNCHANGED <<now, roles>>

ChangeMembershipRole(u, o, role) ==
    /\ roles[u][o] # None
    /\ role # "OWNER" => OwnerRemainsWithout(u, o)
    /\ roles' = [roles EXCEPT ![u][o] = role]
    /\ sessions' = SessionsWithout(u, {o})
    /\ UNCHANGED <<now, users>>

RemoveMembership(u, o) ==
    /\ roles[u][o] # None
    /\ OwnerRemainsWithout(u, o)
    /\ roles' = [roles EXCEPT ![u][o] = None]
    /\ sessions' = SessionsWithout(u, {o})
    /\ UNCHANGED <<now, users>>

\* Expired sessions are of no use any more; the store drops them later.
DirectoryTick ==
    /\ now < MaxTime
    /\ now' = now + 1
    /\ sessions' = [k \in Tokens |->
                       IF sessions[k] # None /\ sessions[k].expiresAt <= now'
                       THEN None ELSE sessions[k]]
    /\ UNCHANGED <<users, roles>>

DirectoryNext ==
    \/ DirectoryTick
    \/ \E k \in Tokens : Logout(k) \/ RotateBootstrapPassword(k)
    \/ \E u \in Users :
        \/ RotateUserPassword(u) \/ RecoverPassword(u) \/ DisableUser(u)
        \/ \E o \in Orgs :
            \/ RemoveMembership(u, o)
            \/ \E role \in OfferedRoles : ChangeMembershipRole(u, o, role)
            \/ \E k \in Tokens, expiresAt \in now + 1 .. now + SessionLife :
                  CreateSession(u, o, k, expiresAt)

DirectorySpec == DirectoryInit /\ [][DirectoryNext]_directoryVars

-----------------------------------------------------------------------------

\* Every organization keeps an owner who can sign in, however its owners are
\* disabled, demoted or removed (OWNER_CONTINUITY_REQUIRED).
AnOwnerRemains == \A o \in Orgs : \E u \in Users : ActiveOwner(u, o)

\* A session belongs to a member who is not disabled, and is good for
\* everything exactly when the member's password need not be replaced.
SessionsAreEntitled ==
    \A k \in Tokens : sessions[k] # None =>
        /\ roles[sessions[k].user][sessions[k].org] # None
        /\ ~users[sessions[k].user].disabled
        /\ (sessions[k].purpose = "FULL") = (users[sessions[k].user].marker = None)
=============================================================================
