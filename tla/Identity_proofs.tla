--------------------------- MODULE Identity_proofs ---------------------------
(***************************************************************************)
(* Proofs about Identity, for any users, organizations, tokens and any     *)
(* number of concurrent transactions: owners remain, no session outlives   *)
(* what its login rested on, grants follow roles, and the transactions     *)
(* implement IdentityDirectory and never all wait for each other.          *)
(***************************************************************************)
EXTENDS Identity, FiniteSetTheorems, WellFoundedInduction, TLAPS

Roles == Policy!AllRoles \cup {None}

UserRow == [disabled : BOOLEAN, password : Nat, marker : Nat \cup {None},
            authn : Nat]

MemberRow == [role : Roles, authz : Nat]

SessionRow == [user : Users, org : Orgs, purpose : {"FULL", "ROTATION"},
               expiresAt : Nat, revoked : BOOLEAN, authn : Nat, authz : Nat,
               role : Roles, password : Nat]

LoginRow == [user : Users, org : Orgs, expiresAt : Nat, password : Nat,
             marker : Nat \cup {None}, authn : Nat, member : MemberRow]

Mutation == [kind : {"disable", "role", "remove"}, user : Users, role : Roles,
             orgs : SUBSET Orgs, held : SUBSET Orgs, at : Nat,
             step : {"orgs", "check", "write"}]

\* The types of the rows and of the transactions' variables.
IdentityTypeOK ==
    /\ now \in Nat
    /\ users \in [Users -> UserRow]
    /\ members \in [Users -> [Orgs -> MemberRow]]
    /\ DOMAIN grants = Users /\ \A u \in Users : DOMAIN grants[u] = Orgs
    /\ sessions \in [Tokens -> SessionRow \cup {None}]
    /\ logins \in [Tokens -> LoginRow \cup {None}]
    /\ mutations \in [Transactions -> Mutation \cup {None}]
    /\ \A t \in InFlight : mutations[t].held \subseteq mutations[t].orgs

\* What a transaction in flight holds and what it knows.
Sound(m) ==
    /\ m.step # "orgs" => m.held = m.orgs
    /\ m.kind # "role" => m.role = None
    /\ m.kind # "disable" => \E o \in Orgs : m.orgs = {o}
    /\ m.kind = "disable" => Memberships(m.user) \subseteq m.orgs
    /\ m.kind = "role" => m.role \in OfferedRoles
    /\ m.step # "orgs" => \E o \in m.orgs : members[m.user][o].role # None
    /\ m.at <= now

\* A transaction about to write has counted another owner wherever its user
\* is one and ceases to be.
Counted(m) ==
    m.step = "write" /\ m.role # "OWNER" =>
        \A o \in m.orgs : ActiveOwner(m.user, o) => HasOtherActiveOwner(m.user, o)

Disjoint ==
    \A t, v \in InFlight : t # v => mutations[t].held \cap mutations[v].held = {}

TransactionsOK ==
    /\ Disjoint
    /\ \A t \in InFlight : Sound(mutations[t]) /\ Counted(mutations[t])

\* A transaction holds the first of its organizations.
HeldFirst ==
    \A t \in InFlight :
        \A p \in mutations[t].held,
           o \in mutations[t].orgs \ mutations[t].held : p < o

\* A session that still has its user's epoch has the user's password.
SessionsKnowPassword ==
    \A k \in Tokens : sessions[k] # None =>
        /\ sessions[k].authn <= users[sessions[k].user].authn
        /\ sessions[k].authn = users[sessions[k].user].authn =>
              sessions[k].password = users[sessions[k].user].password

\* The grants of a membership are those of its role, and already good.
GrantsFollowRole ==
    \A u \in Users, o \in Orgs :
        IF members[u][o].role = None THEN grants[u][o] = {}
        ELSE \E at \in Nat : at <= now
                /\ grants[u][o] = CompatibilityRows(members[u][o].role, at)

-----------------------------------------------------------------------------
(* Types                                                                    *)

LEMMA MinLeast ==
    ASSUME NEW S, S \subseteq Nat, S # {}
    PROVE  Min(S) \in S /\ \A y \in S : Min(S) <= y
<1> DEFINE less == {p \in Nat \X Nat : p[1] < p[2]}
<1>1. IsWellFoundedOn(less, Nat)
  BY NatLessThanWellFounded DEF OpToRel
<1> HIDE DEF less
<1>2. PICK x \in S : \A y \in S : <<y, x>> \notin less
  BY <1>1, WFMin
<1>3. ASSUME NEW y \in S PROVE x <= y
  <2>1. x \in Nat /\ y \in Nat /\ <<y, x>> \notin less
    BY <1>2
  <2>2. ~(y < x)
    BY <2>1 DEF less
  <2> QED BY <2>1, <2>2
<1> QED BY <1>3 DEF Min

LEMMA MinIn ==
    ASSUME NEW S, S \subseteq Nat, S # {}
    PROVE  Min(S) \in S
BY MinLeast

LEMMA InitType == Init => IdentityTypeOK
<1> SUFFICES ASSUME Init PROVE IdentityTypeOK
  OBVIOUS
<1>1. /\ users \in [Users -> UserRow]
      /\ now \in Nat
  BY DEF Init, UserRow
<1>2. members \in [Users -> [Orgs -> MemberRow]]
  BY IdentityAssumption DEF Init, MemberRow, Roles
<1>3. DOMAIN grants = Users /\ \A u \in Users : DOMAIN grants[u] = Orgs
  BY DEF Init
<1>4. /\ sessions \in [Tokens -> SessionRow \cup {None}]
      /\ logins \in [Tokens -> LoginRow \cup {None}]
      /\ mutations \in [Transactions -> Mutation \cup {None}]
      /\ InFlight = {}
  BY DEF Init, InFlight
<1> QED BY <1>1, <1>2, <1>3, <1>4 DEF IdentityTypeOK

LEMMA HomeType ==
    ASSUME NEW u, Memberships(u) # {}
    PROVE  Home(u) \in Orgs
BY MinIn, IdentityAssumption DEF Memberships, Home

LEMMA SessionEndType ==
    ASSUME IdentityTypeOK, NEW u \in Users
    PROVE  SessionEnd(u) \in Nat
<1>1. CASE users[u].marker = None
  BY <1>1, IdentityAssumption DEF SessionEnd, IdentityTypeOK
<1>2. CASE users[u].marker # None
  <2>1. {users[u].marker, now + RotationLife} \subseteq Nat
    BY <1>2, IdentityAssumption DEF IdentityTypeOK, UserRow
  <2> QED BY <2>1, <1>2, MinIn DEF SessionEnd
<1> QED BY <1>1, <1>2

LEMMA RevokedType ==
    ASSUME IdentityTypeOK, NEW u, NEW O, RevokeSessions(u, O)
    PROVE  sessions' \in [Tokens -> SessionRow \cup {None}]
<1>1. ASSUME NEW k \in Tokens, sessions[k] # None
      PROVE  [sessions[k] EXCEPT !.revoked = TRUE] \in SessionRow
  BY <1>1 DEF IdentityTypeOK, SessionRow
<1> QED BY <1>1 DEF IdentityTypeOK, RevokeSessions

LEMMA TypeStep == IdentityTypeOK /\ [Next]_identityVars => IdentityTypeOK'
<1> SUFFICES ASSUME IdentityTypeOK, [Next]_identityVars PROVE IdentityTypeOK'
  OBVIOUS
<1> USE DEF IdentityTypeOK, InFlight
<1>1. CASE Tick
  BY <1>1 DEF Tick
<1>2. CASE Rest \/ UNCHANGED identityVars
  BY <1>2 DEF Rest, identityVars
<1>3. ASSUME NEW k \in Tokens, CreateSession(k) PROVE IdentityTypeOK'
  <2>1. logins[k] \in LoginRow
    BY <1>3 DEF CreateSession
  <2>2. sessions' \in [Tokens -> SessionRow \cup {None}]
    BY <1>3, <2>1 DEF CreateSession, AsExpected, LoginRow, SessionRow, MemberRow,
                      UserRow, Roles
  <2> QED BY <1>3, <2>2 DEF CreateSession
<1>4. ASSUME NEW k \in Tokens, RefuseLogin(k) PROVE IdentityTypeOK'
  BY <1>4 DEF RefuseLogin
<1>5. ASSUME NEW k \in Tokens, Logout(k) PROVE IdentityTypeOK'
  <2>1. sessions[k] \in SessionRow
    BY <1>5 DEF Logout, Active
  <2>2. sessions' \in [Tokens -> SessionRow \cup {None}]
    BY <1>5, <2>1 DEF Logout, SessionRow
  <2> QED BY <1>5, <2>2 DEF Logout
<1>6. ASSUME NEW k \in Tokens, RotateBootstrapPassword(k) PROVE IdentityTypeOK'
  <2>1. sessions' \in [Tokens -> SessionRow \cup {None}]
    BY <1>6, RevokedType DEF RotateBootstrapPassword
  <2>2. users' \in [Users -> UserRow]
    <3>1. PICK u \in Users :
              users' = [users EXCEPT ![u].password = @ + 1, ![u].authn = @ + 1,
                                     ![u].marker = None]
      BY <1>6 DEF RotateBootstrapPassword, Active, SessionRow
    <3>2. users' = [users EXCEPT ![u] =
              [disabled |-> users[u].disabled, password |-> users[u].password + 1,
               marker |-> None, authn |-> users[u].authn + 1]]
      BY <3>1 DEF UserRow
    <3> QED BY <3>2 DEF UserRow
  <2> QED BY <1>6, <2>1, <2>2 DEF RotateBootstrapPassword
<1>7. ASSUME NEW u \in Users, RotateUserPassword(u) PROVE IdentityTypeOK'
  <2>1. sessions' \in [Tokens -> SessionRow \cup {None}]
    BY <1>7, RevokedType DEF RotateUserPassword
  <2>2. users' \in [Users -> UserRow]
    BY <1>7 DEF RotateUserPassword, UserRow
  <2> QED BY <1>7, <2>1, <2>2 DEF RotateUserPassword
<1>8. ASSUME NEW u \in Users, RecoverPassword(u) PROVE IdentityTypeOK'
  <2>1. sessions' \in [Tokens -> SessionRow \cup {None}]
    BY <1>8, RevokedType DEF RecoverPassword
  <2>2. users' \in [Users -> UserRow]
    <3>1. now + RecoveryWindow \in Nat
      BY IdentityAssumption
    <3>2. PICK deadline \in Nat :
              users' = [users EXCEPT ![u].password = @ + 1, ![u].authn = @ + 1,
                                     ![u].marker = deadline]
      BY <1>8, <3>1 DEF RecoverPassword
    <3>3. users' = [users EXCEPT ![u] =
              [disabled |-> users[u].disabled, password |-> users[u].password + 1,
               marker |-> deadline, authn |-> users[u].authn + 1]]
      BY <3>2 DEF UserRow
    <3> QED BY <3>3 DEF UserRow
  <2> QED BY <1>8, <2>1, <2>2 DEF RecoverPassword
<1>9. ASSUME NEW u \in Users, NEW k \in Tokens, BeginLogin(u, k)
      PROVE  IdentityTypeOK'
  <2>1. Home(u) \in Orgs /\ SessionEnd(u) \in Nat
    BY <1>9, HomeType, SessionEndType DEF BeginLogin
  <2>2. logins' \in [Tokens -> LoginRow \cup {None}]
    BY <1>9, <2>1 DEF BeginLogin, LoginRow, UserRow
  <2> QED BY <1>9, <2>2 DEF BeginLogin
<1>10. ASSUME NEW t \in Transactions, NEW u \in Users, BeginDisable(t, u)
       PROVE  IdentityTypeOK'
  BY <1>10 DEF BeginDisable, Begin, Mutation, Memberships, Roles, InFlight
<1>11. ASSUME NEW t \in Transactions, NEW u \in Users, NEW o \in Orgs,
              BeginRemove(t, u, o)
       PROVE  IdentityTypeOK'
  BY <1>11 DEF BeginRemove, Begin, Mutation, Roles, InFlight
<1>12. ASSUME NEW t \in Transactions, NEW u \in Users, NEW o \in Orgs,
              NEW role \in OfferedRoles, BeginChangeRole(t, u, o, role)
       PROVE  IdentityTypeOK'
  BY <1>12, IdentityAssumption DEF BeginChangeRole, Begin, Mutation, Roles, InFlight
<1>13. ASSUME NEW t \in Transactions, LockOrg(t) PROVE IdentityTypeOK'
  <2> DEFINE rest == mutations[t].orgs \ mutations[t].held
  <2>1. mutations[t] \in Mutation /\ mutations[t].held \subseteq mutations[t].orgs
    BY <1>13 DEF LockOrg, InFlight
  <2>2. rest \subseteq Nat /\ rest # {}
    BY <1>13, <2>1, IdentityAssumption DEF LockOrg, Mutation
  <2>3. Min(rest) \in rest
    BY <2>2, MinIn
  <2> HIDE DEF rest
  <2>4. mutations' = [mutations EXCEPT ![t].held = @ \cup {Min(rest)}]
    BY <1>13 DEF LockOrg, NextOrg, rest
  <2>5. Min(rest) \in Orgs /\ Min(rest) \in mutations[t].orgs
    BY <2>1, <2>3 DEF rest, Mutation
  <2>6. PICK o \in mutations[t].orgs :
            mutations' = [mutations EXCEPT ![t].held = @ \cup {o}]
    BY <2>4, <2>5
  <2>7. mutations'[t] \in Mutation /\ mutations'[t].held \subseteq mutations'[t].orgs
    BY ZenonT(60), <2>1, <2>6 DEF Mutation
  <2>8. \A v \in Transactions \ {t} : mutations'[v] = mutations[v]
    BY <2>6
  <2>9. /\ mutations' \in [Transactions -> Mutation \cup {None}]
        /\ \A v \in InFlight' : mutations'[v].held \subseteq mutations'[v].orgs
    BY <2>6, <2>7, <2>8
  <2> QED BY <1>13, <2>9 DEF LockOrg
<1>14. ASSUME NEW t \in Transactions, LockRows(t) PROVE IdentityTypeOK'
  <2>1. PICK m \in Mutation : m = mutations[t] /\ m.held \subseteq m.orgs
    BY <1>14 DEF LockRows, InFlight
  <2>2. [m EXCEPT !.step = "check"] \in Mutation
        /\ [m EXCEPT !.step = "check"].held = m.held
        /\ [m EXCEPT !.step = "check"].orgs = m.orgs
    BY DEF Mutation
  <2>3. PICK row \in Mutation \cup {None} :
            /\ mutations' = [mutations EXCEPT ![t] = row]
            /\ row # None => row.held = m.held /\ row.orgs = m.orgs
    BY <1>14, <2>1, <2>2 DEF LockRows
  <2>4. /\ mutations' \in [Transactions -> Mutation \cup {None}]
        /\ \A v \in InFlight' : mutations'[v].held \subseteq mutations'[v].orgs
    BY <2>1, <2>3
  <2> QED BY <1>14, <2>4 DEF LockRows
<1>15. ASSUME NEW t \in Transactions, CheckOwners(t) PROVE IdentityTypeOK'
  BY ZenonT(60), <1>15 DEF CheckOwners, Mutation, InFlight
<1>16. ASSUME NEW t \in Transactions, CommitDisable(t) PROVE IdentityTypeOK'
  <2>1. sessions' \in [Tokens -> SessionRow \cup {None}]
    BY <1>16, RevokedType DEF CommitDisable
  <2>2. users' \in [Users -> UserRow]
    <3>1. PICK u \in Users :
              users' = [users EXCEPT ![u].disabled = TRUE, ![u].authn = @ + 1]
      BY <1>16 DEF CommitDisable, Mutation
    <3>2. users' = [users EXCEPT ![u] =
              [disabled |-> TRUE, password |-> users[u].password,
               marker |-> users[u].marker, authn |-> users[u].authn + 1]]
      BY <3>1 DEF UserRow
    <3> QED BY <3>2 DEF UserRow
  <2> QED BY <1>16, <2>1, <2>2 DEF CommitDisable, InFlight
<1>17. ASSUME NEW t \in Transactions, CommitChangeRole(t) PROVE IdentityTypeOK'
  <2>1. sessions' \in [Tokens -> SessionRow \cup {None}]
    BY <1>17, RevokedType DEF CommitChangeRole
  <2>2. mutations[t] \in Mutation
    BY <1>17 DEF CommitChangeRole
  <2>3. members' \in [Users -> [Orgs -> MemberRow]]
    BY <1>17, <2>2 DEF CommitChangeRole, MemberRow, Mutation
  <2>4. DOMAIN grants' = Users /\ \A u \in Users : DOMAIN grants'[u] = Orgs
    BY <1>17, <2>2 DEF CommitChangeRole, Mutation
  <2> QED BY <1>17, <2>1, <2>3, <2>4 DEF CommitChangeRole, InFlight
<1>18. ASSUME NEW t \in Transactions, CommitRemove(t) PROVE IdentityTypeOK'
  <2>1. sessions' \in [Tokens -> SessionRow \cup {None}]
    BY <1>18, RevokedType DEF CommitRemove
  <2>2. mutations[t] \in Mutation
    BY <1>18 DEF CommitRemove
  <2>3. members' \in [Users -> [Orgs -> MemberRow]]
    BY <1>18, <2>2 DEF CommitRemove, MemberRow, Mutation, Roles
  <2>4. DOMAIN grants' = Users /\ \A u \in Users : DOMAIN grants'[u] = Orgs
    BY <1>18, <2>2 DEF CommitRemove, Mutation
  <2> QED BY <1>18, <2>1, <2>3, <2>4 DEF CommitRemove, InFlight
<1> QED
  BY <1>1, <1>2, <1>3, <1>4, <1>5, <1>6, <1>7, <1>8, <1>9, <1>10, <1>11, <1>12,
     <1>13, <1>14, <1>15, <1>16, <1>17, <1>18 DEF Next

-----------------------------------------------------------------------------
(* Transactions                                                             *)

\* Nobody's membership or status changes.
Neutral ==
    /\ members' = members
    /\ \A u \in Users : users'[u].disabled = users[u].disabled

LEMMA SessionStepsNeutral ==
    ASSUME IdentityTypeOK, NEW k \in Tokens,
           \/ CreateSession(k) \/ RefuseLogin(k) \/ Logout(k)
           \/ RotateBootstrapPassword(k)
    PROVE  Neutral /\ now' = now /\ mutations' = mutations
<1>1. CASE CreateSession(k) \/ RefuseLogin(k) \/ Logout(k)
  BY <1>1 DEF CreateSession, RefuseLogin, Logout, Neutral
<1>2. CASE RotateBootstrapPassword(k)
  <2>1. PICK u \in Users :
            users' = [users EXCEPT ![u].password = @ + 1, ![u].authn = @ + 1,
                                   ![u].marker = None]
    BY <1>2 DEF RotateBootstrapPassword, Active, SessionRow, IdentityTypeOK
  <2> QED BY <1>2, <2>1 DEF RotateBootstrapPassword, Neutral, IdentityTypeOK, UserRow
<1> QED BY <1>1, <1>2

LEMMA UserStepsNeutral ==
    ASSUME IdentityTypeOK, NEW u \in Users,
           \/ RotateUserPassword(u) \/ RecoverPassword(u)
           \/ \E k \in Tokens : BeginLogin(u, k)
    PROVE  Neutral /\ now' = now /\ mutations' = mutations
<1>1. CASE RotateUserPassword(u)
  BY <1>1 DEF RotateUserPassword, Neutral, IdentityTypeOK, UserRow
<1>2. CASE RecoverPassword(u)
  BY <1>2 DEF RecoverPassword, Neutral, IdentityTypeOK, UserRow
<1>3. CASE \E k \in Tokens : BeginLogin(u, k)
  BY <1>3 DEF BeginLogin, Neutral
<1> QED BY <1>1, <1>2, <1>3

LEMMA NeutralKeeps ==
    ASSUME IdentityTypeOK, Neutral, now' \in Nat, now <= now',
           NEW m \in Mutation, Sound(m), Counted(m)
    PROVE  Sound(m)' /\ Counted(m)'
<1>1. m.user \in Users /\ m.orgs \subseteq Orgs /\ m.at \in Nat
  BY DEF Mutation
<1>2. Sound(m)'
  BY <1>1 DEF Neutral, Sound, Memberships, IdentityTypeOK
<1>3. Counted(m)'
  BY <1>1 DEF Neutral, Counted, ActiveOwner, HasOtherActiveOwner
<1> QED BY <1>2, <1>3

\* A commit concerns the organizations it has locked, and adds no membership.
Outside(w) ==
    /\ now' = now
    /\ \A x \in Users : Memberships(x)' \subseteq Memberships(x)
    /\ \A x \in Users, o \in Orgs \ w.orgs :
          /\ members'[x][o] = members[x][o]
          /\ ActiveOwner(x, o)' <=> ActiveOwner(x, o)

LEMMA CommitOutside ==
    ASSUME IdentityTypeOK, NEW t \in Transactions, mutations[t] # None,
           Sound(mutations[t]), mutations[t].step = "write",
           CommitDisable(t) \/ CommitChangeRole(t) \/ CommitRemove(t),
           NEW w, w = mutations[t]
    PROVE  Outside(w)
<1>1. w \in Mutation
  BY DEF IdentityTypeOK
<1>2. CASE CommitDisable(t)
  <2>1. /\ members' = members
        /\ \A x \in Users : x # w.user => users'[x] = users[x]
    BY <1>2 DEF CommitDisable, IdentityTypeOK
  <2>2. \A o \in Orgs \ w.orgs : members[w.user][o].role # "OWNER"
    BY <1>1, <1>2, IdentityAssumption
       DEF CommitDisable, Sound, Memberships, Policy!AllRoles
  <2> QED BY <1>1, <1>2, <2>1, <2>2
          DEF Outside, CommitDisable, ActiveOwner, Memberships
<1>3. CASE CommitChangeRole(t)
  <2>1. PICK o \in w.orgs :
            members' = [members EXCEPT ![w.user][o] =
                            [role |-> w.role, authz |-> @.authz + 1]]
    BY <1>3 DEF CommitChangeRole
  <2>2. members[w.user][o].role # None
    BY <1>3, <2>1 DEF CommitChangeRole, Sound
  <2>3. \A x \in Users, p \in Orgs : ~(x = w.user /\ p = o) =>
            members'[x][p] = members[x][p]
    BY <1>1, <2>1 DEF IdentityTypeOK, Mutation
  <2>4. users' = users /\ now' = now
    BY <1>3 DEF CommitChangeRole
  <2> QED BY <1>1, <2>1, <2>2, <2>3, <2>4
          DEF Outside, ActiveOwner, Memberships, Mutation
<1>4. CASE CommitRemove(t)
  <2>1. PICK o \in w.orgs :
            members' = [members EXCEPT ![w.user][o] =
                            [role |-> None, authz |-> @.authz + 1]]
    BY <1>4 DEF CommitRemove
  <2>2. members'[w.user][o].role = None
    BY <1>1, <2>1 DEF IdentityTypeOK, Mutation
  <2>3. \A x \in Users, p \in Orgs : ~(x = w.user /\ p = o) =>
            members'[x][p] = members[x][p]
    BY <1>1, <2>1 DEF IdentityTypeOK, Mutation
  <2>4. users' = users /\ now' = now
    BY <1>4 DEF CommitRemove
  <2> QED BY <1>1, <2>1, <2>2, <2>3, <2>4
          DEF Outside, ActiveOwner, Memberships, Mutation
<1> QED BY <1>2, <1>3, <1>4

\* The other transactions hold other organizations, so that a commit leaves
\* what they counted as it was.
LEMMA CommitKeeps ==
    ASSUME IdentityTypeOK, NEW w \in Mutation, NEW m \in Mutation,
           Sound(w), w.step = "write", Outside(w),
           m.held \cap w.held = {}, Sound(m), Counted(m)
    PROVE  Sound(m)' /\ Counted(m)'
<1>1. m.user \in Users /\ m.orgs \subseteq Orgs
  BY DEF Mutation
<1>2. m.step # "orgs" => m.orgs \cap w.orgs = {}
  BY DEF Sound
<1>3. Sound(m)'
  BY <1>1, <1>2 DEF Sound, Outside
<1>4. Counted(m)'
  <2> SUFFICES ASSUME m.step = "write", m.role # "OWNER", NEW o \in m.orgs,
                      ActiveOwner(m.user, o)'
               PROVE  HasOtherActiveOwner(m.user, o)'
    BY DEF Counted
  <2>1. o \in Orgs \ w.orgs
    BY <1>1, <1>2
  <2>2. HasOtherActiveOwner(m.user, o)
    BY <1>1, <2>1 DEF Outside, Counted
  <2> QED BY <2>1, <2>2 DEF Outside, HasOtherActiveOwner
<1> QED BY <1>3, <1>4

LEMMA InitTransactions == Init => TransactionsOK
BY DEF Init, TransactionsOK, Disjoint, InFlight

\* Steps that leave the transactions alone, or begin, or go on with one.
LEMMA OtherKeep ==
    ASSUME IdentityTypeOK, IdentityTypeOK', TransactionsOK, Neutral,
           now <= now', NEW t \in Transactions,
           \A v \in Transactions \ {t} : mutations'[v] = mutations[v],
           mutations'[t] # None =>
              /\ Sound(mutations[t])' /\ Counted(mutations[t])'
              /\ \A v \in InFlight \ {t} :
                    mutations'[t].held \cap mutations[v].held = {}
    PROVE  TransactionsOK'
<1>1. Disjoint'
  BY DEF TransactionsOK, Disjoint, InFlight
<1>2. ASSUME NEW v \in Transactions, mutations'[v] # None
      PROVE  Sound(mutations[v])' /\ Counted(mutations[v])'
  <2>1. CASE v = t
    BY <1>2, <2>1
  <2>2. CASE v # t
    <3>1. PICK m \in Mutation : m = mutations[v] /\ m = mutations'[v]
      BY <1>2, <2>2 DEF IdentityTypeOK
    <3>2. Sound(m) /\ Counted(m)
      BY <1>2, <3>1 DEF TransactionsOK, InFlight
    <3>3. Sound(m)' /\ Counted(m)'
      BY <3>2, NeutralKeeps DEF IdentityTypeOK
    <3> QED BY <3>1, <3>3 DEF Sound, Counted
  <2> QED BY <2>1, <2>2
<1> QED BY <1>1, <1>2 DEF TransactionsOK, InFlight

LEMMA StillKeeps ==
    ASSUME IdentityTypeOK, IdentityTypeOK', TransactionsOK, Neutral,
           now <= now', mutations' = mutations
    PROVE  TransactionsOK'
<1>1. Disjoint'
  BY DEF TransactionsOK, Disjoint, InFlight
<1>2. ASSUME NEW v \in Transactions, mutations'[v] # None
      PROVE  Sound(mutations[v])' /\ Counted(mutations[v])'
  <2>1. PICK m \in Mutation : m = mutations[v] /\ m = mutations'[v]
    BY <1>2 DEF IdentityTypeOK
  <2>2. Sound(m) /\ Counted(m)
    BY <1>2, <2>1 DEF TransactionsOK, InFlight
  <2>3. Sound(m)' /\ Counted(m)'
    BY <2>2, NeutralKeeps DEF IdentityTypeOK
  <2> QED BY <2>1, <2>3 DEF Sound, Counted
<1> QED BY <1>1, <1>2 DEF TransactionsOK, InFlight

LEMMA TransactionsStep ==
    IdentityTypeOK /\ TransactionsOK /\ [Next]_identityVars => TransactionsOK'
<1> SUFFICES ASSUME IdentityTypeOK, TransactionsOK, [Next]_identityVars
             PROVE  TransactionsOK'
  OBVIOUS
<1>0. IdentityTypeOK'
  BY TypeStep
<1>1. CASE Tick \/ Rest \/ UNCHANGED identityVars
  <2>1. Neutral /\ now <= now' /\ mutations' = mutations
    BY <1>1 DEF Tick, Rest, identityVars, Neutral, IdentityTypeOK
  <2> QED BY <1>0, <2>1, StillKeeps
<1>2. ASSUME NEW k \in Tokens,
             CreateSession(k) \/ RefuseLogin(k) \/ Logout(k)
                \/ RotateBootstrapPassword(k)
      PROVE  TransactionsOK'
  <2>1. Neutral /\ now <= now' /\ mutations' = mutations
    BY <1>2, SessionStepsNeutral DEF IdentityTypeOK
  <2> QED BY <1>0, <2>1, StillKeeps
<1>3. ASSUME NEW u \in Users,
             \/ RotateUserPassword(u) \/ RecoverPassword(u)
             \/ \E k \in Tokens : BeginLogin(u, k)
      PROVE  TransactionsOK'
  <2>1. Neutral /\ now <= now' /\ mutations' = mutations
    BY <1>3, UserStepsNeutral DEF IdentityTypeOK
  <2> QED BY <1>0, <2>1, StillKeeps
<1>4. ASSUME NEW t \in Transactions, NEW u \in Users, NEW kind, NEW O, NEW role,
             Begin(t, kind, u, O, role),
             \/ kind = "disable" /\ O = Memberships(u) /\ role = None
             \/ kind = "remove" /\ role = None /\ \E o \in Orgs : O = {o}
             \/ kind = "role" /\ role \in OfferedRoles /\ \E o \in Orgs : O = {o}
      PROVE  TransactionsOK'
  <2>1. Neutral /\ now <= now' /\ now' = now
    BY <1>4 DEF Begin, Neutral, IdentityTypeOK
  <2>2. mutations' = [mutations EXCEPT ![t] =
            [kind |-> kind, user |-> u, role |-> role, orgs |-> O,
             held |-> {}, at |-> now, step |-> "orgs"]]
    BY <1>4 DEF Begin
  <2>3. /\ \A v \in Transactions \ {t} : mutations'[v] = mutations[v]
        /\ mutations'[t] = [kind |-> kind, user |-> u, role |-> role, orgs |-> O,
                            held |-> {}, at |-> now, step |-> "orgs"]
    BY <2>2 DEF IdentityTypeOK
  <2>4. Memberships(u)' = Memberships(u)
    BY <2>1 DEF Memberships, Neutral
  <2>5. Sound(mutations[t])' /\ Counted(mutations[t])'
    BY <1>4, <2>1, <2>3, <2>4, IdentityAssumption
       DEF Sound, Counted, IdentityTypeOK
  <2> QED BY <1>0, <2>1, <2>3, <2>5, OtherKeep
<1>5. ASSUME NEW t \in Transactions, LockOrg(t) PROVE TransactionsOK'
  <2>1. Neutral /\ now <= now' /\ now' = now
    BY <1>5 DEF LockOrg, Neutral, IdentityTypeOK
  <2>2. PICK m \in Mutation : m = mutations[t] /\ Sound(m) /\ t \in InFlight
    BY <1>5 DEF LockOrg, IdentityTypeOK, TransactionsOK, InFlight
  <2>3. PICK o : /\ OrgFree(o, t)
                 /\ mutations' = [mutations EXCEPT ![t].held = @ \cup {o}]
    BY <1>5 DEF LockOrg
  <2>4. /\ \A v \in Transactions \ {t} : mutations'[v] = mutations[v]
        /\ mutations'[t] = [m EXCEPT !.held = @ \cup {o}]
        /\ m.step = "orgs"
    BY <1>5, <2>2, <2>3 DEF IdentityTypeOK, LockOrg
  <2>5. \A v \in InFlight \ {t} : mutations'[t].held \cap mutations[v].held = {}
    BY <2>2, <2>3, <2>4 DEF OrgFree, TransactionsOK, Disjoint, Mutation
  <2>6. Memberships(m.user)' = Memberships(m.user)
    BY <2>1 DEF Memberships, Neutral
  <2>7. Sound(mutations[t])' /\ Counted(mutations[t])'
    BY <2>1, <2>2, <2>4, <2>6 DEF Sound, Counted, Mutation
  <2> QED BY <1>0, <2>1, <2>4, <2>5, <2>7, OtherKeep
<1>6. ASSUME NEW t \in Transactions, LockRows(t) PROVE TransactionsOK'
  <2>1. Neutral /\ now <= now' /\ now' = now
    BY <1>6 DEF LockRows, Neutral, IdentityTypeOK
  <2>2. PICK m \in Mutation : m = mutations[t] /\ Sound(m) /\ t \in InFlight
    BY <1>6 DEF LockRows, IdentityTypeOK, TransactionsOK, InFlight
  <2>3. /\ \A v \in Transactions \ {t} : mutations'[v] = mutations[v]
        /\ m.orgs = m.held
        /\ mutations'[t] # None =>
              /\ m.orgs \cap Memberships(m.user) # {}
              /\ mutations'[t] = [m EXCEPT !.step = "check"]
    BY <1>6, <2>2 DEF IdentityTypeOK, LockRows
  <2>4. mutations'[t] # None =>
          \A v \in InFlight \ {t} : mutations'[t].held \cap mutations[v].held = {}
    BY <2>2, <2>3 DEF TransactionsOK, Disjoint, Mutation
  <2>5. /\ Memberships(m.user)' = Memberships(m.user)
        /\ members' = members
    BY <2>1 DEF Memberships, Neutral
  <2>6. mutations'[t] # None => Sound(mutations[t])' /\ Counted(mutations[t])'
    BY <2>1, <2>2, <2>3, <2>5 DEF Sound, Counted, Mutation, Memberships
  <2> QED BY <1>0, <2>1, <2>3, <2>4, <2>6, OtherKeep
<1>7. ASSUME NEW t \in Transactions, CheckOwners(t) PROVE TransactionsOK'
  <2>1. Neutral /\ now <= now' /\ now' = now
    BY <1>7 DEF CheckOwners, Neutral, IdentityTypeOK
  <2>2. PICK m \in Mutation : m = mutations[t] /\ Sound(m) /\ t \in InFlight
    BY <1>7 DEF CheckOwners, IdentityTypeOK, TransactionsOK, InFlight
  <2>3. /\ \A v \in Transactions \ {t} : mutations'[v] = mutations[v]
        /\ m.step = "check"
        /\ mutations'[t] # None =>
              /\ mutations'[t] = [m EXCEPT !.step = "write"]
              /\ m.role # "OWNER" => \A o \in m.orgs :
                    ActiveOwner(m.user, o) => HasOtherActiveOwner(m.user, o)
    BY <1>7, <2>2 DEF IdentityTypeOK, CheckOwners
  <2>4. mutations'[t] # None =>
          \A v \in InFlight \ {t} : mutations'[t].held \cap mutations[v].held = {}
    BY <2>2, <2>3 DEF TransactionsOK, Disjoint, Mutation
  <2>5. /\ Memberships(m.user)' = Memberships(m.user)
        /\ members' = members
        /\ \A x \in Users, o \in Orgs : ActiveOwner(x, o)' <=> ActiveOwner(x, o)
    BY <2>1 DEF Memberships, Neutral, ActiveOwner
  <2>6. mutations'[t] # None => Sound(mutations[t])'
    BY <2>1, <2>2, <2>3, <2>5 DEF Sound, Mutation
  <2>7. mutations'[t] # None => Counted(mutations[t])'
    <3> SUFFICES ASSUME mutations'[t] # None, m.role # "OWNER", NEW o \in m.orgs,
                        ActiveOwner(m.user, o)'
                 PROVE  HasOtherActiveOwner(m.user, o)'
      BY <2>3 DEF Counted, Mutation
    <3>1. m.user \in Users /\ o \in Orgs
      BY DEF Mutation
    <3>2. HasOtherActiveOwner(m.user, o)
      BY <2>3, <2>5, <3>1
    <3> QED BY <2>5, <3>1, <3>2 DEF HasOtherActiveOwner
  <2> QED BY <1>0, <2>1, <2>3, <2>4, <2>6, <2>7, OtherKeep
<1>8. ASSUME NEW t \in Transactions,
             CommitDisable(t) \/ CommitChangeRole(t) \/ CommitRemove(t)
      PROVE  TransactionsOK'
  <2>1. /\ mutations[t] # None /\ mutations[t].step = "write"
        /\ mutations' = [mutations EXCEPT ![t] = None]
    BY <1>8 DEF CommitDisable, CommitChangeRole, CommitRemove
  <2>2. PICK w \in Mutation : w = mutations[t] /\ Sound(w) /\ t \in InFlight
    BY <2>1 DEF IdentityTypeOK, TransactionsOK, InFlight
  <2>3. Outside(w)
    BY <1>8, <2>1, <2>2, CommitOutside
  <2>4. /\ mutations'[t] = None
        /\ \A v \in Transactions \ {t} : mutations'[v] = mutations[v]
    BY <2>1 DEF IdentityTypeOK
  <2>5. Disjoint'
    BY <2>4 DEF TransactionsOK, Disjoint, InFlight
  <2>6. ASSUME NEW v \in Transactions, mutations'[v] # None
        PROVE  Sound(mutations[v])' /\ Counted(mutations[v])'
    <3>1. v # t /\ v \in InFlight
      BY <2>4, <2>6 DEF InFlight
    <3>2. PICK m \in Mutation : m = mutations[v] /\ m = mutations'[v]
      BY <2>4, <2>6, <3>1 DEF IdentityTypeOK
    <3>3. Sound(m) /\ Counted(m) /\ m.held \cap w.held = {}
      BY <2>2, <3>1, <3>2 DEF TransactionsOK, Disjoint
    <3>4. Sound(m)' /\ Counted(m)'
      BY <2>1, <2>2, <2>3, <3>3, CommitKeeps
    <3> QED BY <3>2, <3>4 DEF Sound, Counted
  <2> QED BY <2>5, <2>6 DEF TransactionsOK, InFlight
<1>9. CASE Next
  BY <1>1, <1>2, <1>3, <1>4, <1>5, <1>6, <1>7, <1>8, <1>9
     DEF Next, BeginDisable, BeginChangeRole, BeginRemove
<1> QED BY <1>1, <1>9

-----------------------------------------------------------------------------
(* Owners                                                                   *)

LEMMA OwnerStep ==
    IdentityTypeOK /\ TransactionsOK /\ OwnerRemains /\ [Next]_identityVars
        => OwnerRemains'
<1> SUFFICES ASSUME IdentityTypeOK, TransactionsOK, OwnerRemains,
                    [Next]_identityVars, NEW o \in Orgs
             PROVE  (\E u \in Users : ActiveOwner(u, o))'
  BY DEF OwnerRemains
<1>1. PICK u \in Users : ActiveOwner(u, o)
  BY DEF OwnerRemains
<1>2. CASE Neutral
  BY <1>1, <1>2 DEF Neutral, ActiveOwner
<1>3. ASSUME NEW t \in Transactions,
             CommitDisable(t) \/ CommitChangeRole(t) \/ CommitRemove(t)
      PROVE  (\E v \in Users : ActiveOwner(v, o))'
  <2>1. mutations[t] # None /\ mutations[t].step = "write"
    BY <1>3 DEF CommitDisable, CommitChangeRole, CommitRemove
  <2>2. PICK w \in Mutation : w = mutations[t] /\ Sound(w) /\ Counted(w)
    BY <2>1 DEF IdentityTypeOK, TransactionsOK, InFlight
  <2>3. Outside(w)
    BY <1>3, <2>1, <2>2, CommitOutside
  <2>4. CASE o \notin w.orgs
    BY <1>1, <2>3, <2>4 DEF Outside
  <2>5. \A x \in Users : x # w.user /\ ActiveOwner(x, o) => ActiveOwner(x, o)'
    <3>1. w.user \in Users
      BY DEF Mutation
    <3>2. CASE CommitDisable(t)
      BY <2>2, <3>1, <3>2 DEF CommitDisable, ActiveOwner, IdentityTypeOK
    <3>3. CASE CommitChangeRole(t) \/ CommitRemove(t)
      <4>1. PICK p \in w.orgs : \E row :
                members' = [members EXCEPT ![w.user][p] = row]
        BY ZenonT(60), <2>2, <3>3 DEF CommitChangeRole, CommitRemove
      <4>2. users' = users
        BY <3>3 DEF CommitChangeRole, CommitRemove
      <4> QED BY <3>1, <4>1, <4>2 DEF ActiveOwner, IdentityTypeOK
    <3> QED BY <1>3, <3>2, <3>3
  <2>6. CASE o \in w.orgs /\ w.role # "OWNER"
    <3>1. CASE u = w.user
      <4>1. PICK x \in Users \ {w.user} : ActiveOwner(x, o)
        BY <1>1, <2>1, <2>2, <2>6, <3>1 DEF Counted, HasOtherActiveOwner
      <4> QED BY <2>5, <4>1
    <3>2. CASE u # w.user
      BY <1>1, <2>5, <3>2
    <3> QED BY <3>1, <3>2
  <2>7. CASE o \in w.orgs /\ w.role = "OWNER"
    <3>1. w.kind = "role" /\ CommitChangeRole(t)
      BY <1>3, <2>2, <2>7, IdentityAssumption
         DEF Sound, CommitDisable, CommitRemove, Policy!AllRoles
    <3>2. PICK p \in w.orgs :
              members' = [members EXCEPT ![w.user][p] =
                              [role |-> w.role, authz |-> @.authz + 1]]
      BY <2>2, <3>1 DEF CommitChangeRole
    <3>3. p = o /\ users' = users /\ w.user \in Users
      BY <2>2, <2>7, <3>1 DEF Sound, CommitChangeRole, Mutation
    <3>4. members'[w.user][o].role = "OWNER"
      BY <2>7, <3>2, <3>3 DEF IdentityTypeOK
    <3> QED BY <1>1, <2>5, <3>3, <3>4 DEF ActiveOwner
  <2> QED BY <2>4, <2>6, <2>7
<1>4. Neutral \/ \E t \in Transactions :
          CommitDisable(t) \/ CommitChangeRole(t) \/ CommitRemove(t)
  <2>1. CASE UNCHANGED identityVars
    BY <2>1 DEF identityVars, Neutral
  <2>2. CASE Tick \/ Rest
    BY <2>2 DEF Tick, Rest, identityVars, Neutral
  <2>3. ASSUME NEW t \in Transactions, LockOrg(t) \/ LockRows(t) \/ CheckOwners(t)
        PROVE  Neutral
    BY <2>3 DEF LockOrg, LockRows, CheckOwners, Neutral
  <2>4. ASSUME NEW t \in Transactions, NEW x, NEW kind, NEW O, NEW role,
               Begin(t, kind, x, O, role)
        PROVE  Neutral
    BY <2>4 DEF Begin, Neutral
  <2>5. CASE Next
    BY <2>2, <2>3, <2>4, <2>5, SessionStepsNeutral, UserStepsNeutral
       DEF Next, BeginDisable, BeginRemove, BeginChangeRole
  <2> QED BY <2>1, <2>5
<1> QED BY <1>2, <1>3, <1>4

LEMMA InitOwner == Init => OwnerRemains
BY IdentityAssumption DEF Init, OwnerRemains, ActiveOwner

\* Every organization keeps an owner who can sign in, for any number of users,
\* organizations and concurrent transactions.  The transactions hold disjoint
\* organizations, and what one has counted under its locks stands until it
\* writes (TransactionsOK).
THEOREM OwnerAlwaysRemains == Spec => []OwnerRemains
<1>1. Init => IdentityTypeOK /\ TransactionsOK /\ OwnerRemains
  BY InitType, InitTransactions, InitOwner
<1>2. IdentityTypeOK /\ TransactionsOK /\ OwnerRemains /\ [Next]_identityVars
         => (IdentityTypeOK /\ TransactionsOK /\ OwnerRemains)'
  BY TypeStep, TransactionsStep, OwnerStep
<1> QED BY <1>1, <1>2, PTL DEF Spec

-----------------------------------------------------------------------------
(* Waiting                                                                  *)

\* A number with as few greater ones as possible has none.
LEMMA GreatestIn ==
    ASSUME NEW S, IsFiniteSet(S), S \subseteq Nat, S # {}
    PROVE  \E x \in S : \A y \in S : y <= x
<1> DEFINE above(x) == {y \in S : y > x}
           family == {above(x) : x \in S}
<1>1. IsWellFoundedOn(StrictSubsetOrdering(S), FiniteSubsetsOf(S))
  BY FS_StrictSubsetOrderingWellFounded
<1>2. family \subseteq FiniteSubsetsOf(S) /\ family # {}
  <2>1. FiniteSubsetsOf(S) = SUBSET S
    BY FS_FiniteSubsetsOfFinite
  <2>2. family \subseteq SUBSET S
    <3> SUFFICES ASSUME NEW x \in S PROVE above(x) \subseteq S
      OBVIOUS
    <3> QED OBVIOUS
  <2>3. family # {}
    OBVIOUS
  <2> HIDE DEF family
  <2> QED BY <2>1, <2>2, <2>3
<1> HIDE DEF family
<1>3. PICK least \in family :
          \A U \in family : <<U, least>> \notin StrictSubsetOrdering(S)
  BY <1>1, <1>2, WFMin
<1>4. PICK x \in S : least = above(x)
  BY <1>3 DEF family
<1>5. ASSUME NEW y \in S PROVE y <= x
  <2> SUFFICES ASSUME y > x PROVE FALSE
    BY DEF above
  <2>1. above(y) \subseteq above(x)
    <3> SUFFICES ASSUME NEW z \in S, z > y PROVE z > x
      OBVIOUS
    <3>1. x \in Nat /\ y \in Nat /\ z \in Nat
      OBVIOUS
    <3> QED BY <3>1
  <2>2. y \in above(x) /\ y \notin above(y)
    OBVIOUS
  <2>3. above(y) \in family
    BY DEF family
  <2> HIDE DEF above
  <2>4. above(x) \subseteq S /\ above(y) \subseteq S
    BY DEF above
  <2>5. <<above(y), above(x)>> \in StrictSubsetOrdering(S)
    BY <2>1, <2>2, <2>4 DEF StrictSubsetOrdering
  <2> QED BY <1>3, <1>4, <2>3, <2>5
<1> QED BY <1>5

LEMMA InitHeld == Init => HeldFirst
BY DEF Init, HeldFirst, InFlight

\* A step of one transaction, or of none.
LEMMA OneKeeps ==
    ASSUME HeldFirst, NEW t \in Transactions,
           \A v \in Transactions \ {t} : mutations'[v] = mutations[v],
           mutations'[t] # None =>
              \A p \in mutations'[t].held,
                 o \in mutations'[t].orgs \ mutations'[t].held : p < o
    PROVE  HeldFirst'
<1> SUFFICES ASSUME NEW v \in Transactions, mutations'[v] # None
             PROVE  \A p \in mutations'[v].held,
                       o \in mutations'[v].orgs \ mutations'[v].held : p < o
  BY DEF HeldFirst, InFlight
<1>1. CASE v = t
  BY <1>1
<1>2. CASE v # t
  BY <1>2 DEF HeldFirst, InFlight
<1> QED BY <1>1, <1>2

LEMMA HeldStep ==
    IdentityTypeOK /\ HeldFirst /\ [Next]_identityVars => HeldFirst'
<1> SUFFICES ASSUME IdentityTypeOK, HeldFirst, [Next]_identityVars
             PROVE  HeldFirst'
  OBVIOUS
<1>0. mutations' = mutations => HeldFirst'
  BY DEF HeldFirst, InFlight
<1>1. CASE Tick \/ Rest \/ UNCHANGED identityVars
  BY <1>0, <1>1 DEF Tick, Rest, identityVars
<1>2. ASSUME NEW k \in Tokens,
             CreateSession(k) \/ RefuseLogin(k) \/ Logout(k)
                \/ RotateBootstrapPassword(k)
      PROVE  HeldFirst'
  BY <1>0, <1>2, SessionStepsNeutral
<1>3. ASSUME NEW u \in Users,
             \/ RotateUserPassword(u) \/ RecoverPassword(u)
             \/ \E k \in Tokens : BeginLogin(u, k)
      PROVE  HeldFirst'
  BY <1>0, <1>3, UserStepsNeutral
<1>4. ASSUME NEW t \in Transactions, NEW u, NEW kind, NEW O, NEW role,
             Begin(t, kind, u, O, role)
      PROVE  HeldFirst'
  <2>1. mutations' = [mutations EXCEPT ![t] =
            [kind |-> kind, user |-> u, role |-> role, orgs |-> O,
             held |-> {}, at |-> now, step |-> "orgs"]]
    BY <1>4 DEF Begin
  <2>2. mutations'[t].held = {}
    BY <2>1 DEF IdentityTypeOK
  <2>3. \A v \in Transactions \ {t} : mutations'[v] = mutations[v]
    BY <2>1 DEF IdentityTypeOK
  <2> QED BY <2>2, <2>3, OneKeeps
<1>5. ASSUME NEW t \in Transactions, LockOrg(t) PROVE HeldFirst'
  <2>1. PICK m \in Mutation : m = mutations[t] /\ m.held \subseteq m.orgs
                              /\ t \in InFlight /\ m.orgs # m.held
    BY <1>5 DEF LockOrg, IdentityTypeOK, InFlight
  <2>2. m.orgs \subseteq Nat /\ m.orgs \ m.held # {}
    <3>1. m.orgs \subseteq Orgs /\ Orgs \subseteq Nat
      BY IdentityAssumption DEF Mutation
    <3>2. \E o \in m.orgs : o \notin m.held
      BY <2>1
    <3> QED BY <3>1, <3>2
  <2>3. PICK next : next = NextOrg(m)
    OBVIOUS
  <2>4. /\ next \in m.orgs \ m.held
        /\ \A o \in m.orgs \ m.held : next <= o
    BY <2>2, <2>3, MinLeast DEF NextOrg
  <2>5. mutations' = [mutations EXCEPT ![t].held = @ \cup {next}]
    BY <1>5, <2>1, <2>3 DEF LockOrg
  <2>6. /\ mutations'[t].orgs = m.orgs
        /\ mutations'[t].held = m.held \cup {next}
    BY <2>1, <2>5 DEF IdentityTypeOK, Mutation
  <2>7. \A v \in Transactions \ {t} : mutations'[v] = mutations[v]
    BY <2>5 DEF IdentityTypeOK
  <2>8. ASSUME NEW p \in m.held \cup {next}, NEW o \in m.orgs \ (m.held \cup {next})
        PROVE  p < o
    <3>1. CASE p \in m.held
      BY <2>1, <3>1 DEF HeldFirst
    <3>2. CASE p = next
      <4>1. next <= o /\ next # o /\ next \in Nat /\ o \in Nat
        BY <2>2, <2>4
      <4> QED BY <3>2, <4>1
    <3> QED BY <3>1, <3>2
  <2> QED BY <2>6, <2>7, <2>8, OneKeeps
<1>6. ASSUME NEW t \in Transactions, LockRows(t) \/ CheckOwners(t)
      PROVE  HeldFirst'
  <2>1. PICK m \in Mutation : m = mutations[t] /\ t \in InFlight
    BY <1>6 DEF LockRows, CheckOwners, IdentityTypeOK, InFlight
  <2>2. PICK row : /\ mutations' = [mutations EXCEPT ![t] = row]
                   /\ row # None => row.held = m.held /\ row.orgs = m.orgs
    <3>1. \A step : /\ [m EXCEPT !.step = step].held = m.held
                    /\ [m EXCEPT !.step = step].orgs = m.orgs
      BY DEF Mutation
    <3>2. CASE LockRows(t)
      BY <2>1, <3>1, <3>2 DEF LockRows
    <3>3. CASE CheckOwners(t)
      BY <2>1, <3>1, <3>3 DEF CheckOwners
    <3> QED BY <1>6, <3>2, <3>3
  <2>3. /\ mutations'[t] = row
        /\ \A v \in Transactions \ {t} : mutations'[v] = mutations[v]
    BY <2>2 DEF IdentityTypeOK
  <2>4. \A p \in m.held, o \in m.orgs \ m.held : p < o
    BY <2>1 DEF HeldFirst
  <2> QED BY <2>2, <2>3, <2>4, OneKeeps
<1>7. ASSUME NEW t \in Transactions,
             CommitDisable(t) \/ CommitChangeRole(t) \/ CommitRemove(t)
      PROVE  HeldFirst'
  <2>1. mutations' = [mutations EXCEPT ![t] = None]
    BY <1>7 DEF CommitDisable, CommitChangeRole, CommitRemove
  <2>2. /\ mutations'[t] = None
        /\ \A v \in Transactions \ {t} : mutations'[v] = mutations[v]
    BY <2>1 DEF IdentityTypeOK
  <2> QED BY <2>2, OneKeeps
<1> QED
  BY <1>1, <1>2, <1>3, <1>4, <1>5, <1>6, <1>7
     DEF Next, BeginDisable, BeginChangeRole, BeginRemove

\* If all wait, each waits for an organization that another holds, and none
\* holds the greatest of these.
LEMMA HeldFirstGoesOn == IdentityTypeOK /\ HeldFirst => SomeTransactionGoesOn
<1> SUFFICES ASSUME IdentityTypeOK, HeldFirst, InFlight # {},
                    \A t \in InFlight : ~CanGoOn(t)
             PROVE  FALSE
  BY DEF SomeTransactionGoesOn
<1>1. \A t \in InFlight : mutations[t].step = "orgs"
  BY DEF CanGoOn
<1>2. \A u : RowsFree(u)
  BY <1>1 DEF RowsFree
<1>3. \A t \in InFlight : /\ mutations[t].orgs # mutations[t].held
                          /\ ~OrgFree(NextOrg(mutations[t]), t)
  BY <1>1, <1>2 DEF CanGoOn
<1> DEFINE waits(t) == NextOrg(mutations[t])
           Awaited == {waits(t) : t \in InFlight}
<1>4. ASSUME NEW t \in InFlight
      PROVE  waits(t) \in mutations[t].orgs \ mutations[t].held /\ waits(t) \in Orgs
  <2>1. /\ mutations[t].orgs \subseteq Orgs
        /\ mutations[t].held \subseteq mutations[t].orgs
    BY DEF IdentityTypeOK, InFlight, Mutation
  <2>2. /\ mutations[t].orgs \ mutations[t].held \subseteq Nat
        /\ mutations[t].orgs \ mutations[t].held # {}
    <3>1. Orgs \subseteq Nat /\ mutations[t].orgs # mutations[t].held
      BY <1>3, IdentityAssumption
    <3>2. \E o \in mutations[t].orgs : o \notin mutations[t].held
      BY <2>1, <3>1
    <3> QED BY <2>1, <3>1, <3>2
  <2> QED BY <2>1, <2>2, MinIn DEF NextOrg
<1> HIDE DEF waits
<1>5. Awaited \in SUBSET Orgs /\ Awaited # {}
  BY <1>4
<1>6. IsFiniteSet(Awaited) /\ Awaited \subseteq Nat
  BY <1>5, FS_Subset, IdentityAssumption
<1>7. PICK o \in Awaited : \A p \in Awaited : p <= o
  BY <1>5, <1>6, GreatestIn
<1>8. PICK t \in InFlight : o = waits(t)
  OBVIOUS
<1>9. PICK v \in InFlight : o \in mutations[v].held
  BY <1>3, <1>8 DEF OrgFree, waits
<1>10. o < waits(v)
  BY <1>4, <1>9 DEF HeldFirst
<1>11. waits(v) <= o /\ o \in Nat /\ waits(v) \in Nat
  BY <1>6, <1>7
<1> QED BY <1>10, <1>11

\* Transactions never all wait for each other, however many there are and
\* whatever they concern: each holds the first of the organizations it asks
\* for (HeldFirst), because it asks for them in their order.
THEOREM SomeTransactionAlwaysGoesOn == Spec => []SomeTransactionGoesOn
<1>1. Init => IdentityTypeOK /\ HeldFirst
  BY InitType, InitHeld
<1>2. IdentityTypeOK /\ HeldFirst /\ [Next]_identityVars
         => (IdentityTypeOK /\ HeldFirst)'
  BY TypeStep, HeldStep
<1>3. IdentityTypeOK /\ HeldFirst => SomeTransactionGoesOn
  BY HeldFirstGoesOn
<1> QED BY <1>1, <1>2, <1>3, PTL DEF Spec

-----------------------------------------------------------------------------
(* Sessions                                                                 *)

\* Whoever gets another password gets another epoch.
Moved == \A u \in Users : users'[u] = users[u] \/ users'[u].authn > users[u].authn

\* A session that was there before, as far as its user and password go.
Kept(k) ==
    /\ sessions[k] # None
    /\ sessions'[k].user = sessions[k].user
    /\ sessions'[k].authn = sessions[k].authn
    /\ sessions'[k].password = sessions[k].password

LEMMA RevokedKept ==
    ASSUME IdentityTypeOK, NEW u, NEW O, RevokeSessions(u, O),
           NEW k \in Tokens, sessions'[k] # None
    PROVE  Kept(k)
<1>1. sessions[k] # None
  BY DEF RevokeSessions
<1>2. sessions[k] \in SessionRow
  BY <1>1 DEF IdentityTypeOK
<1> QED BY <1>1, <1>2 DEF RevokeSessions, Kept, SessionRow

LEMMA SessionsStep ==
    IdentityTypeOK /\ SessionsKnowPassword /\ [Next]_identityVars
        => SessionsKnowPassword'
<1> SUFFICES ASSUME IdentityTypeOK, SessionsKnowPassword, [Next]_identityVars
             PROVE  SessionsKnowPassword'
  OBVIOUS
<1>1. ASSUME Moved, \A k \in Tokens : sessions'[k] # None => Kept(k)
      PROVE  SessionsKnowPassword'
  <2> SUFFICES ASSUME NEW k \in Tokens, sessions'[k] # None
               PROVE  /\ sessions'[k].authn <= users'[sessions'[k].user].authn
                      /\ sessions'[k].authn = users'[sessions'[k].user].authn =>
                            sessions'[k].password
                                = users'[sessions'[k].user].password
    BY DEF SessionsKnowPassword
  <2>1. PICK u \in Users : u = sessions[k].user /\ Kept(k)
    BY <1>1 DEF IdentityTypeOK, SessionRow, Kept
  <2>2. /\ sessions[k].authn <= users[u].authn
        /\ sessions[k].authn = users[u].authn =>
              sessions[k].password = users[u].password
    BY <2>1 DEF SessionsKnowPassword, Kept
  <2>3. sessions[k].authn \in Nat /\ users[u].authn \in Nat
    BY <2>1 DEF IdentityTypeOK, SessionRow, UserRow, Kept
  <2>4. users'[u].authn \in Nat
    BY TypeStep, <2>1 DEF IdentityTypeOK, UserRow
  <2>5. CASE users'[u] = users[u]
    BY <2>1, <2>2, <2>5 DEF Kept
  <2>6. CASE users'[u].authn > users[u].authn
    BY <2>1, <2>2, <2>3, <2>4, <2>6 DEF Kept
  <2> QED BY <1>1, <2>5, <2>6 DEF Moved
<1>2. ASSUME UNCHANGED <<users, sessions>> PROVE SessionsKnowPassword'
  BY <1>2 DEF SessionsKnowPassword
<1>3. ASSUME NEW k \in Tokens, CreateSession(k) PROVE SessionsKnowPassword'
  <2>1. logins[k] \in LoginRow
    BY <1>3 DEF CreateSession, IdentityTypeOK
  <2>2. users' = users
    BY <1>3 DEF CreateSession
  <2>3. /\ sessions'[k].user = logins[k].user
        /\ sessions'[k].authn = users[logins[k].user].authn
        /\ sessions'[k].password = users[logins[k].user].password
        /\ users[logins[k].user].authn \in Nat
    BY <1>3, <2>1 DEF CreateSession, AsExpected, LoginRow, IdentityTypeOK, UserRow
  <2>4. \A j \in Tokens : j # k => sessions'[j] \in {None, sessions[j]}
    BY <1>3 DEF CreateSession
  <2> QED BY <2>2, <2>3, <2>4 DEF SessionsKnowPassword
<1>4. ASSUME NEW k \in Tokens, Logout(k) PROVE SessionsKnowPassword'
  <2>1. sessions[k] # None /\ sessions[k] \in SessionRow
    BY <1>4 DEF Logout, Active, IdentityTypeOK
  <2>2. \A j \in Tokens : sessions'[j] # None => Kept(j)
    BY <1>4, <2>1 DEF Logout, Kept, IdentityTypeOK, SessionRow
  <2> QED BY <1>1, <1>4, <2>2 DEF Moved, Logout
<1>5. ASSUME NEW k \in Tokens, RotateBootstrapPassword(k)
      PROVE  SessionsKnowPassword'
  <2>1. \A j \in Tokens : sessions'[j] # None => Kept(j)
    BY <1>5, RevokedKept DEF RotateBootstrapPassword
  <2>2. PICK u \in Users :
            users' = [users EXCEPT ![u].password = @ + 1, ![u].authn = @ + 1,
                                   ![u].marker = None]
    BY <1>5 DEF RotateBootstrapPassword, Active, SessionRow, IdentityTypeOK
  <2>3. Moved
    BY <2>2 DEF Moved, IdentityTypeOK, UserRow
  <2> QED BY <1>1, <2>1, <2>3
<1>6. ASSUME NEW u \in Users, RotateUserPassword(u) PROVE SessionsKnowPassword'
  <2>1. \A j \in Tokens : sessions'[j] # None => Kept(j)
    BY <1>6, RevokedKept DEF RotateUserPassword
  <2>2. Moved
    BY <1>6 DEF Moved, RotateUserPassword, IdentityTypeOK, UserRow
  <2> QED BY <1>1, <2>1, <2>2
<1>7. ASSUME NEW u \in Users, RecoverPassword(u) PROVE SessionsKnowPassword'
  <2>1. \A j \in Tokens : sessions'[j] # None => Kept(j)
    BY <1>7, RevokedKept DEF RecoverPassword
  <2>2. Moved
    BY <1>7 DEF Moved, RecoverPassword, IdentityTypeOK, UserRow
  <2> QED BY <1>1, <2>1, <2>2
<1>8. ASSUME NEW t \in Transactions, CommitDisable(t) PROVE SessionsKnowPassword'
  <2>1. \A j \in Tokens : sessions'[j] # None => Kept(j)
    BY <1>8, RevokedKept DEF CommitDisable
  <2>2. PICK u \in Users :
            users' = [users EXCEPT ![u].disabled = TRUE, ![u].authn = @ + 1]
    BY <1>8 DEF CommitDisable, IdentityTypeOK, Mutation
  <2>3. Moved
    BY <2>2 DEF Moved, IdentityTypeOK, UserRow
  <2> QED BY <1>1, <2>1, <2>3
<1>9. ASSUME NEW t \in Transactions, CommitChangeRole(t) \/ CommitRemove(t)
      PROVE  SessionsKnowPassword'
  <2>1. \A j \in Tokens : sessions'[j] # None => Kept(j)
    BY <1>9, RevokedKept DEF CommitChangeRole, CommitRemove
  <2> QED BY <1>1, <1>9, <2>1 DEF Moved, CommitChangeRole, CommitRemove
<1>10. ASSUME \/ Tick \/ Rest \/ UNCHANGED identityVars
              \/ \E k \in Tokens : RefuseLogin(k)
              \/ \E u \in Users, k \in Tokens : BeginLogin(u, k)
              \/ \E t \in Transactions : LockOrg(t) \/ LockRows(t) \/ CheckOwners(t)
       PROVE  UNCHANGED <<users, sessions>>
  BY <1>10 DEF Tick, Rest, identityVars, RefuseLogin, BeginLogin, LockOrg, LockRows,
               CheckOwners
<1>11. ASSUME NEW t \in Transactions, NEW u, NEW kind, NEW O, NEW role,
              Begin(t, kind, u, O, role)
       PROVE  UNCHANGED <<users, sessions>>
  BY <1>11 DEF Begin
<1>12. CASE Next
  BY <1>2, <1>3, <1>4, <1>5, <1>6, <1>7, <1>8, <1>9, <1>10, <1>11, <1>12
     DEF Next, BeginDisable, BeginRemove, BeginChangeRole
<1> QED BY <1>2, <1>10, <1>12

\* Whoever uses a session knew, when signing in, the password and had the role
\* of now, for any number of logins under way while passwords are rotated or
\* recovered and roles change.
THEOREM SessionsAreCurrent == Spec => []NoSessionOutlivesAuthority
<1>1. Init => IdentityTypeOK /\ SessionsKnowPassword
  BY InitType DEF Init, SessionsKnowPassword
<1>2. IdentityTypeOK /\ SessionsKnowPassword /\ [Next]_identityVars
         => (IdentityTypeOK /\ SessionsKnowPassword)'
  BY TypeStep, SessionsStep
<1>3. IdentityTypeOK /\ SessionsKnowPassword => NoSessionOutlivesAuthority
  BY DEF SessionsKnowPassword, NoSessionOutlivesAuthority, Active
<1> QED BY <1>1, <1>2, <1>3, PTL DEF Spec

-----------------------------------------------------------------------------
(* Grants                                                                   *)

\* The grants that the system gives a role are good for that role's
\* capabilities at any later time, and for nothing else.
LEMMA CompatibilityAgrees ==
    ASSUME NEW role, NEW at \in Nat, NEW time \in Nat, at <= time,
           NEW c \in Policy!Capabilities, NEW rows,
           role \in Policy!AllRoles \/ role = None,
           rows = IF role = None THEN {} ELSE CompatibilityRows(role, at),
           NEW screen,
           NEW targets, targets = IF c \in Policy!TargetScoped THEN {screen} ELSE {}
    PROVE  Policy!HasCapability(role, c)
             <=> Policy!MismatchKind(Policy!Evaluate(role, c, rows, targets, time))
                    = "NONE"
<1>1. CASE ~Policy!HasCapability(role, c)
  BY <1>1 DEF Policy!Evaluate, Policy!MismatchKind, Policy!TargetScoped,
              Policy!OrganizationScoped, Policy!Capabilities
<1>2. CASE Policy!HasCapability(role, c)
  <2>1. role # None /\ c \in Policy!CompatibilityGrants[role]
    BY <1>2, IdentityAssumption DEF Policy!HasCapability
  <2>2. PICK g : g = [capability |-> c, scope |-> <<"ORGANIZATION", None>>,
                      startsAt |-> at, expiresAt |-> None, revoked |-> FALSE]
    OBVIOUS
  <2>3. g \in rows /\ Policy!ActiveGrant(g, c, time) /\ g.scope[1] = "ORGANIZATION"
    BY <2>1, <2>2 DEF CompatibilityRows, Policy!ActiveGrant
  <2>4. Policy!CoversTarget(g, screen)
    BY <2>3 DEF Policy!CoversTarget
  <2>5. CASE c \in Policy!OrganizationScoped
    <3>1. targets = {} /\ c \notin Policy!TargetScoped
      BY <2>5 DEF Policy!OrganizationScoped, Policy!TargetScoped
    <3> QED BY <1>2, <2>3, <2>5, <3>1
            DEF Policy!Evaluate, Policy!MismatchKind
  <2>6. CASE c \in Policy!TargetScoped
    <3>1. targets = {screen} /\ c \notin Policy!OrganizationScoped
      BY <2>6 DEF Policy!OrganizationScoped, Policy!TargetScoped
    <3>2. Policy!Evaluate(role, c, rows, targets, time) = "ALLOWED"
      BY <1>2, <2>3, <2>4, <2>6, <3>1 DEF Policy!Evaluate
    <3> QED BY <1>2, <3>2 DEF Policy!MismatchKind
  <2> QED BY <2>5, <2>6 DEF Policy!Capabilities
<1> QED BY <1>1, <1>2

LEMMA GrantsStep ==
    IdentityTypeOK /\ TransactionsOK /\ GrantsFollowRole /\ [Next]_identityVars
        => GrantsFollowRole'
<1> SUFFICES ASSUME IdentityTypeOK, TransactionsOK, GrantsFollowRole,
                    [Next]_identityVars
             PROVE  GrantsFollowRole'
  OBVIOUS
<1>1. ASSUME UNCHANGED <<members, grants>>, now' \in Nat, now <= now'
      PROVE  GrantsFollowRole'
  <2> SUFFICES ASSUME NEW u \in Users, NEW o \in Orgs, members[u][o].role # None
               PROVE  \E at \in Nat : at <= now'
                         /\ grants[u][o] = CompatibilityRows(members[u][o].role, at)
    BY <1>1 DEF GrantsFollowRole, CompatibilityRows
  <2>1. PICK at \in Nat : at <= now
            /\ grants[u][o] = CompatibilityRows(members[u][o].role, at)
    BY DEF GrantsFollowRole
  <2>2. at <= now'
    BY <1>1, <2>1 DEF IdentityTypeOK
  <2> QED BY <2>1, <2>2
<1>2. ASSUME NEW t \in Transactions, CommitChangeRole(t) \/ CommitRemove(t)
      PROVE  GrantsFollowRole'
  <2>1. PICK w \in Mutation : w = mutations[t] /\ Sound(w) /\ w.step = "write"
    BY <1>2 DEF CommitChangeRole, CommitRemove, IdentityTypeOK, TransactionsOK,
                InFlight
  <2>2. now' = now /\ w.user \in Users /\ w.at \in Nat /\ w.at <= now
    BY <1>2, <2>1 DEF CommitChangeRole, CommitRemove, Mutation, Sound
  <2>3. PICK p \in Orgs :
            /\ \A u \in Users, o \in Orgs : ~(u = w.user /\ o = p) =>
                  members'[u][o] = members[u][o] /\ grants'[u][o] = grants[u][o]
            /\ \/ /\ members'[w.user][p].role = w.role /\ w.role # None
                  /\ grants'[w.user][p] = CompatibilityRows(w.role, w.at)
               \/ members'[w.user][p].role = None /\ grants'[w.user][p] = {}
    <3>1. CASE CommitChangeRole(t)
      <4>1. PICK p \in w.orgs :
                /\ members' = [members EXCEPT ![w.user][p] =
                                  [role |-> w.role, authz |-> @.authz + 1]]
                /\ grants' = [grants EXCEPT ![w.user][p] = NewGrants(w, p)]
        BY <2>1, <3>1 DEF CommitChangeRole
      <4>2. p \in Orgs /\ w.role # None
        BY <2>1, <3>1, IdentityAssumption DEF Mutation, Sound, CommitChangeRole
      <4> QED BY <2>2, <4>1, <4>2 DEF IdentityTypeOK, NewGrants
    <3>2. CASE CommitRemove(t)
      <4>1. PICK p \in w.orgs :
                /\ members' = [members EXCEPT ![w.user][p] =
                                  [role |-> None, authz |-> @.authz + 1]]
                /\ grants' = [grants EXCEPT ![w.user][p] = {}]
        BY <2>1, <3>2 DEF CommitRemove
      <4>2. p \in Orgs
        BY <2>1 DEF Mutation
      <4> QED BY <2>2, <4>1, <4>2 DEF IdentityTypeOK
    <3> QED BY <1>2, <3>1, <3>2
  <2> SUFFICES ASSUME NEW u \in Users, NEW o \in Orgs
               PROVE  IF members'[u][o].role = None THEN grants'[u][o] = {}
                      ELSE \E at \in Nat : at <= now'
                              /\ grants'[u][o]
                                    = CompatibilityRows(members'[u][o].role, at)
    BY DEF GrantsFollowRole, CompatibilityRows
  <2>4. CASE u = w.user /\ o = p
    BY <2>2, <2>3, <2>4
  <2>5. CASE ~(u = w.user /\ o = p)
    BY <2>2, <2>3, <2>5 DEF GrantsFollowRole
  <2> QED BY <2>4, <2>5
<1>3. ASSUME \/ Rest \/ UNCHANGED identityVars
             \/ \E k \in Tokens : \/ CreateSession(k) \/ RefuseLogin(k) \/ Logout(k)
                                  \/ RotateBootstrapPassword(k)
             \/ \E u \in Users : \/ RotateUserPassword(u) \/ RecoverPassword(u)
                                 \/ \E k \in Tokens : BeginLogin(u, k)
             \/ \E t \in Transactions : \/ LockOrg(t) \/ LockRows(t)
                                        \/ CheckOwners(t) \/ CommitDisable(t)
      PROVE  UNCHANGED <<members, grants, now>>
  BY <1>3 DEF Rest, identityVars, CreateSession, RefuseLogin, Logout,
              RotateBootstrapPassword, RotateUserPassword, RecoverPassword,
              BeginLogin, LockOrg, LockRows, CheckOwners, CommitDisable
<1>4. ASSUME NEW t \in Transactions, NEW u, NEW kind, NEW O, NEW role,
             Begin(t, kind, u, O, role)
      PROVE  UNCHANGED <<members, grants, now>>
  BY <1>4 DEF Begin
<1>5. ASSUME Tick PROVE UNCHANGED <<members, grants>> /\ now' \in Nat /\ now <= now'
  BY <1>5 DEF Tick, IdentityTypeOK
<1>6. ASSUME UNCHANGED <<members, grants, now>> PROVE GrantsFollowRole'
  BY <1>1, <1>6 DEF IdentityTypeOK
<1>7. CASE Next
  BY <1>1, <1>2, <1>3, <1>4, <1>5, <1>6, <1>7
     DEF Next, BeginDisable, BeginRemove, BeginChangeRole
<1> QED BY <1>3, <1>6, <1>7

LEMMA InitGrants == Init => GrantsFollowRole
<1> SUFFICES ASSUME Init, NEW u \in Users, NEW o \in Orgs
             PROVE  IF members[u][o].role = None THEN grants[u][o] = {}
                    ELSE \E at \in Nat : at <= now
                            /\ grants[u][o] = CompatibilityRows(members[u][o].role, at)
  BY DEF GrantsFollowRole
<1>1. /\ now = 0 /\ members[u][o].role = InitialRole[u][o]
      /\ grants[u][o] = IF InitialRole[u][o] = None THEN {}
                        ELSE CompatibilityRows(InitialRole[u][o], 0)
  BY DEF Init
<1> QED BY <1>1

LEMMA GrantsAgree ==
    IdentityTypeOK /\ GrantsFollowRole => ScopedAgreesWithRole
<1> SUFFICES ASSUME IdentityTypeOK, GrantsFollowRole, NEW u \in Users,
                    NEW o \in Orgs, NEW c \in Policy!Capabilities, NEW screen
             PROVE  Policy!HasCapability(members[u][o].role, c)
                      <=> Policy!MismatchKind(Policy!Evaluate(members[u][o].role, c,
                              grants[u][o],
                              IF c \in Policy!TargetScoped THEN {screen} ELSE {}, now))
                          = "NONE"
  BY DEF ScopedAgreesWithRole
<1>1. members[u][o].role \in Policy!AllRoles \/ members[u][o].role = None
  BY DEF IdentityTypeOK, MemberRow, Roles
<1>2. PICK at \in Nat : at <= now
          /\ grants[u][o] = IF members[u][o].role = None THEN {}
                            ELSE CompatibilityRows(members[u][o].role, at)
  <2>1. CASE members[u][o].role = None
    <3>1. grants[u][o] = {}
      BY <2>1 DEF GrantsFollowRole
    <3>2. now \in Nat /\ now <= now
      BY DEF IdentityTypeOK
    <3> QED BY <2>1, <3>1, <3>2
  <2>2. CASE members[u][o].role # None
    BY <2>2 DEF GrantsFollowRole
  <2> QED BY <2>1, <2>2
<1> QED BY ZenonT(60), <1>1, <1>2, CompatibilityAgrees DEF IdentityTypeOK

\* The scoped shadow allows just what the role policy allows, for any history
\* of promotions, demotions and removals: the grants of a membership are always
\* the ones of its role (GrantsFollowRole).
THEOREM ScopedShadowAgrees == Spec => []ScopedAgreesWithRole
<1>1. Init => IdentityTypeOK /\ TransactionsOK /\ GrantsFollowRole
  BY InitType, InitTransactions, InitGrants
<1>2. IdentityTypeOK /\ TransactionsOK /\ GrantsFollowRole /\ [Next]_identityVars
         => (IdentityTypeOK /\ TransactionsOK /\ GrantsFollowRole)'
  BY TypeStep, TransactionsStep, GrantsStep
<1> QED BY <1>1, <1>2, GrantsAgree, PTL DEF Spec

-----------------------------------------------------------------------------
(* The in-memory store                                                      *)

\* What the in-memory store would have in its maps.
DirectoryUsers == [u \in Users |-> [disabled |-> users[u].disabled,
                                    password |-> users[u].password,
                                    marker |-> users[u].marker]]

DirectoryRoles == [u \in Users |-> [o \in Orgs |-> members[u][o].role]]

DirectorySession(k) ==
    IF ~Active(k) THEN None
    ELSE [user |-> sessions[k].user, org |-> sessions[k].org,
          purpose |-> sessions[k].purpose, expiresAt |-> sessions[k].expiresAt]

DirectorySessions == [k \in Tokens |-> DirectorySession(k)]

Without(u, organizations) ==
    [k \in Tokens |->
        IF DirectorySessions[k] # None /\ DirectorySessions[k].user = u
           /\ DirectorySessions[k].org \in organizations
        THEN None ELSE DirectorySessions[k]]

\* A login under way has a token that no session has, and ends in time.
LoginsOK ==
    \A k \in Tokens : logins[k] # None =>
        /\ sessions[k] = None
        /\ logins[k].marker = None => logins[k].expiresAt <= now + SessionLife

\* Logins under way, and sessions, exclude one another.
LEMMA LoginsStep ==
    IdentityTypeOK /\ LoginsOK /\ [Next]_identityVars => LoginsOK'
<1> SUFFICES ASSUME IdentityTypeOK, LoginsOK, [Next]_identityVars,
                    NEW k \in Tokens, logins'[k] # None
             PROVE  /\ sessions'[k] = None
                    /\ logins'[k].marker = None =>
                          logins'[k].expiresAt <= now' + SessionLife
  BY DEF LoginsOK
<1>0. now \in Nat /\ now' \in Nat /\ SessionLife \in Nat
  BY TypeStep, IdentityAssumption DEF IdentityTypeOK
<1>1. ASSUME logins'[k] = logins[k], sessions[k] = None => sessions'[k] = None,
             now <= now'
      PROVE  /\ sessions'[k] = None
             /\ logins'[k].marker = None =>
                   logins'[k].expiresAt <= now' + SessionLife
  <2>1. /\ sessions[k] = None /\ logins[k] \in LoginRow
        /\ logins[k].marker = None => logins[k].expiresAt <= now + SessionLife
    BY <1>1 DEF LoginsOK, IdentityTypeOK
  <2>2. logins[k].expiresAt \in Nat
    BY <2>1 DEF LoginRow
  <2> QED BY <1>0, <1>1, <2>1, <2>2
<1>2. CASE Tick \/ Rest \/ UNCHANGED identityVars
  <2>1. UNCHANGED <<logins, sessions>> /\ now <= now'
    BY <1>0, <1>2 DEF Tick, Rest, identityVars
  <2> QED BY <1>1, <2>1
<1>3. ASSUME NEW j \in Tokens, CreateSession(j)
      PROVE  /\ logins'[k] = logins[k] /\ now' = now
             /\ sessions[k] = None => sessions'[k] = None
  BY <1>3 DEF CreateSession, IdentityTypeOK
<1>4. ASSUME NEW j \in Tokens, RefuseLogin(j)
      PROVE  logins'[k] = logins[k] /\ sessions' = sessions /\ now' = now
  BY <1>4 DEF RefuseLogin, IdentityTypeOK
<1>5. ASSUME NEW j \in Tokens, Logout(j)
      PROVE  /\ logins'[k] = logins[k] /\ now' = now
             /\ sessions[k] = None => sessions'[k] = None
  BY <1>5 DEF Logout, Active, IdentityTypeOK
<1>6. ASSUME NEW u, NEW O, RevokeSessions(u, O), sessions[k] = None
      PROVE  sessions'[k] = None
  BY <1>6 DEF RevokeSessions
<1>7. ASSUME \/ \E j \in Tokens : RotateBootstrapPassword(j)
             \/ \E u \in Users : RotateUserPassword(u) \/ RecoverPassword(u)
             \/ \E t \in Transactions :
                   CommitDisable(t) \/ CommitChangeRole(t) \/ CommitRemove(t)
      PROVE  logins' = logins /\ (sessions[k] = None => sessions'[k] = None) /\ now' = now
  BY <1>6, <1>7 DEF RotateBootstrapPassword, RotateUserPassword, RecoverPassword,
     CommitDisable, CommitChangeRole, CommitRemove
<1>8. ASSUME NEW u \in Users, NEW j \in Tokens, BeginLogin(u, j)
      PROVE  /\ sessions'[k] = None
             /\ logins'[k].marker = None =>
                   logins'[k].expiresAt <= now' + SessionLife
  <2>1. sessions' = sessions /\ now' = now
    BY <1>8 DEF BeginLogin
  <2>2. CASE k # j
    <3>1. logins'[k] = logins[k]
      BY <1>8, <2>2 DEF BeginLogin, IdentityTypeOK
    <3> QED BY <1>0, <1>1, <2>1, <3>1 DEF LoginsOK
  <2>3. CASE k = j
    <3>1. /\ sessions[k] = None
          /\ logins'[k].marker = users[u].marker /\ logins'[k].expiresAt = SessionEnd(u)
      BY <1>8, <2>3 DEF BeginLogin, IdentityTypeOK
    <3>2. users[u].marker = None => SessionEnd(u) = now + SessionLife
      BY DEF SessionEnd
    <3> QED BY <1>0, <2>1, <3>1, <3>2
  <2> QED BY <2>2, <2>3
<1>9. ASSUME \E t \in Transactions : LockOrg(t) \/ LockRows(t) \/ CheckOwners(t)
      PROVE  UNCHANGED <<logins, sessions, now>>
  BY <1>9 DEF LockOrg, LockRows, CheckOwners
<1>10. ASSUME NEW t, NEW u, NEW kind, NEW O, NEW role, Begin(t, kind, u, O, role)
      PROVE  UNCHANGED <<logins, sessions, now>>
  BY <1>10 DEF Begin
<1>11. ASSUME logins'[k] = logins[k], sessions[k] = None => sessions'[k] = None, now' = now
       PROVE  /\ sessions'[k] = None
              /\ logins'[k].marker = None =>
                    logins'[k].expiresAt <= now' + SessionLife
  BY <1>0, <1>1, <1>11
<1>12. CASE Next
  BY <1>2, <1>3, <1>4, <1>5, <1>7, <1>8, <1>9, <1>10, <1>11, <1>12
     DEF Next, BeginDisable, BeginRemove, BeginChangeRole
<1> QED BY <1>2, <1>12

-----------------------------------------------------------------------------
(* Sessions as the in-memory store has them                                  *)

\* A session whose rows stay is what it was.
LEMMA SessionSame ==
    ASSUME NEW k \in Tokens, sessions'[k] = sessions[k], now' = now,
           sessions[k] # None =>
              /\ users'[sessions[k].user] = users[sessions[k].user]
              /\ members'[sessions[k].user][sessions[k].org]
                    = members[sessions[k].user][sessions[k].org]
    PROVE  DirectorySession(k)' = DirectorySession(k)
<1>1. Active(k)' <=> Active(k)
  BY DEF Active
<1> QED BY <1>1 DEF DirectorySession

\* A session that is revoked or deleted is gone.
LEMMA SessionGone ==
    ASSUME NEW k \in Tokens, sessions'[k] = None \/ sessions'[k].revoked
    PROVE  DirectorySession(k)' = None
<1>1. ~Active(k)'
  BY DEF Active
<1> QED BY <1>1 DEF DirectorySession

\* What the in-memory store has of an active session.
LEMMA SessionFields ==
    ASSUME IdentityTypeOK, NEW k \in Tokens
    PROVE  /\ Active(k) => /\ sessions[k] # None /\ sessions[k] \in SessionRow
                           /\ DirectorySession(k) # None
                           /\ DirectorySession(k).user = sessions[k].user
                           /\ DirectorySession(k).org = sessions[k].org
                           /\ DirectorySession(k).purpose = sessions[k].purpose
                           /\ DirectorySession(k).expiresAt = sessions[k].expiresAt
           /\ ~Active(k) => DirectorySession(k) = None
<1>1. CASE Active(k)
  <2>1. sessions[k] # None /\ sessions[k] \in SessionRow
    BY <1>1 DEF Active, IdentityTypeOK
  <2>2. DirectorySession(k) \in [user : Users, org : Orgs, purpose : {"FULL", "ROTATION"},
                                 expiresAt : Nat]
    BY <1>1, <2>1 DEF DirectorySession, SessionRow
  <2> QED BY <1>1, <2>1, <2>2, IdentityNoneAssumption DEF DirectorySession
<1>2. CASE ~Active(k)
  BY <1>2 DEF DirectorySession
<1> QED BY <1>1, <1>2

\* Revoking a user's sessions in some organizations ends them, and no others.
LEMMA SessionsRevoked ==
    ASSUME IdentityTypeOK, NEW u \in Users, NEW O, O \subseteq Orgs, RevokeSessions(u, O),
           now' = now,
           \A v \in Users, o \in Orgs : ~(v = u /\ o \in O) =>
              users'[v] = users[v] /\ members'[v][o] = members[v][o]
    PROVE  DirectorySessions' = Without(u, O)
<1>1. ASSUME NEW k \in Tokens
      PROVE  DirectorySession(k)' =
                IF DirectorySession(k) # None /\ DirectorySession(k).user = u
                   /\ DirectorySession(k).org \in O
                THEN None ELSE DirectorySession(k)
  <2>1. CASE sessions[k] = None
    <3>1. sessions'[k] = None /\ ~Active(k)
      BY <2>1 DEF RevokeSessions, Active
    <3> QED BY <3>1, SessionGone, SessionFields
  <2>2. CASE sessions[k] # None /\ sessions[k].user = u /\ sessions[k].org \in O
    <3>1. sessions[k] \in SessionRow
      BY <2>2 DEF IdentityTypeOK
    <3>2. sessions'[k].revoked
      BY <2>2, <3>1 DEF RevokeSessions, SessionRow
    <3> QED BY <2>2, <3>2, SessionGone, SessionFields
  <2>3. CASE sessions[k] # None /\ ~(sessions[k].user = u /\ sessions[k].org \in O)
    <3>1. sessions'[k] = sessions[k] /\ sessions[k] \in SessionRow
      BY <2>3 DEF RevokeSessions, IdentityTypeOK
    <3>2. sessions[k].user \in Users /\ sessions[k].org \in Orgs
      BY <3>1 DEF SessionRow
    <3>3. DirectorySession(k)' = DirectorySession(k)
      BY <2>3, <3>1, <3>2, SessionSame
    <3> QED BY <2>3, <3>3, SessionFields
  <2> QED BY <2>1, <2>2, <2>3
<1> QED BY <1>1 DEF DirectorySessions, Without

\* Without a change of rows nothing changes there.
LEMMA SessionsSame ==
    ASSUME UNCHANGED <<now, users, members, sessions>>
    PROVE  UNCHANGED <<DirectoryUsers, DirectoryRoles, DirectorySessions>>
<1>1. \A k \in Tokens : DirectorySession(k)' = DirectorySession(k)
  BY SessionSame
<1> QED BY <1>1 DEF DirectoryUsers, DirectoryRoles, DirectorySessions

-----------------------------------------------------------------------------
(* Every step of the database store is one of the in-memory store            *)

LEMMA RolesSame == members' = members => DirectoryRoles' = DirectoryRoles
BY DEF DirectoryRoles

\* A login ends in a session of the in-memory store, within the time that its
\* purpose is given.
LEMMA CreateSessionSimulates ==
    ASSUME IdentityTypeOK, LoginsOK, NEW k \in Tokens, CreateSession(k)
    PROVE  \E u \in Users, o \in Orgs, e \in now + 1 .. now + SessionLife :
              Directory!CreateSession(u, o, k, e)
<1>1. PICK login \in LoginRow : login = logins[k]
  BY DEF CreateSession, IdentityTypeOK
<1>2. /\ login # None /\ logins[k] # None /\ AsExpected(login) /\ PurposeHolds(login)
      /\ UNCHANGED <<now, users, members>>
  BY <1>1 DEF CreateSession
<1>3. PICK u \in Users, o \in Orgs, e \in Nat :
          u = login.user /\ o = login.org /\ e = login.expiresAt
  BY DEF LoginRow
<1>4. /\ ~users[u].disabled /\ members[u][o] = login.member
      /\ members[u][o].role # None /\ users[u].marker = login.marker
  BY <1>2, <1>3 DEF AsExpected
<1>5. /\ now \in Nat /\ SessionLife \in Nat /\ RotationLife \in Nat
      /\ RotationLife <= SessionLife /\ e > now
      /\ users[u].marker # None =>
            /\ users[u].marker \in Nat /\ users[u].marker > now
            /\ e <= users[u].marker /\ e <= now + RotationLife
  BY <1>2, <1>3, <1>4, IdentityAssumption DEF PurposeHolds, IdentityTypeOK, UserRow
<1>6. sessions[k] = None /\ (users[u].marker = None => e <= now + SessionLife)
  BY <1>1, <1>2, <1>3, <1>4 DEF LoginsOK
<1>7. e \in now + 1 .. now + SessionLife
  BY <1>5, <1>6
<1> DEFINE purpose == IF users[u].marker = None THEN "FULL" ELSE "ROTATION"
<1>8. /\ sessions'[k] =
            [user |-> u, org |-> o, purpose |-> purpose, expiresAt |-> e,
             revoked |-> FALSE, authn |-> users[u].authn, authz |-> members[u][o].authz,
             role |-> members[u][o].role, password |-> login.password]
      /\ \A j \in Tokens \ {k} : sessions'[j] =
            IF /\ sessions[j] # None /\ sessions[j].user = u
               /\ sessions[j].org = o /\ sessions[j].expiresAt <= now
            THEN None ELSE sessions[j]
  BY <1>1, <1>3, <1>4 DEF CreateSession
<1>9. sessions'[k] # None
  <2>1. /\ users[u].authn \in Nat /\ members[u][o].authz \in Nat
        /\ members[u][o].role \in Roles /\ login.password \in Nat
    BY DEF IdentityTypeOK, UserRow, MemberRow, LoginRow
  <2>2. sessions'[k] \in SessionRow
    BY <1>8, <2>1 DEF SessionRow
  <2> QED BY <2>2, IdentityNoneAssumption DEF SessionRow, Roles
<1>10. Active(k)'
  BY <1>2, <1>4, <1>5, <1>8, <1>9 DEF Active
<1>11. DirectorySession(k)' = [user |-> u, org |-> o, purpose |-> purpose, expiresAt |-> e]
  BY <1>8, <1>10 DEF DirectorySession
<1>12. DirectorySession(k) = None
  BY <1>6 DEF DirectorySession, Active
<1>13. ASSUME NEW j \in Tokens \ {k} PROVE DirectorySession(j)' = DirectorySession(j)
  <2>1. CASE sessions'[j] = sessions[j]
    BY <1>2, <2>1, SessionSame
  <2>2. CASE sessions'[j] # sessions[j]
    <3>1. sessions'[j] = None /\ sessions[j] # None /\ sessions[j].expiresAt <= now
      BY <1>8, <2>2
    <3>2. ~Active(j)
      BY <1>5, <3>1 DEF Active, IdentityTypeOK, SessionRow
    <3> QED BY <3>1, <3>2, SessionGone DEF DirectorySession
  <2> QED BY <2>1, <2>2
<1>14. DirectorySessions' = [DirectorySessions EXCEPT ![k] =
           [user |-> u, org |-> o, purpose |-> purpose, expiresAt |-> e]]
  BY <1>11, <1>13 DEF DirectorySessions
<1>15. DirectorySessions[k] = None /\ DirectoryUsers' = DirectoryUsers
       /\ DirectoryRoles' = DirectoryRoles
  BY <1>2, <1>12, RolesSame DEF DirectorySessions, DirectoryUsers
<1>16. Directory!CreateSession(u, o, k, e)
  BY <1>2, <1>4, <1>5, <1>14, <1>15
     DEF Directory!CreateSession, DirectorySessions, DirectorySession, DirectoryUsers,
         DirectoryRoles
<1> QED BY <1>7, <1>16

\* Logging out ends the session.
LEMMA LogoutSimulates ==
    ASSUME IdentityTypeOK, NEW k \in Tokens, Logout(k)
    PROVE  Directory!Logout(k)
<1>1. /\ Active(k) /\ sessions[k] \in SessionRow /\ DirectorySession(k) # None
      /\ UNCHANGED <<now, users, members>>
  BY SessionFields DEF Logout
<1>2. sessions'[k].revoked /\ \A j \in Tokens \ {k} : sessions'[j] = sessions[j]
  BY <1>1 DEF Logout, IdentityTypeOK, SessionRow
<1>3. DirectorySession(k)' = None
  BY <1>2, SessionGone
<1>4. \A j \in Tokens \ {k} : DirectorySession(j)' = DirectorySession(j)
  BY <1>1, <1>2, SessionSame
<1>5. DirectorySessions[k] # None
  BY <1>1 DEF DirectorySessions
<1>7. DirectorySessions' = [DirectorySessions EXCEPT ![k] = None]
  BY <1>3, <1>4 DEF DirectorySessions
<1>6. DirectoryUsers' = DirectoryUsers /\ DirectoryRoles' = DirectoryRoles
  BY <1>1, RolesSame DEF DirectoryUsers
<1> QED BY <1>1, <1>5, <1>6, <1>7
        DEF Directory!Logout, DirectorySessions, DirectorySession, DirectoryUsers,
            DirectoryRoles

\* New passwords end every session of their user.
LEMMA RotateUserPasswordSimulates ==
    ASSUME IdentityTypeOK, NEW u \in Users, RotateUserPassword(u)
    PROVE  Directory!RotateUserPassword(u)
<1>1. /\ users' = [users EXCEPT ![u].password = @ + 1, ![u].authn = @ + 1]
      /\ RevokeSessions(u, Orgs) /\ UNCHANGED <<now, members>>
      /\ \E o \in Orgs : members[u][o].role # None
  BY DEF RotateUserPassword, Memberships
<1>2. DirectoryUsers' = [DirectoryUsers EXCEPT ![u].password = @ + 1]
  BY <1>1 DEF DirectoryUsers, IdentityTypeOK, UserRow
<1>3. \A v \in Users : v # u => users'[v] = users[v]
  BY <1>1 DEF IdentityTypeOK
<1>4. DirectorySessions' = Without(u, Orgs)
  BY <1>1, <1>3, SessionsRevoked
<1>5. DirectoryRoles' = DirectoryRoles
  BY <1>1, RolesSame
<1> QED BY <1>1, <1>2, <1>4, <1>5
        DEF Directory!RotateUserPassword, Directory!IsMember, Directory!SessionsWithout,
            DirectorySessions, DirectorySession, DirectoryUsers, DirectoryRoles, Without

LEMMA RotateBootstrapPasswordSimulates ==
    ASSUME IdentityTypeOK, NEW k \in Tokens, RotateBootstrapPassword(k)
    PROVE  Directory!RotateBootstrapPassword(k)
<1>1. PICK u \in Users : /\ u = sessions[k].user
                         /\ sessions[k] \in SessionRow /\ Active(k)
                         /\ sessions[k].purpose = "ROTATION"
  BY DEF RotateBootstrapPassword, Active, SessionRow, IdentityTypeOK
<1>2. /\ users' = [users EXCEPT ![u].password = @ + 1, ![u].authn = @ + 1,
                                ![u].marker = None]
      /\ RevokeSessions(u, Orgs) /\ UNCHANGED <<now, members>>
  BY <1>1 DEF RotateBootstrapPassword
<1>3. DirectoryUsers' = [DirectoryUsers EXCEPT ![u].password = @ + 1, ![u].marker = None]
  BY <1>2 DEF DirectoryUsers, IdentityTypeOK, UserRow
<1>4. \A v \in Users : v # u => users'[v] = users[v]
  BY <1>2 DEF IdentityTypeOK
<1>5. DirectorySessions' = Without(u, Orgs)
  BY <1>2, <1>4, SessionsRevoked
<1>6. DirectoryRoles' = DirectoryRoles
  BY <1>2, RolesSame
<1>7. /\ DirectorySessions[k] # None /\ DirectorySessions[k].purpose = "ROTATION"
      /\ DirectorySessions[k].user = u
  BY <1>1, SessionFields DEF DirectorySessions
<1>8. LET v == DirectorySessions[k].user IN
          /\ DirectoryUsers' = [DirectoryUsers EXCEPT ![v].password = @ + 1, ![v].marker = None]
          /\ DirectorySessions' = Without(v, Orgs)
  BY <1>3, <1>5, <1>7
<1> QED BY <1>2, <1>6, <1>7, <1>8
        DEF Directory!RotateBootstrapPassword, Directory!SessionsWithout,
            DirectorySessions, DirectorySession, DirectoryUsers, DirectoryRoles, Without

LEMMA RecoverPasswordSimulates ==
    ASSUME IdentityTypeOK, NEW u \in Users, RecoverPassword(u)
    PROVE  Directory!RecoverPassword(u)
<1>1. /\ users' = [users EXCEPT ![u].password = @ + 1, ![u].authn = @ + 1,
                                ![u].marker = now + RecoveryWindow]
      /\ RevokeSessions(u, Orgs) /\ UNCHANGED <<now, members>>
      /\ ~users[u].disabled /\ \E o \in Orgs : members[u][o].role = "OWNER"
  BY DEF RecoverPassword
<1>2. DirectoryUsers' = [DirectoryUsers EXCEPT ![u].password = @ + 1,
                                              ![u].marker = now + RecoveryWindow]
  <2>1. /\ users'[u].disabled = users[u].disabled
        /\ users'[u].password = users[u].password + 1
        /\ users'[u].marker = now + RecoveryWindow
        /\ \A v \in Users : v # u => users'[v] = users[v]
    BY <1>1 DEF IdentityTypeOK, UserRow
  <2>2. DirectoryUsers'[u] =
            [disabled |-> users[u].disabled, password |-> users[u].password + 1,
             marker |-> now + RecoveryWindow]
    BY <2>1 DEF DirectoryUsers
  <2> QED BY <2>1, <2>2 DEF DirectoryUsers
<1>3. \A v \in Users : v # u => users'[v] = users[v]
  BY <1>1 DEF IdentityTypeOK
<1>4. DirectorySessions' = Without(u, Orgs)
  BY <1>1, <1>3, SessionsRevoked
<1>5. DirectoryRoles' = DirectoryRoles
  BY <1>1, RolesSame
<1> QED BY <1>1, <1>2, <1>4, <1>5
        DEF Directory!RecoverPassword, Directory!ActiveOwner, Directory!SessionsWithout,
            DirectorySessions, DirectorySession, DirectoryUsers, DirectoryRoles, Without

\* Time ends the sessions that expire, and only those: a session for a new
\* password ends no later than its user's marker.
LEMMA TickSimulates ==
    ASSUME IdentityTypeOK, Tick
    PROVE  Directory!DirectoryTick
<1>1. /\ now \in Nat /\ now < MaxTime /\ now' = now + 1
      /\ UNCHANGED <<users, members, sessions>>
  BY DEF Tick, IdentityTypeOK
<1>2. ASSUME NEW k \in Tokens
      PROVE  DirectorySession(k)' =
                IF DirectorySession(k) # None /\ DirectorySession(k).expiresAt <= now'
                THEN None ELSE DirectorySession(k)
  <2>1. CASE ~Active(k)
    <3>1. ~Active(k)'
      <4>1. CASE sessions[k] = None
        BY <1>1, <4>1 DEF Active
      <4>2. CASE sessions[k] # None
        <5>1. sessions[k] \in SessionRow /\ sessions[k].user \in Users
          BY <4>2 DEF IdentityTypeOK, SessionRow
        <5>2. users[sessions[k].user].marker \in Nat \cup {None}
              /\ sessions[k].expiresAt \in Nat
          BY <5>1 DEF IdentityTypeOK, SessionRow, UserRow
        <5>3. /\ sessions[k].expiresAt > now' => sessions[k].expiresAt > now
              /\ users[sessions[k].user].marker # None =>
                    (users[sessions[k].user].marker > now'
                       => users[sessions[k].user].marker > now)
          BY <1>1, <5>2
        <5> QED BY <1>1, <2>1, <5>1, <5>3 DEF Active, SessionRow
      <4> QED BY <4>1, <4>2
    <3> QED BY <2>1, <3>1 DEF DirectorySession
  <2>2. CASE Active(k)
    <3>1. /\ sessions[k] # None /\ sessions[k] \in SessionRow
          /\ DirectorySession(k) # None
          /\ DirectorySession(k).expiresAt = sessions[k].expiresAt
      BY <2>2, SessionFields
    <3>2. CASE Active(k)'
      <4>1. sessions[k].expiresAt > now'
        BY <1>1, <3>2 DEF Active
      <4>2. ~(sessions[k].expiresAt <= now')
        BY <1>1, <3>1, <4>1 DEF SessionRow
      <4>3. DirectorySession(k)' = DirectorySession(k)
        BY <1>1, <2>2, <3>2 DEF DirectorySession
      <4> QED BY <3>1, <4>2, <4>3
    <3>3. CASE ~Active(k)'
      <4>1. sessions[k].user \in Users /\ sessions[k].expiresAt \in Nat
            /\ users[sessions[k].user].marker \in Nat \cup {None}
        BY <3>1 DEF SessionRow, IdentityTypeOK, UserRow
      <4>2. sessions[k].expiresAt <= now'
        <5>1. CASE sessions[k].expiresAt > now'
          <6>1. sessions[k].purpose # "FULL"
            BY <1>1, <2>2, <3>3, <5>1 DEF Active
          <6>2. /\ users[sessions[k].user].marker # None
                /\ sessions[k].expiresAt <= users[sessions[k].user].marker
            BY <2>2, <6>1 DEF Active
          <6>3. users[sessions[k].user].marker > now'
            BY <1>1, <4>1, <5>1, <6>2
          <6> QED BY <1>1, <2>2, <3>3, <5>1, <6>3 DEF Active
        <5> QED BY <1>1, <4>1, <5>1
      <4>3. DirectorySession(k)' = None
        BY <3>3 DEF DirectorySession
      <4> QED BY <3>1, <4>2, <4>3
    <3> QED BY <3>2, <3>3
  <2> QED BY <2>1, <2>2
<1>3. DirectorySessions' =
          [k \in Tokens |-> IF DirectorySessions[k] # None
                               /\ DirectorySessions[k].expiresAt <= now'
                            THEN None ELSE DirectorySessions[k]]
  BY <1>2 DEF DirectorySessions
<1>4. DirectoryUsers' = DirectoryUsers /\ DirectoryRoles' = DirectoryRoles
  BY <1>1, RolesSame DEF DirectoryUsers
<1> QED BY <1>1, <1>3, <1>4
        DEF Directory!DirectoryTick, DirectorySessions, DirectorySession, DirectoryUsers,
            DirectoryRoles

\* A membership of a user changes its role, and the user's sessions in that
\* organization end.
LEMMA RoleChanges ==
    ASSUME IdentityTypeOK, NEW u \in Users, NEW o \in Orgs, NEW role,
           members' = [members EXCEPT ![u][o] =
                          [role |-> role, authz |-> @.authz + 1]],
           RevokeSessions(u, {o}), UNCHANGED <<now, users>>
    PROVE  /\ DirectoryRoles' = [DirectoryRoles EXCEPT ![u][o] = role]
           /\ DirectorySessions' = Without(u, {o})
           /\ DirectoryUsers' = DirectoryUsers
<1>1. \A v \in Users, p \in Orgs : ~(v = u /\ p \in {o}) =>
          users'[v] = users[v] /\ members'[v][p] = members[v][p]
  BY DEF IdentityTypeOK
<1>2. DirectorySessions' = Without(u, {o})
  BY <1>1, SessionsRevoked
<1>3. members'[u][o].role = role
  BY DEF IdentityTypeOK
<1>4. DirectoryRoles' = [DirectoryRoles EXCEPT ![u][o] = role]
  <2>1. \A v \in Users, p \in Orgs : DirectoryRoles'[v][p] =
            IF v = u /\ p = o THEN role ELSE DirectoryRoles[v][p]
    BY <1>1, <1>3 DEF DirectoryRoles
  <2>2. DirectoryRoles \in [Users -> [Orgs -> Roles \cup {role}]]
    BY DEF DirectoryRoles, IdentityTypeOK, MemberRow
  <2>3. DirectoryRoles' \in [Users -> [Orgs -> Roles \cup {role}]]
    BY <1>1, <1>3, <2>2, IdentityTypeOK DEF DirectoryRoles, IdentityTypeOK, MemberRow
  <2> HIDE DEF Roles
  <2> QED BY <2>1, <2>2, <2>3
<1> QED BY <1>2, <1>4 DEF DirectoryUsers

LEMMA ChangeRoleSimulates ==
    ASSUME IdentityTypeOK, TransactionsOK, NEW t \in Transactions, CommitChangeRole(t)
    PROVE  \E u \in Users, o \in Orgs, role \in OfferedRoles :
              Directory!ChangeMembershipRole(u, o, role)
<1>1. PICK w \in Mutation : /\ w = mutations[t] /\ Sound(w) /\ Counted(w)
                            /\ w.step = "write" /\ w.kind = "role"
  BY DEF CommitChangeRole, TransactionsOK, InFlight, IdentityTypeOK
<1>2. PICK u \in Users, role \in OfferedRoles : u = w.user /\ role = w.role
  BY <1>1 DEF Sound, Mutation
<1>3. PICK o \in Orgs : w.orgs = {o}
  BY <1>1 DEF Sound
<1>4. members[u][o].role # None
  BY <1>1, <1>2, <1>3 DEF Sound
<1>5. role # "OWNER" => (ActiveOwner(u, o) => HasOtherActiveOwner(u, o))
  BY <1>1, <1>2, <1>3 DEF Counted
<1>6. /\ members' = [members EXCEPT ![u][o] = [role |-> role, authz |-> @.authz + 1]]
      /\ RevokeSessions(u, {o}) /\ UNCHANGED <<now, users>>
  BY <1>1, <1>2, <1>3 DEF CommitChangeRole
<1>7. /\ DirectoryRoles' = [DirectoryRoles EXCEPT ![u][o] = role]
      /\ DirectorySessions' = Without(u, {o})
      /\ DirectoryUsers' = DirectoryUsers
  BY <1>6, RoleChanges
<1>8. Directory!ChangeMembershipRole(u, o, role)
  BY <1>4, <1>5, <1>6, <1>7
     DEF Directory!ChangeMembershipRole, Directory!OwnerRemainsWithout,
         Directory!ActiveOwner, Directory!SessionsWithout, ActiveOwner,
         HasOtherActiveOwner, DirectorySessions, DirectorySession, DirectoryUsers,
         DirectoryRoles, Without
<1> QED BY <1>8

LEMMA RemoveSimulates ==
    ASSUME IdentityTypeOK, TransactionsOK, NEW t \in Transactions, CommitRemove(t)
    PROVE  \E u \in Users, o \in Orgs : Directory!RemoveMembership(u, o)
<1>1. PICK w \in Mutation : /\ w = mutations[t] /\ Sound(w) /\ Counted(w)
                            /\ w.step = "write" /\ w.kind = "remove"
  BY DEF CommitRemove, TransactionsOK, InFlight, IdentityTypeOK
<1>2. PICK u \in Users : u = w.user
  BY <1>1 DEF Mutation
<1>3. PICK o \in Orgs : w.orgs = {o}
  BY <1>1 DEF Sound
<1>4. members[u][o].role # None /\ w.role = None
  BY <1>1, <1>2, <1>3 DEF Sound
<1>5. ActiveOwner(u, o) => HasOtherActiveOwner(u, o)
  <2>1. w.role # "OWNER"
    BY <1>4, IdentityAssumption DEF Policy!AllRoles
  <2> QED BY <1>1, <1>2, <1>3, <2>1 DEF Counted
<1>6. /\ members' = [members EXCEPT ![u][o] = [role |-> None, authz |-> @.authz + 1]]
      /\ RevokeSessions(u, {o}) /\ UNCHANGED <<now, users>>
  BY <1>1, <1>2, <1>3 DEF CommitRemove
<1>7. /\ DirectoryRoles' = [DirectoryRoles EXCEPT ![u][o] = None]
      /\ DirectorySessions' = Without(u, {o})
      /\ DirectoryUsers' = DirectoryUsers
  BY <1>6, RoleChanges
<1>8. Directory!RemoveMembership(u, o)
  BY <1>4, <1>5, <1>6, <1>7
     DEF Directory!RemoveMembership, Directory!OwnerRemainsWithout,
         Directory!ActiveOwner, Directory!SessionsWithout, ActiveOwner,
         HasOtherActiveOwner, DirectorySessions, DirectorySession, DirectoryUsers,
         DirectoryRoles, Without
<1> QED BY <1>8

\* The organizations read first, without a lock, are enough: a user is not
\* given a membership while the mutation is under way.
LEMMA DisableSimulates ==
    ASSUME IdentityTypeOK, TransactionsOK, NEW t \in Transactions, CommitDisable(t)
    PROVE  \E u \in Users : Directory!DisableUser(u)
<1>1. PICK w \in Mutation : /\ w = mutations[t] /\ Sound(w) /\ Counted(w)
                            /\ w.step = "write" /\ w.kind = "disable"
  BY DEF CommitDisable, TransactionsOK, InFlight, IdentityTypeOK
<1>2. PICK u \in Users : u = w.user
  BY <1>1 DEF Mutation
<1>3. w.role # "OWNER" /\ None # "OWNER"
  BY <1>1, IdentityAssumption DEF Sound, Policy!AllRoles
<1>4. \E o \in Orgs : members[u][o].role # None
  BY <1>1, <1>2 DEF Sound, Mutation
<1>5. ASSUME NEW o \in Orgs, ActiveOwner(u, o) PROVE HasOtherActiveOwner(u, o)
  <2>1. o \in w.orgs
    BY <1>1, <1>2, <1>3, <1>5 DEF Sound, Memberships, ActiveOwner
  <2> QED BY <1>1, <1>2, <1>3, <1>5, <2>1 DEF Counted
<1>6. /\ users' = [users EXCEPT ![u].disabled = TRUE, ![u].authn = @ + 1]
      /\ RevokeSessions(u, Orgs) /\ UNCHANGED <<now, members>>
  BY <1>1, <1>2 DEF CommitDisable
<1>7. \A v \in Users : v # u => users'[v] = users[v]
  BY <1>6 DEF IdentityTypeOK
<1>8. DirectoryUsers' = [DirectoryUsers EXCEPT ![u].disabled = TRUE]
  <2>1. /\ users'[u].disabled = TRUE
        /\ users'[u].password = users[u].password
        /\ users'[u].marker = users[u].marker
    BY <1>6 DEF IdentityTypeOK, UserRow
  <2>2. DirectoryUsers'[u] =
            [disabled |-> TRUE, password |-> users[u].password,
             marker |-> users[u].marker]
    BY <2>1 DEF DirectoryUsers
  <2> QED BY <1>7, <2>2 DEF DirectoryUsers
<1>9. DirectorySessions' = Without(u, Orgs)
  BY <1>6, <1>7, SessionsRevoked
<1>10. DirectoryRoles' = DirectoryRoles
  BY <1>6, RolesSame
<1>11. Directory!DisableUser(u)
  <2>1. \A o \in Orgs : Directory!OwnerRemainsWithout(u, o)
    BY <1>5 DEF Directory!OwnerRemainsWithout, Directory!ActiveOwner, ActiveOwner,
       HasOtherActiveOwner
  <2> QED BY <1>4, <1>6, <1>8, <1>9, <1>10, <2>1
          DEF Directory!DisableUser, Directory!IsMember, Directory!SessionsWithout,
              DirectorySessions, DirectorySession, DirectoryUsers, DirectoryRoles, Without
<1> QED BY <1>11

\* What the in-memory store does not know of: passwords being compared,
\* refusals, locks and counts.
LEMMA OthersStutter ==
    ASSUME \/ Rest \/ UNCHANGED identityVars
           \/ \E k \in Tokens : RefuseLogin(k)
           \/ \E u \in Users, k \in Tokens : BeginLogin(u, k)
           \/ \E t \in Transactions : LockOrg(t) \/ LockRows(t) \/ CheckOwners(t)
           \/ \E t \in Transactions, u \in Users :
                 \/ BeginDisable(t, u)
                 \/ \E o \in Orgs : \/ BeginRemove(t, u, o)
                                    \/ \E role \in OfferedRoles :
                                          BeginChangeRole(t, u, o, role)
    PROVE  UNCHANGED Directory!directoryVars
<1>1. UNCHANGED <<now, users, members, sessions>>
  BY DEF Rest, identityVars, RefuseLogin, BeginLogin, LockOrg, LockRows, CheckOwners,
     BeginDisable, BeginRemove, BeginChangeRole, Begin
<1>2. UNCHANGED <<DirectoryUsers, DirectoryRoles, DirectorySessions>>
  BY <1>1, SessionsSame
<1> QED BY <1>1, <1>2
        DEF Directory!directoryVars, DirectorySessions, DirectorySession,
            DirectoryUsers, DirectoryRoles

LEMMA StepSimulates ==
    ASSUME IdentityTypeOK, TransactionsOK, LoginsOK, [Next]_identityVars
    PROVE  [Directory!DirectoryNext]_Directory!directoryVars
<1>1. CASE Tick
  BY <1>1, TickSimulates DEF Directory!DirectoryNext
<1>2. ASSUME NEW k \in Tokens, CreateSession(k)
      PROVE  Directory!DirectoryNext
  BY <1>2, CreateSessionSimulates DEF Directory!DirectoryNext
<1>3. ASSUME NEW k \in Tokens, Logout(k) \/ RotateBootstrapPassword(k)
      PROVE  Directory!DirectoryNext
  BY <1>3, LogoutSimulates, RotateBootstrapPasswordSimulates DEF Directory!DirectoryNext
<1>4. ASSUME NEW u \in Users, RotateUserPassword(u) \/ RecoverPassword(u)
      PROVE  Directory!DirectoryNext
  BY <1>4, RotateUserPasswordSimulates, RecoverPasswordSimulates
     DEF Directory!DirectoryNext
<1>5. ASSUME NEW t \in Transactions,
             CommitDisable(t) \/ CommitChangeRole(t) \/ CommitRemove(t)
      PROVE  Directory!DirectoryNext
  BY <1>5, DisableSimulates, ChangeRoleSimulates, RemoveSimulates
     DEF Directory!DirectoryNext
<1> QED BY <1>1, <1>2, <1>3, <1>4, <1>5, OthersStutter DEF Next

LEMMA InitSimulates == Init => Directory!DirectoryInit /\ LoginsOK
<1> SUFFICES ASSUME Init PROVE Directory!DirectoryInit /\ LoginsOK
  OBVIOUS
<1>1. LoginsOK
  BY DEF Init, LoginsOK
<1>2. DirectoryUsers = [u \in Users |-> [disabled |-> FALSE, password |-> 0,
                                         marker |-> None]]
  BY DEF Init, DirectoryUsers
<1>3. DirectoryRoles = InitialRole
  BY IdentityAssumption DEF Init, DirectoryRoles
<1>4. DirectorySessions = [k \in Tokens |-> None]
  BY DEF Init, DirectorySessions, DirectorySession, Active
<1> QED BY <1>1, <1>2, <1>3, <1>4
        DEF Init, Directory!DirectoryInit, DirectorySessions, DirectorySession,
            DirectoryUsers, DirectoryRoles

\* Every transaction of the database store, statement by statement and for any
\* number of them at once, does what the in-memory store does in one step.
THEOREM StoreImplementsDirectory == Spec => ImplementsDirectory
<1> DEFINE StoreOK == IdentityTypeOK /\ TransactionsOK /\ LoginsOK
<1>1. Init => StoreOK /\ Directory!DirectoryInit
  BY InitType, InitTransactions, InitSimulates
<1>2. StoreOK /\ [Next]_identityVars => StoreOK'
  BY TypeStep, TransactionsStep, LoginsStep
<1>3. StoreOK /\ [Next]_identityVars
         => [Directory!DirectoryNext]_Directory!directoryVars
  BY StepSimulates
<1> QED BY <1>1, <1>2, <1>3, PTL DEF Spec, ImplementsDirectory, Directory!DirectorySpec

=============================================================================
