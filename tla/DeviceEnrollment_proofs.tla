----------------------- MODULE DeviceEnrollment_proofs -----------------------
EXTENDS DeviceEnrollment, TLAPS

-----------------------------------------------------------------------------
(* Type correctness *)

(* A grant that has or had a row has its columns. *)
RowsOK == \A g \in Grants : status[g] # "NONE" => grant[g] \in GrantRow

LEMMA InstallType ==
    ASSUME TypeOK, RowsOK, NEW a \in Attempts, NEW n \in Nat, NEW p, Activatable(a, p),
           InstallCandidate(a, grant[attempt[a].grant].screen, n)
    PROVE  /\ tombstone' \in SUBSET Keys
           /\ home' \in [Keys -> Screens \union {None}]
           /\ installation' \in [Screens -> Keys \union {None}]
           /\ generation' \in [Screens -> 0 .. MaxGeneration]
           /\ activated' \in SUBSET Attempts
           /\ revoked' = revoked /\ phase' = phase
<1> DEFINE g == attempt[a].grant
           s == grant[g].screen
           k == attempt[a].key
<1>1. g \in Grants /\ k \in Keys
  BY NoneAssumption DEF TypeOK, Activatable, Issued, AttemptRow
<1>2. s \in Screens
  BY <1>1 DEF RowsOK, GrantRow, Activatable
<1>3. n \in 0 .. MaxGeneration
  BY BoundAssumption DEF InstallCandidate
<1> QED
  BY <1>1, <1>2, <1>3 DEF InstallCandidate, TypeOK

LEMMA AddGrantRow ==
    ASSUME TypeOK, NEW g \in Grants, NEW purpose \in Purposes, NEW s \in Screens,
           NEW expected \in 0 .. MaxGeneration, NEW u \in Users,
           NEW st \in [Grants -> Statuses], AddGrant(g, purpose, s, expected, u, st)
    PROVE  /\ grant' \in [Grants -> GrantRow \union {None}]
           /\ status' \in [Grants -> Statuses]
           /\ age' = age
           /\ grant'[g] \in GrantRow
           /\ grant'[g].screen = s /\ grant'[g].expected = expected
           /\ grant'[g].issuer = u
           /\ grant'[g].authn = user[u].authn /\ grant'[g].authz = user[u].authz
           /\ status'[g] = "PENDING"
           /\ \A h \in Grants \ {g} : grant'[h] = grant[h] /\ status'[h] = st[h]
<1> DEFINE row == [purpose |-> purpose, screen |-> s, expected |-> expected, issuer |-> u,
                   authn |-> user[u].authn, authz |-> user[u].authz]
<1>1. row \in GrantRow
  BY DEF TypeOK, UserRow, GrantRow
<1>2. grant' = [grant EXCEPT ![g] = row] /\ status' = [st EXCEPT ![g] = "PENDING"] /\ age' = age
  BY DEF AddGrant
<1> HIDE DEF row
<1>3. /\ grant' \in [Grants -> GrantRow \union {None}]
      /\ grant'[g] = row
      /\ \A h \in Grants \ {g} : grant'[h] = grant[h]
  BY <1>1, <1>2 DEF TypeOK
<1>4. /\ status' \in [Grants -> Statuses]
      /\ status'[g] = "PENDING"
      /\ \A h \in Grants \ {g} : status'[h] = st[h]
  BY <1>2 DEF Statuses
<1> QED
  BY <1>1, <1>2, <1>3, <1>4 DEF row

LEMMA PrunedType ==
    ASSUME TypeOK
    PROVE  Pruned \in [Grants -> Statuses]
BY DEF TypeOK, Pruned, Statuses, Terminal

LEMMA RevokeType ==
    ASSUME NEW st \in [Grants -> Statuses], NEW G
    PROVE  Revoke(st, G) \in [Grants -> Statuses]
BY DEF Revoke, Statuses, Terminal

LEMMA InitType == Init => TypeOK
<1> SUFFICES ASSUME Init PROVE TypeOK
    OBVIOUS
<1>1. user \in [Users -> UserRow]
  <2>1. 0 \in 0 .. MaxEpoch
    BY BoundAssumption
  <2>2. [role : Roles, enabled : {TRUE}, authn : {0}, authz : {0}] \subseteq UserRow
    BY <2>1 DEF UserRow
  <2> QED
    BY <2>2 DEF Init
<1>2. QED
  BY <1>1, BoundAssumption DEF Init, TypeOK, Phases, Statuses

LEMMA StepType == TypeOK /\ RowsOK /\ [Next]_vars => TypeOK'
<1> SUFFICES ASSUME TypeOK, RowsOK, [Next]_vars PROVE TypeOK'
    OBVIOUS
<1> USE BoundAssumption, NoneAssumption, PrunedType, RevokeType
<1> USE DEF screenVars, grantVars, attemptVars, credentialVars, replayVars
<1>1. ASSUME NEW u \in Users, OperatorStep(u) PROVE TypeOK'
  <2>1. ASSUME NEW s \in Screens, CreateScreen(u, s) PROVE TypeOK'
    BY <2>1 DEF CreateScreen, TypeOK, Phases
  <2>2. ASSUME NEW s \in Screens, NEW q \in RequestKeys, NEW g \in Grants,
               RequestEnrollment(u, s, q, g)
        PROVE TypeOK'
    <3>1. Revoke(Pruned, {h \in GrantsFor(s, {"NEW_SCREEN"}) : status[h] = "PENDING"})
             \in [Grants -> Statuses]
      OBVIOUS
    <3>2. /\ grant' \in [Grants -> GrantRow \union {None}]
          /\ status' \in [Grants -> Statuses]
          /\ age' = age
      BY <2>2, <3>1, AddGrantRow DEF RequestEnrollment, Purposes
    <3> QED
      BY <2>2, <3>2 DEF RequestEnrollment, TypeOK, CreateRow, Unbound, AttemptsOf, Issued
  <2>3. ASSUME NEW q \in RequestKeys, ReplayEnrollmentRequest(u, q) PROVE TypeOK'
    BY <2>3 DEF ReplayEnrollmentRequest, TypeOK
  <2>4. ASSUME NEW s \in Screens, NEW g \in Grants, RequestReenrollment(u, s, g)
        PROVE TypeOK'
    <3>1. Revoke(Pruned, {h \in GrantsFor(s, {"REENROLL"}) : Pruned[h] = "PENDING"})
             \in [Grants -> Statuses]
      OBVIOUS
    <3>2. generation[s] + 1 \in 0 .. MaxGeneration
      BY <2>4 DEF RequestReenrollment, TypeOK
    <3>3. /\ grant' \in [Grants -> GrantRow \union {None}]
          /\ status' \in [Grants -> Statuses]
          /\ age' = age
      BY <2>4, <3>1, <3>2, AddGrantRow DEF RequestReenrollment, Purposes
    <3> QED
      BY <2>4, <3>2, <3>3
         DEF RequestReenrollment, TypeOK, AttemptsOf, Issued, LiveKeys, CredentialsOf
  <2>5. ASSUME NEW g \in Grants, CancelGrant(u, g) PROVE TypeOK'
    BY <2>5 DEF CancelGrant, TypeOK, Unbound, AttemptsOf, Issued
  <2>6. ASSUME NEW a \in Attempts, NEW q \in RequestKeys, ActivateEnrollment(u, a, q)
        PROVE TypeOK'
    <3>1. /\ Activatable(a, "NEW_SCREEN")
          /\ InstallCandidate(a, grant[attempt[a].grant].screen, 1)
      BY <2>6 DEF ActivateEnrollment
    <3> QED
      BY ZenonT(60), <2>6, <3>1, InstallType
         DEF ActivateEnrollment, TypeOK, ActivateRow, Statuses, Terminal,
             Unbound, AttemptsOf, Issued
  <2>7. ASSUME NEW q \in RequestKeys, ReplayActivation(u, q) PROVE TypeOK'
    BY <2>7 DEF ReplayActivation, TypeOK
  <2>8. ASSUME NEW a \in Attempts, ActivateReenrollment(u, a) PROVE TypeOK'
    <3> DEFINE s == grant[attempt[a].grant].screen
    <3>1. Activatable(a, "REENROLL") /\ InstallCandidate(a, s, generation[s] + 1)
      BY <2>8 DEF ActivateReenrollment
    <3>2. s \in Screens
      BY <3>1 DEF RowsOK, GrantRow, Activatable, TypeOK, Issued, AttemptRow
    <3>3. generation[s] + 1 \in Nat
      BY <3>2 DEF TypeOK
    <3> QED
      BY <2>8, <3>1, <3>3, InstallType
         DEF ActivateReenrollment, TypeOK, Statuses, Terminal, Unbound, AttemptsOf, Issued
  <2>9. ASSUME NEW s \in Screens, RevokeCredential(u, s) PROVE TypeOK'
    BY <2>9 DEF RevokeCredential, TypeOK, AttemptsOf, Issued, LiveKeys, CredentialsOf
  <2>10. ASSUME NEW s \in Screens, DeleteScreen(u, s) PROVE TypeOK'
    BY <2>10 DEF DeleteScreen, TypeOK, Phases, AttemptsOf, Issued, CredentialsOf
  <2> QED
    BY <1>1, <2>1, <2>2, <2>3, <2>4, <2>5, <2>6, <2>7, <2>8, <2>9, <2>10 DEF OperatorStep
<1>2. ASSUME NEW u \in Users, IdentityStep(u) PROVE TypeOK'
  <2>1. ASSUME user' \in [Users -> UserRow], RevokePendingIssuerGrants(u) PROVE TypeOK'
    BY <2>1 DEF RevokePendingIssuerGrants, TypeOK, Unbound, AttemptsOf, Issued
  <2>2. CASE RotatePassword(u)
    BY <2>1, <2>2 DEF RotatePassword, BelowEpochBound, TypeOK, UserRow
  <2>3. CASE DisableUser(u)
    BY <2>1, <2>3 DEF DisableUser, BelowEpochBound, TypeOK, UserRow
  <2>4. ASSUME NEW role \in Roles, ChangeRole(u, role) PROVE TypeOK'
    BY <2>1, <2>4 DEF ChangeRole, BelowEpochBound, TypeOK, UserRow
  <2>5. CASE RemoveMembership(u)
    BY <2>1, <2>5 DEF RemoveMembership, BelowEpochBound, TypeOK, UserRow
  <2> QED
    BY <1>2, <2>2, <2>3, <2>4, <2>5 DEF IdentityStep
<1>3. ASSUME DeviceStep PROVE TypeOK'
  <2>1. ASSUME NEW a \in Attempts, NEW g \in Grants, NEW k \in Keys, IssueAttempt(a, g, k)
        PROVE TypeOK'
    BY <2>1 DEF IssueAttempt, TypeOK, AttemptRow
  <2>2. ASSUME NEW a \in Attempts, ProveCandidate(a) PROVE TypeOK'
    BY <2>2 DEF ProveCandidate, TypeOK
  <2> QED
    BY <1>3, <2>1, <2>2 DEF DeviceStep
<1>4. ASSUME ClockStep PROVE TypeOK'
  <2>1. ASSUME NEW g \in Grants, GrantDeadline(g) PROVE TypeOK'
    BY <2>1 DEF GrantDeadline, TypeOK
  <2>2. ASSUME NEW a \in Attempts, AttemptDeadline(a) PROVE TypeOK'
    BY <2>2 DEF AttemptDeadline, TypeOK, Issued
  <2> QED
    BY <1>4, <2>1, <2>2 DEF ClockStep
<1>5. CASE UNCHANGED vars
  BY <1>5 DEF vars, TypeOK
<1> QED
  BY <1>1, <1>2, <1>3, <1>4, <1>5 DEF Next

-----------------------------------------------------------------------------
(* What a step does to the rows of grants *)

LEMMA PrunedRow ==
    ASSUME TypeOK, NEW g \in Grants
    PROVE  \/ Pruned[g] = status[g]
           \/ status[g] = "PENDING" /\ age[g] >= Lapsed /\ Pruned[g] \in {"EXPIRED", "DELETED"}
           \/ status[g] \in Terminal /\ Pruned[g] = "DELETED"
BY DEF TypeOK, Pruned, Statuses, Terminal

LEMMA RevokeRow ==
    ASSUME NEW st, NEW G, NEW g \in Grants
    PROVE  /\ g \notin G => Revoke(st, G)[g] = st[g]
           /\ g \in G => Revoke(st, G)[g] = IF st[g] = "DELETED" THEN "DELETED" ELSE "REVOKED"
BY DEF Revoke

(* Legal moves of a grant's status: a row is created pending, leaves PENDING
   once, and a claimed row can only be purged.  The columns of a row are
   never rewritten. *)
StatusMove(g) ==
    /\ status[g] = "NONE" => status'[g] \in {"NONE", "PENDING"}
    /\ status'[g] = "NONE" => status[g] = "NONE"
    /\ status[g] = "CLAIMED" => status'[g] \in {"CLAIMED", "DELETED"}
    /\ status[g] = "DELETED" => status'[g] = "DELETED"
    /\ status'[g] = "PENDING" => status[g] \in {"NONE", "PENDING"}
    /\ status[g] # "NONE" => grant'[g] = grant[g]

(* A new grant captures its issuer's authority and the Screen's generation,
   and leaves the Screen without a live key. *)
NewGrantCaptures(g) ==
    status[g] = "NONE" /\ status'[g] = "PENDING" =>
        /\ grant'[g] \in GrantRow
        /\ IssuerCurrent(g)'
        /\ phase'[grant'[g].screen] = "ACTIVE"
        /\ grant'[g].expected = generation'[grant'[g].screen]
        /\ LiveKeys(grant[g].screen)' = {}

LEMMA GrantStep ==
    ASSUME TypeOK, RowsOK, [Next]_vars, NEW g \in Grants
    PROVE  StatusMove(g) /\ NewGrantCaptures(g)
<1> USE PrunedRow, RevokeRow, PrunedType, RevokeType
<1> USE DEF StatusMove, screenVars, grantVars, attemptVars, credentialVars, replayVars
<1>1. ASSUME NEW u \in Users, OperatorStep(u) PROVE StatusMove(g) /\ NewGrantCaptures(g)
  <2>1. ASSUME NEW s \in Screens, CreateScreen(u, s) PROVE StatusMove(g) /\ NewGrantCaptures(g)
    BY <2>1 DEF CreateScreen, NewGrantCaptures
  <2>2. ASSUME NEW s \in Screens, NEW q \in RequestKeys, NEW h \in Grants,
               RequestEnrollment(u, s, q, h)
        PROVE StatusMove(g) /\ NewGrantCaptures(g)
    <3> DEFINE st == Revoke(Pruned, {f \in GrantsFor(s, {"NEW_SCREEN"}) : status[f] = "PENDING"})
    <3>1. /\ st \in [Grants -> Statuses] /\ 0 \in 0 .. MaxGeneration
          /\ AddGrant(h, "NEW_SCREEN", s, 0, u, st)
      BY <2>2, BoundAssumption DEF RequestEnrollment
    <3>2. status[h] = "NONE" /\ Staff(u) /\ Eligible(s)
          /\ UNCHANGED <<user, phase, generation, home, revoked>>
      BY <2>2 DEF RequestEnrollment, NextGrant
    <3>3. CASE g = h
      <4>1. /\ grant'[g] \in GrantRow /\ grant'[g].screen = s /\ grant'[g].expected = 0
            /\ grant'[g].issuer = u /\ status'[g] = "PENDING"
            /\ grant'[g].authn = user'[u].authn /\ grant'[g].authz = user'[u].authz
        BY <3>1, <3>2, <3>3, AddGrantRow DEF Purposes
      <4>2. IssuerCurrent(g)'
        BY <3>2, <4>1 DEF IssuerCurrent, Staff
      <4>3. LiveKeys(s)' = {} /\ generation'[s] = 0 /\ phase'[s] = "ACTIVE"
        BY <3>2 DEF Eligible, LiveKeys, CredentialsOf
      <4> QED
        BY <3>2, <3>3, <4>1, <4>2, <4>3 DEF NewGrantCaptures
    <3>4. CASE g # h
      <4>1. st[g] # "PENDING" \/ st[g] = status[g]
        OBVIOUS
      <4>2. status'[g] = st[g] /\ grant'[g] = grant[g]
        BY <3>1, <3>4, AddGrantRow DEF Purposes
      <4>3. StatusMove(g)
        BY <4>2 DEF Terminal, GrantsFor
      <4> QED
        BY <4>1, <4>2, <4>3 DEF NewGrantCaptures
    <3> QED
      BY <3>3, <3>4
  <2>4. ASSUME NEW s \in Screens, NEW h \in Grants, RequestReenrollment(u, s, h)
        PROVE StatusMove(g) /\ NewGrantCaptures(g)
    <3> DEFINE st == Revoke(Pruned, {f \in GrantsFor(s, {"REENROLL"}) : Pruned[f] = "PENDING"})
    <3>1. /\ st \in [Grants -> Statuses] /\ generation[s] + 1 \in 0 .. MaxGeneration
          /\ AddGrant(h, "REENROLL", s, generation[s] + 1, u, st)
      BY <2>4, BoundAssumption DEF RequestReenrollment, TypeOK
    <3>2. /\ status[h] = "NONE" /\ Staff(u) /\ phase[s] = "ACTIVE"
          /\ UNCHANGED <<user, phase, home>> /\ revoked' = revoked \union LiveKeys(s)
          /\ generation'[s] = generation[s] + 1
      BY <2>4 DEF RequestReenrollment, NextGrant, TypeOK
    <3>3. CASE g = h
      <4>1. /\ grant'[g] \in GrantRow /\ grant'[g].screen = s
            /\ grant'[g].expected = generation'[s]
            /\ grant'[g].issuer = u /\ status'[g] = "PENDING"
            /\ grant'[g].authn = user'[u].authn /\ grant'[g].authz = user'[u].authz
        BY <3>1, <3>2, <3>3, AddGrantRow DEF Purposes
      <4>2. IssuerCurrent(g)'
        BY <3>2, <4>1 DEF IssuerCurrent, Staff
      <4>3. LiveKeys(s)' = {}
        BY <3>2 DEF LiveKeys, CredentialsOf
      <4> QED
        BY <3>2, <3>3, <4>1, <4>2, <4>3 DEF NewGrantCaptures
    <3>4. CASE g # h
      <4>1. st[g] # "PENDING" \/ st[g] = status[g]
        OBVIOUS
      <4>2. status'[g] = st[g] /\ grant'[g] = grant[g]
        BY <3>1, <3>4, AddGrantRow DEF Purposes
      <4>3. StatusMove(g)
        BY <4>2 DEF Terminal, GrantsFor
      <4> QED
        BY <4>1, <4>2, <4>3 DEF NewGrantCaptures
    <3> QED
      BY <3>3, <3>4
  <2>5. ASSUME NEW h \in Grants, CancelGrant(u, h) PROVE StatusMove(g) /\ NewGrantCaptures(g)
    BY <2>5 DEF CancelGrant, NewGrantCaptures
  <2>6. ASSUME NEW a \in Attempts, NEW q \in RequestKeys, ActivateEnrollment(u, a, q)
        PROVE StatusMove(g) /\ NewGrantCaptures(g)
    <3> DEFINE f == attempt[a].grant
               claimed == [Pruned EXCEPT ![f] = "CLAIMED"]
               others == {h \in GrantsFor(grant[f].screen, Purposes) : claimed[h] = "PENDING"}
    <3>1. /\ status[f] = "PENDING" /\ age[f] < Lapsed /\ grant' = grant
          /\ status' = Revoke(claimed, others)
      BY <2>6 DEF ActivateEnrollment, Activatable
    <3>2. claimed[g] = IF g = f THEN "CLAIMED" ELSE Pruned[g]
      BY DEF TypeOK
    <3>3. g \in others => claimed[g] = "PENDING"
      OBVIOUS
    <3> HIDE DEF claimed, others
    <3>4. /\ g \notin others => status'[g] = claimed[g]
          /\ g \in others => status'[g] = "REVOKED"
      BY <3>1, <3>3, RevokeRow
    <3>5. StatusMove(g)
      <4>1. CASE g \in others
        <5>1. Pruned[g] = "PENDING" /\ status[g] = "PENDING"
          BY <3>2, <3>3, <4>1, PrunedRow DEF Terminal
        <5> QED BY <3>1, <3>4, <4>1, <5>1
      <4>2. CASE g \notin others /\ g = f
        BY <3>1, <3>2, <3>4, <4>2
      <4>3. CASE g \notin others /\ g # f
        <5>1. status'[g] = Pruned[g]
          BY <3>2, <3>4, <4>3
        <5> QED BY <3>1, <5>1, PrunedRow DEF Terminal
      <4> QED BY <4>1, <4>2, <4>3
    <3>6. ~(status[g] = "NONE" /\ status'[g] = "PENDING")
      <4>1. Pruned[g] = "PENDING" => status[g] = "PENDING"
        BY PrunedRow DEF Terminal
      <4> QED BY <3>2, <3>3, <3>4, <4>1
    <3> QED
      BY <3>5, <3>6 DEF NewGrantCaptures
  <2>7. ASSUME NEW q \in RequestKeys, ReplayActivation(u, q) \/ ReplayEnrollmentRequest(u, q)
        PROVE StatusMove(g) /\ NewGrantCaptures(g)
    BY <2>7 DEF ReplayActivation, ReplayEnrollmentRequest, NewGrantCaptures, Terminal
  <2>8. ASSUME NEW a \in Attempts, ActivateReenrollment(u, a)
        PROVE StatusMove(g) /\ NewGrantCaptures(g)
    <3> DEFINE f == attempt[a].grant
               claimed == [status EXCEPT ![f] = "CLAIMED"]
               others == {h \in GrantsFor(grant[f].screen, Purposes) : claimed[h] = "PENDING"}
    <3>1. /\ status[f] = "PENDING" /\ grant' = grant
          /\ status' = Revoke(claimed, others)
      BY <2>8 DEF ActivateReenrollment, Activatable
    <3>2. claimed[g] = IF g = f THEN "CLAIMED" ELSE status[g]
      BY DEF TypeOK
    <3>3. g \in others => claimed[g] = "PENDING" /\ status[g] = "PENDING"
      BY <3>2
    <3> HIDE DEF claimed, others
    <3>4. \/ status'[g] = status[g]
          \/ status[g] = "PENDING" /\ status'[g] \in {"CLAIMED", "REVOKED"}
      <4>1. /\ g \notin others => status'[g] = claimed[g]
            /\ g \in others => status'[g] = "REVOKED"
        BY <3>1, <3>3, RevokeRow
      <4>2. CASE g \in others
        BY <3>3, <4>1, <4>2
      <4>3. CASE g \notin others
        BY <3>1, <3>2, <4>1, <4>3
      <4> QED
        BY <4>2, <4>3
    <3> QED
      BY <3>1, <3>4 DEF NewGrantCaptures
  <2>9. ASSUME NEW s \in Screens, RevokeCredential(u, s) PROVE StatusMove(g) /\ NewGrantCaptures(g)
    BY <2>9 DEF RevokeCredential, NewGrantCaptures
  <2>10. ASSUME NEW s \in Screens, DeleteScreen(u, s) PROVE StatusMove(g) /\ NewGrantCaptures(g)
    BY <2>10 DEF DeleteScreen, NewGrantCaptures
  <2> QED
    BY <1>1, <2>1, <2>2, <2>4, <2>5, <2>6, <2>7, <2>8, <2>9, <2>10 DEF OperatorStep
<1>2. ASSUME NEW u \in Users, IdentityStep(u) PROVE StatusMove(g) /\ NewGrantCaptures(g)
  <2>1. RevokePendingIssuerGrants(u)
    BY <1>2 DEF IdentityStep, RotatePassword, DisableUser, ChangeRole, RemoveMembership
  <2> QED
    BY <2>1 DEF RevokePendingIssuerGrants, NewGrantCaptures
<1>3. CASE DeviceStep \/ ClockStep \/ UNCHANGED vars
  BY <1>3 DEF DeviceStep, ClockStep, IssueAttempt, ProveCandidate, GrantDeadline,
              AttemptDeadline, NewGrantCaptures, vars
<1> QED
  BY <1>1, <1>2, <1>3 DEF Next

LEMMA RowsStep == TypeOK /\ RowsOK /\ [Next]_vars => RowsOK'
<1> SUFFICES ASSUME TypeOK, RowsOK, [Next]_vars, NEW g \in Grants, status'[g] # "NONE"
             PROVE  grant'[g] \in GrantRow
    BY DEF RowsOK
<1>1. StatusMove(g) /\ NewGrantCaptures(g)
  BY GrantStep
<1>2. CASE status[g] = "NONE"
  BY <1>1, <1>2 DEF StatusMove, NewGrantCaptures
<1>3. CASE status[g] # "NONE"
  BY <1>1, <1>3 DEF StatusMove, RowsOK
<1> QED
  BY <1>2, <1>3

(* Every state has the types the module declares: no operation writes a
   status, an epoch or a generation outside its column's range, and no grant
   loses its columns. *)
THEOREM TypeCorrect == Spec => []TypeOK
<1>1. Init => TypeOK /\ RowsOK
  BY InitType DEF Init, RowsOK
<1>2. TypeOK /\ RowsOK /\ [Next]_vars => (TypeOK /\ RowsOK)'
  BY StepType, RowsStep
<1> QED
  BY <1>1, <1>2, PTL DEF Spec

(* A grant that was ever issued keeps its purpose, Screen, captured generation,
   issuer and epochs, whatever happens to its status. *)
THEOREM RowsCorrect == Spec => [](TypeOK /\ RowsOK)
<1>1. Init => TypeOK /\ RowsOK
  BY InitType DEF Init, RowsOK
<1>2. TypeOK /\ RowsOK /\ [Next]_vars => (TypeOK /\ RowsOK)'
  BY StepType, RowsStep
<1> QED
  BY <1>1, <1>2, PTL DEF Spec

-----------------------------------------------------------------------------
(* A pending grant never outlives its issuer's authority *)

(* A step that leaves a grant pending leaves its issuer's user row alone. *)
LEMMA IdentityStepRevokes ==
    ASSUME TypeOK, [Next]_vars, NEW g \in Grants, grant[g] \in GrantRow,
           status[g] = "PENDING", status'[g] = "PENDING"
    PROVE  user'[grant[g].issuer] = user[grant[g].issuer]
<1> DEFINE issuer == grant[g].issuer
<1>1. issuer \in Users
  BY DEF GrantRow
<1>2. ASSUME NEW u \in Users, OperatorStep(u) PROVE user' = user
  BY <1>2 DEF OperatorStep, CreateScreen, RequestEnrollment, ReplayEnrollmentRequest,
              RequestReenrollment, CancelGrant, ActivateEnrollment, ReplayActivation,
              ActivateReenrollment, RevokeCredential, DeleteScreen
<1>3. ASSUME NEW u \in Users, IdentityStep(u) PROVE user'[issuer] = user[issuer]
  <2>1. RevokePendingIssuerGrants(u)
    BY <1>3 DEF IdentityStep, RotatePassword, DisableUser, ChangeRole, RemoveMembership
  <2>2. issuer # u
    BY <2>1 DEF RevokePendingIssuerGrants, Revoke
  <2>3. \A v \in Users \ {u} : user'[v] = user[v]
    BY <1>3 DEF IdentityStep, RotatePassword, DisableUser, ChangeRole, RemoveMembership, TypeOK
  <2> QED
    BY <1>1, <2>2, <2>3
<1>4. CASE DeviceStep \/ ClockStep \/ UNCHANGED vars
  BY <1>4 DEF DeviceStep, ClockStep, IssueAttempt, ProveCandidate, GrantDeadline,
              AttemptDeadline, vars
<1> QED
  BY <1>2, <1>3, <1>4 DEF Next

LEMMA IssuerStep ==
    TypeOK /\ RowsOK /\ PendingGrantHasCurrentIssuer /\ [Next]_vars
        => PendingGrantHasCurrentIssuer'
<1> SUFFICES ASSUME TypeOK, RowsOK, PendingGrantHasCurrentIssuer, [Next]_vars,
                    NEW g \in Grants, status'[g] = "PENDING"
             PROVE  IssuerCurrent(g)'
    BY DEF PendingGrantHasCurrentIssuer
<1>1. StatusMove(g) /\ NewGrantCaptures(g)
  BY GrantStep
<1>2. CASE status[g] = "NONE"
  BY <1>1, <1>2 DEF NewGrantCaptures
<1>3. CASE status[g] = "PENDING"
  <2>1. grant[g] \in GrantRow /\ grant'[g] = grant[g]
    BY <1>1, <1>3 DEF StatusMove, RowsOK
  <2>2. user'[grant[g].issuer] = user[grant[g].issuer]
    BY <1>3, <2>1, IdentityStepRevokes
  <2> QED
    BY <1>3, <2>1, <2>2 DEF PendingGrantHasCurrentIssuer, IssuerCurrent, Staff
<1> QED
  BY <1>1, <1>2, <1>3 DEF StatusMove

(* For every number of operators, Screens and grants, no pending grant, lapsed
   or not, has an issuer whose membership, role or epochs changed since. *)
THEOREM PendingIssuerCorrect == Spec => []PendingGrantHasCurrentIssuer
<1>1. Init => PendingGrantHasCurrentIssuer
  BY DEF Init, PendingGrantHasCurrentIssuer
<1>2. Spec => [](TypeOK /\ RowsOK)
  BY RowsCorrect
<1> QED
  BY <1>1, <1>2, IssuerStep, PTL DEF Spec

=============================================================================
