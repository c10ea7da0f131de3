----------------------- MODULE EnrollmentWinner_proofs -----------------------
(* Which candidate wins, and what that means for the live key of a Screen. *)
EXTENDS DeviceEnrollment_proofs, FiniteSetTheorems

-----------------------------------------------------------------------------
(* The three things a step can do to the identities of Screens *)

(* No identity changes; a Screen may have been created. *)
KeepIdentities ==
    /\ UNCHANGED <<generation, installation, home, revoked, tombstone, activated>>
    /\ \/ phase' = phase
       \/ \E s \in Screens : phase[s] = "UNCREATED" /\ phase' = [phase EXCEPT ![s] = "ACTIVE"]

(* The identity of s ends, by a new generation or with the Screen. *)
EndIdentity(s) ==
    /\ phase[s] = "ACTIVE"
    /\ revoked' = revoked \union LiveKeys(s)
    /\ UNCHANGED <<home, tombstone, activated>>
    /\ \/ /\ generation[s] < MaxGeneration
          /\ generation' = [generation EXCEPT ![s] = @ + 1]
          /\ UNCHANGED <<phase, installation>>
       \/ /\ phase' = [phase EXCEPT ![s] = "DELETED"]
          /\ installation' = [installation EXCEPT ![s] = None]
          /\ UNCHANGED generation

(* Candidate a wins generation grant.expected of its Screen. *)
Win(a) ==
    LET g == attempt[a].grant
        s == grant[g].screen
        k == attempt[a].key
    IN  /\ a \in Issued
        /\ status[g] = "PENDING"
        /\ status'[g] = "CLAIMED"
        /\ a \notin cancelled /\ a \notin activated
        /\ phase[s] = "ACTIVE"
        /\ grant[g].expected = generation[s]
        /\ generation[s] < MaxGeneration
        /\ k \notin tombstone
        /\ tombstone' = tombstone \union {k}
        /\ home' = [home EXCEPT ![k] = s]
        /\ installation' = [installation EXCEPT ![s] = k]
        /\ generation' = [generation EXCEPT ![s] = @ + 1]
        /\ activated' = activated \union {a}
        /\ cancelled' \intersect {a} = {}
        /\ UNCHANGED <<phase, revoked, attempt>>

LEMMA ActivateEnrollmentWins ==
    ASSUME TypeOK, RowsOK, NEW u \in Users, NEW a \in Attempts, NEW q \in RequestKeys,
           ActivateEnrollment(u, a, q)
    PROVE  Win(a)
<1> DEFINE g == attempt[a].grant
           s == grant[g].screen
           claimed == [Pruned EXCEPT ![g] = "CLAIMED"]
           competitors == {h \in GrantsFor(s, Purposes) : claimed[h] = "PENDING"}
<1>1. /\ Activatable(a, "NEW_SCREEN") /\ Eligible(s) /\ InstallCandidate(a, s, 1)
      /\ status' = Revoke(claimed, competitors) /\ attempt' = attempt
      /\ cancelled' = cancelled \union (Unbound(competitors \union {g}) \ {a})
  BY DEF ActivateEnrollment
<1>2. g \in Grants /\ s \in Screens
  BY <1>1 DEF Activatable, TypeOK, Issued, AttemptRow, RowsOK, GrantRow
<1>3. claimed[g] = "CLAIMED"
  BY <1>2, PrunedType
<1>4. g \notin competitors
  BY <1>3
<1> HIDE DEF claimed, competitors
<1>5. status'[g] = "CLAIMED"
  BY <1>1, <1>2, <1>3, <1>4, RevokeRow
<1>6. generation[s] = 0 /\ generation' = [generation EXCEPT ![s] = 1] /\ 1 <= MaxGeneration
  BY <1>1 DEF Eligible, InstallCandidate
<1>7. generation' = [generation EXCEPT ![s] = @ + 1] /\ generation[s] < MaxGeneration
  BY <1>2, <1>6, BoundAssumption DEF TypeOK
<1> QED
  BY <1>1, <1>5, <1>7 DEF Win, Activatable, InstallCandidate

LEMMA ActivateReenrollmentWins ==
    ASSUME TypeOK, RowsOK, NEW u \in Users, NEW a \in Attempts, ActivateReenrollment(u, a)
    PROVE  Win(a)
<1> DEFINE g == attempt[a].grant
           s == grant[g].screen
           claimed == [status EXCEPT ![g] = "CLAIMED"]
           others == {h \in GrantsFor(s, Purposes) : claimed[h] = "PENDING"}
<1>1. /\ Activatable(a, "REENROLL") /\ InstallCandidate(a, s, generation[s] + 1)
      /\ status' = Revoke(claimed, others) /\ attempt' = attempt
      /\ cancelled' = cancelled \union (Unbound(others \union {g}) \ {a})
  BY DEF ActivateReenrollment
<1>2. g \in Grants /\ s \in Screens
  BY <1>1 DEF Activatable, TypeOK, Issued, AttemptRow, RowsOK, GrantRow
<1>3. claimed[g] = "CLAIMED"
  BY <1>2 DEF TypeOK
<1>4. g \notin others
  BY <1>3
<1> HIDE DEF claimed, others
<1>5. status'[g] = "CLAIMED"
  BY <1>1, <1>2, <1>3, <1>4, RevokeRow
<1>6. generation' = [generation EXCEPT ![s] = generation[s] + 1] /\ generation[s] + 1 <= MaxGeneration
  BY <1>1 DEF InstallCandidate
<1>7. generation' = [generation EXCEPT ![s] = @ + 1] /\ generation[s] < MaxGeneration
  BY <1>2, <1>6, BoundAssumption DEF TypeOK
<1> QED
  BY <1>1, <1>5, <1>7 DEF Win, Activatable, InstallCandidate

LEMMA StepKinds ==
    ASSUME TypeOK, RowsOK, [Next]_vars
    PROVE  \/ KeepIdentities
           \/ \E s \in Screens : EndIdentity(s)
           \/ \E a \in Attempts : Win(a)
<1> USE DEF screenVars, grantVars, attemptVars, credentialVars, replayVars
<1>1. ASSUME NEW u \in Users, OperatorStep(u)
      PROVE  \/ KeepIdentities
             \/ \E s \in Screens : EndIdentity(s)
             \/ \E a \in Attempts : Win(a)
  <2>1. ASSUME NEW s \in Screens, CreateScreen(u, s) PROVE KeepIdentities
    BY <2>1 DEF CreateScreen, KeepIdentities
  <2>2. ASSUME NEW s \in Screens, NEW q \in RequestKeys, NEW g \in Grants,
               RequestEnrollment(u, s, q, g)
        PROVE  KeepIdentities
    BY <2>2 DEF RequestEnrollment, KeepIdentities
  <2>3. ASSUME NEW s \in Screens, NEW g \in Grants, RequestReenrollment(u, s, g)
        PROVE  EndIdentity(s)
    BY <2>3 DEF RequestReenrollment, EndIdentity
  <2>4. ASSUME NEW g \in Grants, CancelGrant(u, g) PROVE KeepIdentities
    BY <2>4 DEF CancelGrant, KeepIdentities
  <2>5. ASSUME NEW q \in RequestKeys, ReplayActivation(u, q) \/ ReplayEnrollmentRequest(u, q)
        PROVE  KeepIdentities
    BY <2>5 DEF ReplayActivation, ReplayEnrollmentRequest, KeepIdentities
  <2>6. ASSUME NEW s \in Screens, RevokeCredential(u, s) PROVE EndIdentity(s)
    BY <2>6 DEF RevokeCredential, EndIdentity
  <2>7. ASSUME NEW s \in Screens, DeleteScreen(u, s) PROVE EndIdentity(s)
    <3>1. revoked \union CredentialsOf(s) = revoked \union LiveKeys(s)
      BY DEF LiveKeys
    <3> QED
      BY <2>7, <3>1 DEF DeleteScreen, EndIdentity
  <2> QED
    BY <1>1, <2>1, <2>2, <2>3, <2>4, <2>5, <2>6, <2>7, ActivateEnrollmentWins,
       ActivateReenrollmentWins DEF OperatorStep
<1>2. ASSUME NEW u \in Users, IdentityStep(u) PROVE KeepIdentities
  BY <1>2 DEF IdentityStep, RotatePassword, DisableUser, ChangeRole, RemoveMembership,
              RevokePendingIssuerGrants, KeepIdentities
<1>3. CASE DeviceStep \/ ClockStep \/ UNCHANGED vars
  BY <1>3 DEF DeviceStep, ClockStep, IssueAttempt, ProveCandidate, GrantDeadline,
              AttemptDeadline, vars, KeepIdentities
<1> QED
  BY <1>1, <1>2, <1>3 DEF Next

-----------------------------------------------------------------------------
(* Attempts *)

(* Whatever is recorded about an attempt is recorded about an issued one, and
   an issued attempt answers a grant that was issued. *)
AttemptsKnown ==
    /\ proved \subseteq Issued
    /\ cancelled \subseteq Issued
    /\ activated \subseteq Issued
    /\ \A a \in Issued : attempt[a].grant \in Grants /\ status[attempt[a].grant] # "NONE"

LEMMA AttemptKept ==
    ASSUME TypeOK, [Next]_vars, NEW a \in Issued
    PROVE  attempt'[a] = attempt[a] /\ a \in Issued'
<1> USE DEF screenVars, grantVars, attemptVars, credentialVars, replayVars
<1>1. CASE attempt' = attempt
  BY <1>1 DEF Issued
<1>2. ASSUME NEW b \in Attempts, NEW g \in Grants, NEW k \in Keys, IssueAttempt(b, g, k)
      PROVE  attempt'[a] = attempt[a]
  BY <1>2 DEF IssueAttempt, NextAttempt, TypeOK, Issued
<1>3. (\E b \in Attempts, g \in Grants, k \in Keys : IssueAttempt(b, g, k)) \/ attempt' = attempt
  BY ZenonT(60) DEF Next, OperatorStep, IdentityStep, DeviceStep, ClockStep, CreateScreen,
         RequestEnrollment, ReplayEnrollmentRequest, RequestReenrollment, CancelGrant,
         ActivateEnrollment, ReplayActivation, ActivateReenrollment, RevokeCredential,
         DeleteScreen, RotatePassword, DisableUser, ChangeRole, RemoveMembership,
         RevokePendingIssuerGrants, ProveCandidate, GrantDeadline, AttemptDeadline, vars
<1> QED
  BY <1>1, <1>2, <1>3 DEF Issued

LEMMA AttemptsStep ==
    TypeOK /\ RowsOK /\ AttemptsKnown /\ [Next]_vars => AttemptsKnown'
<1> SUFFICES ASSUME TypeOK, RowsOK, AttemptsKnown, [Next]_vars
             PROVE  AttemptsKnown'
    OBVIOUS
<1> USE DEF screenVars, grantVars, attemptVars, credentialVars, replayVars
<1>1. Issued \subseteq Issued'
  BY AttemptKept
<1>2. activated' \subseteq Issued'
  <2>1. activated' = activated \/ \E a \in Attempts : a \in Issued /\ activated' = activated \union {a}
    BY StepKinds DEF KeepIdentities, EndIdentity, Win
  <2> QED
    BY <1>1, <2>1 DEF AttemptsKnown
<1>3. cancelled' \subseteq cancelled \union Issued
  BY ZenonT(60) DEF Next, OperatorStep, IdentityStep, DeviceStep, ClockStep, CreateScreen,
         RequestEnrollment, ReplayEnrollmentRequest, RequestReenrollment, CancelGrant,
         ActivateEnrollment, ReplayActivation, ActivateReenrollment, RevokeCredential,
         DeleteScreen, RotatePassword, DisableUser, ChangeRole, RemoveMembership,
         RevokePendingIssuerGrants, IssueAttempt, ProveCandidate, GrantDeadline,
         AttemptDeadline, vars, AttemptsOf, Unbound
<1>4. proved' = proved \/ \E a \in Issued : proved' = proved \union {a}
  BY ZenonT(60) DEF Next, OperatorStep, IdentityStep, DeviceStep, ClockStep, CreateScreen,
         RequestEnrollment, ReplayEnrollmentRequest, RequestReenrollment, CancelGrant,
         ActivateEnrollment, ReplayActivation, ActivateReenrollment, RevokeCredential,
         DeleteScreen, RotatePassword, DisableUser, ChangeRole, RemoveMembership,
         RevokePendingIssuerGrants, IssueAttempt, ProveCandidate, GrantDeadline,
         AttemptDeadline, vars
<1>5. ASSUME NEW a \in Issued' PROVE attempt'[a].grant \in Grants /\ status'[attempt'[a].grant] # "NONE"
  <2>1. CASE a \in Issued
    <3>1. attempt'[a] = attempt[a] /\ attempt[a].grant \in Grants
          /\ status[attempt[a].grant] # "NONE"
      BY <2>1, AttemptKept DEF AttemptsKnown
    <3> QED
      BY <3>1, GrantStep DEF StatusMove
  <2>2. CASE a \notin Issued
    <3>1. PICK b \in Attempts, g \in Grants, k \in Keys : IssueAttempt(b, g, k)
      <4>1. attempt' # attempt
        BY <2>2 DEF Issued
      <4> QED
        BY ZenonT(60), <4>1
           DEF Next, OperatorStep, IdentityStep, DeviceStep, ClockStep, CreateScreen,
         RequestEnrollment, ReplayEnrollmentRequest, RequestReenrollment, CancelGrant,
         ActivateEnrollment, ReplayActivation, ActivateReenrollment, RevokeCredential,
         DeleteScreen, RotatePassword, DisableUser, ChangeRole, RemoveMembership,
         RevokePendingIssuerGrants, ProveCandidate, GrantDeadline, AttemptDeadline, vars
    <3>2. a = b /\ attempt'[a] = [grant |-> g, key |-> k]
      BY <2>2, <3>1 DEF IssueAttempt, TypeOK, Issued
    <3> QED
      BY <3>1, <3>2 DEF IssueAttempt
  <2> QED
    BY <2>1, <2>2
<1> QED
  BY <1>1, <1>2, <1>3, <1>4, <1>5 DEF AttemptsKnown

-----------------------------------------------------------------------------
(* Winners *)

(* No grant is ahead of its Screen, a winner's Screen has moved past the
   generation the winner took, and the winner's grant is closed for good. *)
WinnerInv ==
    /\ \A g \in Grants : status[g] # "NONE" => grant[g].expected <= generation[grant[g].screen]
    /\ \A a \in activated :
           LET g == attempt[a].grant
           IN  /\ status[g] \in {"CLAIMED", "DELETED"}
               /\ grant[g].expected < generation[grant[g].screen]
    /\ WinnerNeverCancelled
    /\ OneWinnerPerGeneration

LEMMA GenerationStep ==
    ASSUME TypeOK, RowsOK, [Next]_vars, NEW s \in Screens
    PROVE  /\ generation[s] \in Nat /\ generation'[s] \in Nat
           /\ generation[s] <= generation'[s]
<1>1. generation[s] \in Nat
  BY DEF TypeOK
<1>2. CASE generation' = generation
  BY <1>1, <1>2
<1>3. ASSUME NEW t \in Screens, generation' = [generation EXCEPT ![t] = @ + 1]
      PROVE  generation'[s] \in {generation[s], generation[s] + 1}
  BY <1>3 DEF TypeOK
<1>4. generation' = generation \/ \E t \in Screens : generation' = [generation EXCEPT ![t] = @ + 1]
  <2>1. ASSUME NEW a \in Attempts, Win(a) PROVE grant[attempt[a].grant].screen \in Screens
    BY <2>1 DEF Win, TypeOK, Issued, AttemptRow, RowsOK, GrantRow
  <2> QED
    BY <2>1, StepKinds DEF KeepIdentities, EndIdentity, Win
<1> QED
  BY <1>1, <1>2, <1>3, <1>4

(* Bulk cancellations reach attempts that are not activated, or whose grant
   is still pending; the attempt that is being activated is left out. *)
LEMMA CancelStep ==
    ASSUME TypeOK, RowsOK, [Next]_vars, NEW a \in cancelled', a \notin cancelled
    PROVE  a \notin activated \/ status[attempt[a].grant] = "PENDING"
<1> USE DEF screenVars, grantVars, attemptVars, credentialVars, replayVars
<1>1. ASSUME NEW G, \A g \in G : status[g] = "PENDING", cancelled' = cancelled \union AttemptsOf(G)
      PROVE  status[attempt[a].grant] = "PENDING"
  BY <1>1 DEF AttemptsOf
<1>2. ASSUME NEW G, NEW B, cancelled' = cancelled \union (Unbound(G) \ B)
      PROVE  a \notin activated
  BY <1>2 DEF Unbound
<1>3. ASSUME NEW u \in Users, OperatorStep(u)
      PROVE  a \notin activated \/ status[attempt[a].grant] = "PENDING"
  <2>1. ASSUME NEW s \in Screens, NEW q \in RequestKeys, NEW g \in Grants,
               RequestEnrollment(u, s, q, g)
        PROVE  a \notin activated
    BY <2>1 DEF RequestEnrollment, Unbound
  <2>2. ASSUME NEW s \in Screens, NEW g \in Grants, RequestReenrollment(u, s, g)
        PROVE  status[attempt[a].grant] = "PENDING"
    <3> DEFINE superseded == {h \in GrantsFor(s, {"REENROLL"}) : Pruned[h] = "PENDING"}
    <3>1. \A h \in superseded : status[h] = "PENDING"
      BY PrunedRow DEF GrantsFor
    <3>2. cancelled' = cancelled \union AttemptsOf(superseded)
      BY <2>2 DEF RequestReenrollment
    <3> HIDE DEF superseded
    <3> QED
      BY <3>1, <3>2, <1>1
  <2>3. ASSUME NEW g \in Grants, CancelGrant(u, g) PROVE a \notin activated
    BY <2>3 DEF CancelGrant, Unbound
  <2>4. ASSUME NEW b \in Attempts, NEW q \in RequestKeys, ActivateEnrollment(u, b, q)
        PROVE  a \notin activated
    BY <2>4 DEF ActivateEnrollment, Unbound
  <2>5. ASSUME NEW b \in Attempts, ActivateReenrollment(u, b) PROVE a \notin activated
    BY <2>5 DEF ActivateReenrollment, Unbound
  <2>6. ASSUME NEW s \in Screens, RevokeCredential(u, s) PROVE status[attempt[a].grant] = "PENDING"
    BY <2>6 DEF RevokeCredential, AttemptsOf
  <2>7. ASSUME NEW s \in Screens, DeleteScreen(u, s) PROVE status[attempt[a].grant] = "PENDING"
    BY <2>7 DEF DeleteScreen, AttemptsOf
  <2> QED
    BY <1>3, <2>1, <2>2, <2>3, <2>4, <2>5, <2>6, <2>7
       DEF OperatorStep, CreateScreen, ReplayEnrollmentRequest, ReplayActivation
<1>4. ASSUME NEW u \in Users, IdentityStep(u) PROVE a \notin activated
  BY <1>4 DEF IdentityStep, RotatePassword, DisableUser, ChangeRole, RemoveMembership,
              RevokePendingIssuerGrants, Unbound
<1> QED
  BY <1>3, <1>4 DEF Next, DeviceStep, ClockStep, IssueAttempt, ProveCandidate, GrantDeadline,
                    AttemptDeadline, vars

LEMMA WinnerStep ==
    TypeOK /\ RowsOK /\ AttemptsKnown /\ WinnerInv /\ [Next]_vars => WinnerInv'
<1> SUFFICES ASSUME TypeOK, RowsOK, AttemptsKnown, WinnerInv, [Next]_vars
             PROVE  WinnerInv'
    OBVIOUS
<1>1. ASSUME NEW g \in Grants, status'[g] # "NONE"
      PROVE  grant'[g].expected <= generation'[grant'[g].screen]
  <2>1. StatusMove(g) /\ NewGrantCaptures(g)
    BY GrantStep
  <2>2. CASE status[g] = "NONE"
    <3>1. grant'[g].expected = generation'[grant'[g].screen] /\ grant'[g] \in GrantRow
      BY <1>1, <2>1, <2>2 DEF StatusMove, NewGrantCaptures
    <3>2. generation'[grant'[g].screen] \in Nat
      BY <3>1, GenerationStep DEF GrantRow
    <3> QED
      BY <3>1, <3>2
  <2>3. CASE status[g] # "NONE"
    <3>1. grant'[g] = grant[g] /\ grant[g] \in GrantRow
          /\ grant[g].expected <= generation[grant[g].screen]
      BY <2>1, <2>3 DEF StatusMove, RowsOK, WinnerInv
    <3>2. grant[g].screen \in Screens /\ grant[g].expected \in Nat
      BY <3>1, BoundAssumption DEF GrantRow
    <3> QED
      BY <3>1, <3>2, GenerationStep
  <2> QED
    BY <2>2, <2>3
(* Winners of earlier steps. *)
<1>2. ASSUME NEW a \in activated
      PROVE  LET g == attempt[a].grant
             IN  /\ a \in Issued /\ g \in Grants /\ attempt'[a] = attempt[a]
                 /\ grant[g] \in GrantRow /\ grant'[g] = grant[g]
                 /\ status'[g] \in {"CLAIMED", "DELETED"}
                 /\ grant[g].expected < generation[grant[g].screen]
                 /\ grant[g].expected < generation'[grant[g].screen]
                 /\ a \notin cancelled'
  <2> DEFINE g == attempt[a].grant
  <2>1. a \in Issued /\ g \in Grants /\ status[g] # "NONE" /\ attempt'[a] = attempt[a]
    BY AttemptKept DEF AttemptsKnown
  <2>2. grant[g] \in GrantRow /\ status[g] \in {"CLAIMED", "DELETED"}
        /\ grant[g].expected < generation[grant[g].screen]
    BY <2>1 DEF RowsOK, WinnerInv
  <2>3. grant'[g] = grant[g] /\ status'[g] \in {"CLAIMED", "DELETED"}
    BY <2>1, <2>2, GrantStep DEF StatusMove
  <2>4. grant[g].screen \in Screens /\ grant[g].expected \in Nat
    BY <2>2, BoundAssumption DEF GrantRow
  <2>5. grant[g].expected < generation'[grant[g].screen]
    BY <2>2, <2>4, GenerationStep
  <2>6. a \notin cancelled'
    BY <2>2, CancelStep DEF WinnerInv, WinnerNeverCancelled
  <2> QED
    BY <2>1, <2>2, <2>3, <2>5, <2>6
(* The winner of this step. *)
<1>3. ASSUME NEW a \in Attempts, Win(a)
      PROVE  LET g == attempt[a].grant
             IN  /\ a \in Issued /\ g \in Grants /\ attempt'[a] = attempt[a]
                 /\ grant[g] \in GrantRow /\ grant'[g] = grant[g]
                 /\ status'[g] = "CLAIMED"
                 /\ grant[g].expected = generation[grant[g].screen]
                 /\ grant[g].expected < generation'[grant[g].screen]
                 /\ a \notin cancelled'
  <2> DEFINE g == attempt[a].grant
  <2>1. a \in Issued /\ g \in Grants /\ status[g] = "PENDING" /\ attempt'[a] = attempt[a]
        /\ status'[g] = "CLAIMED" /\ grant[g].expected = generation[grant[g].screen]
        /\ generation' = [generation EXCEPT ![grant[g].screen] = @ + 1]
        /\ a \notin cancelled'
    BY <1>3 DEF Win, AttemptsKnown
  <2>2. grant[g] \in GrantRow /\ grant'[g] = grant[g]
    BY <2>1, GrantStep DEF RowsOK, StatusMove
  <2>3. grant[g].screen \in Screens
    BY <2>2 DEF GrantRow
  <2>4. grant[g].expected < generation'[grant[g].screen]
    BY <2>1, <2>3 DEF TypeOK
  <2> QED
    BY <2>1, <2>2, <2>4
<1>4. activated' = activated \/ \E a \in Attempts : Win(a) /\ activated' = activated \union {a}
  BY StepKinds DEF KeepIdentities, EndIdentity, Win
<1>5. ASSUME NEW a \in activated'
      PROVE  LET g == attempt'[a].grant
             IN  /\ status'[g] \in {"CLAIMED", "DELETED"}
                 /\ grant'[g].expected < generation'[grant'[g].screen]
                 /\ a \notin cancelled'
  BY <1>2, <1>3, <1>4
<1>6. WinnerNeverCancelled'
  BY <1>5 DEF WinnerNeverCancelled
<1>7. OneWinnerPerGeneration'
  <2> SUFFICES ASSUME NEW a \in activated', NEW b \in activated',
                      grant'[attempt'[a].grant].screen = grant'[attempt'[b].grant].screen,
                      grant'[attempt'[a].grant].expected = grant'[attempt'[b].grant].expected
               PROVE  a = b
      BY DEF OneWinnerPerGeneration
  <2>1. CASE a \in activated /\ b \in activated
    BY <1>2, <2>1 DEF WinnerInv, OneWinnerPerGeneration
  <2>2. ASSUME NEW c \in Attempts, Win(c), NEW d \in activated,
               grant'[attempt'[c].grant].screen = grant'[attempt'[d].grant].screen,
               grant'[attempt'[c].grant].expected = grant'[attempt'[d].grant].expected
        PROVE  FALSE
    <3> DEFINE g == attempt[c].grant
               h == attempt[d].grant
    <3>1. grant[g].expected = generation[grant[g].screen] /\ grant[h].expected < generation[grant[h].screen]
          /\ grant[g].screen = grant[h].screen /\ grant[g].expected = grant[h].expected
          /\ grant[g].screen \in Screens
      BY <1>2, <1>3, <2>2 DEF GrantRow
    <3>2. generation[grant[g].screen] \in Nat
      BY <3>1 DEF TypeOK
    <3> QED
      BY <3>1, <3>2
  <2> QED
    BY <1>4, <2>1, <2>2
<1> QED
  BY <1>1, <1>5, <1>6, <1>7 DEF WinnerInv

LEMMA WinnerInit == Init => TypeOK /\ RowsOK /\ AttemptsKnown /\ WinnerInv
<1> SUFFICES ASSUME Init PROVE RowsOK /\ AttemptsKnown /\ WinnerInv
    BY InitType
<1> QED
  BY DEF Init, RowsOK, AttemptsKnown, WinnerInv, WinnerNeverCancelled, OneWinnerPerGeneration, Issued

(* Of all candidates that ever compete for one generation of a Screen, in any
   number of grants and by any interleaving of operators, one is activated. *)
THEOREM OneWinnerCorrect == Spec => []OneWinnerPerGeneration
<1>1. WinnerInv => OneWinnerPerGeneration
  BY DEF WinnerInv
<1> QED
  BY <1>1, WinnerInit, StepType, RowsStep, AttemptsStep, WinnerStep, PTL DEF Spec

(* No bulk cancellation ever reaches a candidate that won. *)
THEOREM WinnerKeptCorrect == Spec => []WinnerNeverCancelled
<1>1. WinnerInv => WinnerNeverCancelled
  BY DEF WinnerInv
<1> QED
  BY <1>1, WinnerInit, StepType, RowsStep, AttemptsStep, WinnerStep, PTL DEF Spec

-----------------------------------------------------------------------------
(* The live key of a Screen *)

(* A key with a credential, revoked or not, is spent, so a winner's key has none. *)
KeysSpent ==
    /\ \A k \in Keys : home[k] # None => k \in tombstone
    /\ revoked \subseteq tombstone

KeyInv == KeysSpent /\ ReplacementFollowsContainment /\ LiveKeyIsActivatedCandidate

(* The columns a winner's step reads have their types. *)
LEMMA WinnerRow ==
    ASSUME TypeOK, RowsOK, AttemptsKnown, NEW a \in Issued
    PROVE  /\ a \in Attempts
           /\ attempt[a].grant \in Grants
           /\ attempt[a].key \in Keys
           /\ grant[attempt[a].grant] \in GrantRow
           /\ grant[attempt[a].grant].screen \in Screens
           /\ grant[attempt[a].grant].expected \in Nat
<1>1. a \in Attempts /\ attempt[a] \in AttemptRow
  BY DEF Issued, TypeOK
<1>2. attempt[a].grant \in Grants /\ attempt[a].key \in Keys
  BY <1>1 DEF AttemptRow
<1>3. grant[attempt[a].grant] \in GrantRow
  BY DEF AttemptsKnown, RowsOK
<1> QED
  BY <1>1, <1>2, <1>3, BoundAssumption DEF GrantRow

LEMMA KeepLive ==
    ASSUME KeepIdentities, NEW s \in Screens
    PROVE  LiveKeys(s)' = LiveKeys(s)
BY DEF KeepIdentities, LiveKeys, CredentialsOf

LEMMA EndLive ==
    ASSUME NEW t \in Screens, EndIdentity(t), NEW s \in Screens
    PROVE  LiveKeys(s)' = IF s = t THEN {} ELSE LiveKeys(s)
BY DEF EndIdentity, LiveKeys, CredentialsOf

LEMMA WinLive ==
    ASSUME TypeOK, RowsOK, AttemptsKnown, KeyInv, NEW a \in Attempts, Win(a), NEW s \in Screens
    PROVE  /\ LiveKeys(grant[attempt[a].grant].screen) = {}
           /\ LiveKeys(s)' = IF s = grant[attempt[a].grant].screen
                             THEN {attempt[a].key} ELSE LiveKeys(s)
<1> DEFINE g == attempt[a].grant
           t == grant[g].screen
           k == attempt[a].key
<1>1. /\ status[g] = "PENDING" /\ grant[g].expected = generation[t] /\ k \notin tombstone
      /\ home' = [home EXCEPT ![k] = t] /\ revoked' = revoked /\ a \in Issued
  BY DEF Win
<1>2. g \in Grants /\ k \in Keys /\ t \in Screens
  BY <1>1, WinnerRow
<1>3. LiveKeys(t) = {}
  BY <1>1, <1>2 DEF KeyInv, ReplacementFollowsContainment
<1>4. k \notin revoked /\ home[k] = None
  BY <1>1, <1>2 DEF KeyInv, KeysSpent
<1>5. None \notin Screens
  BY NoneAssumption
<1>6. home'[k] = t /\ \A j \in Keys \ {k} : home'[j] = home[j]
  BY <1>1, <1>2 DEF TypeOK
<1> HIDE DEF t, k, g
<1>7. s = t => LiveKeys(s)' = {k}
  BY <1>1, <1>2, <1>3, <1>4, <1>6 DEF LiveKeys, CredentialsOf
<1>8. s # t => LiveKeys(s)' = LiveKeys(s)
  BY <1>1, <1>2, <1>4, <1>5, <1>6 DEF LiveKeys, CredentialsOf
<1> QED
  BY <1>3, <1>7, <1>8 DEF t, k, g

LEMMA SpentStep ==
    TypeOK /\ RowsOK /\ AttemptsKnown /\ KeyInv /\ [Next]_vars => KeysSpent'
<1> SUFFICES ASSUME TypeOK, RowsOK, AttemptsKnown, KeyInv, [Next]_vars
             PROVE  KeysSpent'
    OBVIOUS
<1>1. CASE KeepIdentities
  BY <1>1 DEF KeyInv, KeysSpent, KeepIdentities
<1>2. ASSUME NEW s \in Screens, EndIdentity(s) PROVE KeysSpent'
  <2>1. LiveKeys(s) \subseteq tombstone
    BY NoneAssumption DEF KeyInv, KeysSpent, LiveKeys, CredentialsOf
  <2> QED
    BY <1>2, <2>1 DEF KeyInv, KeysSpent, EndIdentity
<1>3. ASSUME NEW a \in Attempts, Win(a) PROVE KeysSpent'
  <2>1. attempt[a].key \in Keys
    BY <1>3, WinnerRow DEF Win
  <2> QED
    BY <1>3, <2>1 DEF KeyInv, KeysSpent, Win, TypeOK
<1> QED
  BY <1>1, <1>2, <1>3, StepKinds

(* Only a step that ends the identity or starts one changes the live keys, and
   both move the generation or remove the Screen. *)
LEMMA LiveStep ==
    ASSUME TypeOK, RowsOK, AttemptsKnown, KeyInv, [Next]_vars, NEW s \in Screens,
           generation'[s] = generation[s]
    PROVE  LiveKeys(s)' \subseteq LiveKeys(s)
<1>1. ASSUME NEW a \in Attempts, Win(a) PROVE s # grant[attempt[a].grant].screen
  <2>1. a \in Issued /\ generation' = [generation EXCEPT ![grant[attempt[a].grant].screen] = @ + 1]
    BY <1>1 DEF Win
  <2>2. generation[s] \in Nat
    BY DEF TypeOK
  <2>3. CASE s = grant[attempt[a].grant].screen
    BY <2>1, <2>2, <2>3 DEF TypeOK
  <2> QED
    BY <2>3
<1> QED
  BY <1>1, StepKinds, KeepLive, EndLive, WinLive

LEMMA ContainmentStep ==
    TypeOK /\ RowsOK /\ AttemptsKnown /\ WinnerInv /\ KeyInv /\ [Next]_vars
        => ReplacementFollowsContainment'
<1> SUFFICES ASSUME TypeOK, RowsOK, AttemptsKnown, WinnerInv, KeyInv, [Next]_vars,
                    NEW g \in Grants, status'[g] = "PENDING",
                    grant'[g].expected = generation'[grant'[g].screen]
             PROVE  LiveKeys(grant[g].screen)' = {}
    BY DEF ReplacementFollowsContainment
<1>1. StatusMove(g) /\ NewGrantCaptures(g)
  BY GrantStep
<1>2. CASE status[g] = "NONE"
  BY <1>1, <1>2 DEF NewGrantCaptures
<1>3. CASE status[g] = "PENDING"
  <2>1. grant'[g] = grant[g] /\ grant[g] \in GrantRow
    BY <1>1, <1>3 DEF StatusMove, RowsOK
  <2>2. PICK s \in Screens : s = grant[g].screen
    BY <2>1 DEF GrantRow
  <2>3. generation'[s] = generation[s] /\ grant[g].expected = generation[s]
    <3>1. grant[g].expected <= generation[s] /\ grant[g].expected = generation'[s]
      BY <1>3, <2>1, <2>2 DEF WinnerInv
    <3>2. grant[g].expected \in Nat
      BY <2>1, BoundAssumption DEF GrantRow
    <3> QED
      BY <3>1, <3>2, GenerationStep
  <2>4. LiveKeys(s) = {}
    BY <1>3, <2>2, <2>3 DEF KeyInv, ReplacementFollowsContainment
  <2>5. LiveKeys(s)' = {}
    BY <2>3, <2>4, LiveStep
  <2> QED
    BY <2>1, <2>2, <2>5 DEF LiveKeys, CredentialsOf
<1> QED
  BY <1>1, <1>2, <1>3 DEF StatusMove

(* A live key's winner. *)
Winner(a, s, k) ==
    /\ attempt[a].key = k
    /\ grant[attempt[a].grant].screen = s
    /\ status[attempt[a].grant] \in {"CLAIMED", "DELETED"}
    /\ generation[s] = grant[attempt[a].grant].expected + 1
    /\ installation[s] = k
    /\ phase[s] = "ACTIVE"

LEMMA LiveKeyStep ==
    TypeOK /\ RowsOK /\ AttemptsKnown /\ WinnerInv /\ KeyInv /\ [Next]_vars
        => LiveKeyIsActivatedCandidate'
<1> SUFFICES ASSUME TypeOK, RowsOK, AttemptsKnown, WinnerInv, KeyInv, [Next]_vars,
                    NEW s \in Screens, NEW k \in LiveKeys(s)'
             PROVE  \E a \in activated' : Winner(a, s, k)'
    BY DEF LiveKeyIsActivatedCandidate, Winner
(* An older winner stays the witness while its Screen's identity stays. *)
<1>1. ASSUME k \in LiveKeys(s), generation'[s] = generation[s],
             installation'[s] = installation[s], phase[s] = "ACTIVE" => phase'[s] = "ACTIVE",
             activated \subseteq activated'
      PROVE  \E a \in activated' : Winner(a, s, k)'
  <2>1. PICK a \in activated : Winner(a, s, k)
    BY <1>1 DEF KeyInv, LiveKeyIsActivatedCandidate, Winner
  <2>2. a \in Issued /\ attempt'[a] = attempt[a]
    BY AttemptKept DEF AttemptsKnown
  <2>3. attempt[a].grant \in Grants /\ status[attempt[a].grant] \in {"CLAIMED", "DELETED"}
    BY <2>1, <2>2 DEF AttemptsKnown, Winner
  <2>4. grant'[attempt[a].grant] = grant[attempt[a].grant]
        /\ status'[attempt[a].grant] \in {"CLAIMED", "DELETED"}
    BY <2>3, GrantStep DEF StatusMove
  <2>5. Winner(a, s, k)'
    BY <1>1, <2>1, <2>2, <2>3, <2>4 DEF Winner
  <2> QED
    BY <1>1, <2>5
<1>2. CASE KeepIdentities
  <2>1. k \in LiveKeys(s)
    BY <1>2, KeepLive
  <2>2. phase[s] = "ACTIVE" => phase'[s] = "ACTIVE"
    BY <1>2 DEF KeepIdentities, TypeOK
  <2> QED
    BY <1>1, <1>2, <2>1, <2>2 DEF KeepIdentities
<1>3. ASSUME NEW t \in Screens, EndIdentity(t) PROVE \E a \in activated' : Winner(a, s, k)'
  <2>1. k \in LiveKeys(s) /\ s # t
    BY <1>3, EndLive
  <2>2. generation'[s] = generation[s] /\ installation'[s] = installation[s] /\ phase'[s] = phase[s]
    BY <1>3, <2>1 DEF EndIdentity, TypeOK
  <2> QED
    BY <1>1, <1>3, <2>1, <2>2 DEF EndIdentity
<1>4. ASSUME NEW b \in Attempts, Win(b) PROVE \E a \in activated' : Winner(a, s, k)'
  <2> DEFINE t == grant[attempt[b].grant].screen
  <2>1. b \in Issued
    BY <1>4 DEF Win
  <2>2. CASE s = t
    <3>1. k = attempt[b].key
      BY <1>4, <2>2, WinLive
    <3>2. grant'[attempt[b].grant] = grant[attempt[b].grant]
      BY <1>4, <2>1, WinnerRow, GrantStep DEF StatusMove, Win
    <3>3. Winner(b, s, k)'
      BY <1>4, <2>2, <3>1, <3>2 DEF Winner, Win, TypeOK
    <3> QED
      BY <1>4, <3>3 DEF Win
  <2>3. CASE s # t
    <3>1. k \in LiveKeys(s)
      BY <1>4, <2>3, WinLive
    <3>2. generation'[s] = generation[s] /\ installation'[s] = installation[s] /\ phase'[s] = phase[s]
          /\ activated \subseteq activated'
      BY <1>4, <2>3 DEF Win, TypeOK
    <3> QED
      BY <1>1, <3>1, <3>2
  <2> QED
    BY <2>2, <2>3
<1> QED
  BY <1>2, <1>3, <1>4, StepKinds

LEMMA KeyInit == Init => KeyInv
<1> SUFFICES ASSUME Init PROVE KeyInv
    OBVIOUS
<1>1. \A s \in Screens : LiveKeys(s) = {}
  BY NoneAssumption DEF Init, LiveKeys, CredentialsOf
<1> QED
  BY <1>1 DEF Init, KeyInv, KeysSpent, ReplacementFollowsContainment, LiveKeyIsActivatedCandidate

LEMMA KeyStep ==
    TypeOK /\ RowsOK /\ AttemptsKnown /\ WinnerInv /\ KeyInv /\ [Next]_vars => KeyInv'
BY SpentStep, ContainmentStep, LiveKeyStep DEF KeyInv

(* Every live key belongs to the activated candidate of the grant that captured
   the generation before the current one; no other way leads to an identity. *)
THEOREM LiveKeyCorrect == Spec => []LiveKeyIsActivatedCandidate
<1>1. KeyInv => LiveKeyIsActivatedCandidate
  BY DEF KeyInv
<1> QED
  BY <1>1, WinnerInit, KeyInit, StepType, RowsStep, AttemptsStep, WinnerStep, KeyStep, PTL DEF Spec

(* A grant that can still be activated never coexists with a live key: the old
   identity is revoked before a replacement can take its place. *)
THEOREM ContainmentCorrect == Spec => []ReplacementFollowsContainment
<1>1. KeyInv => ReplacementFollowsContainment
  BY DEF KeyInv
<1> QED
  BY <1>1, WinnerInit, KeyInit, StepType, RowsStep, AttemptsStep, WinnerStep, KeyStep, PTL DEF Spec

-----------------------------------------------------------------------------
(* Enrollment implements the abstract credential life cycle *)

LEMMA CredentialStep ==
    TypeOK /\ RowsOK /\ AttemptsKnown /\ WinnerInv /\ KeyInv /\ [Next]_vars
        => [Credential!CredentialNext]_(Credential!credentialVars)
<1> SUFFICES ASSUME TypeOK, RowsOK, AttemptsKnown, WinnerInv, KeyInv, [Next]_vars
             PROVE  Credential!CredentialNext \/ UNCHANGED Credential!credentialVars
    OBVIOUS
<1> DEFINE lives == [s \in Screens |-> LiveKeys(s)]
<1>1. CASE KeepIdentities
  <2>1. lives' = lives
    BY <1>1, KeepLive
  <2>2. CASE phase' = phase
    BY <1>1, <2>1, <2>2 DEF KeepIdentities, Credential!credentialVars
  <2>3. ASSUME NEW s \in Screens, phase[s] = "UNCREATED", phase' = [phase EXCEPT ![s] = "ACTIVE"]
        PROVE  Credential!CreateScreen(s)
    BY <1>1, <2>1, <2>3 DEF KeepIdentities, Credential!CreateScreen
  <2> QED
    BY <1>1, <2>2, <2>3 DEF KeepIdentities, Credential!CredentialNext
<1>2. ASSUME NEW s \in Screens, EndIdentity(s) PROVE Credential!CredentialNext
  <2>1. lives' = [lives EXCEPT ![s] = {}]
    BY <1>2, EndLive
  <2>2. Credential!Fence(s) \/ Credential!RemoveScreen(s)
    BY <1>2, <2>1 DEF EndIdentity, Credential!Fence, Credential!RemoveScreen
  <2> QED
    BY <2>2 DEF Credential!CredentialNext
<1>3. ASSUME NEW a \in Attempts, Win(a) PROVE Credential!CredentialNext
  <2> DEFINE s == grant[attempt[a].grant].screen
             k == attempt[a].key
  <2>1. s \in Screens /\ k \in Keys
    BY <1>3, WinnerRow DEF Win
  <2>2. lives' = [lives EXCEPT ![s] = {k}] /\ lives[s] = {}
    BY <1>3, <2>1, WinLive
  <2>3. Credential!Install(s, k)
    BY <1>3, <2>1, <2>2 DEF Win, Credential!Install
  <2> QED
    BY <2>1, <2>3 DEF Credential!CredentialNext
<1> QED
  BY <1>1, <1>2, <1>3, StepKinds

(* Seen from live keys, generations and spent keys, the PostgreSQL DataStore
   behaves as ScreenCredential: one live key, each key once, and no change of
   identity without a new generation. *)
THEOREM CredentialLifeCycleCorrect == Spec => ImplementsCredentialLifeCycle
<1>1. Init => Credential!CredentialInit
  <2> SUFFICES ASSUME Init PROVE Credential!CredentialInit
      OBVIOUS
  <2>1. \A s \in Screens : LiveKeys(s) = {}
    BY NoneAssumption DEF Init, LiveKeys, CredentialsOf
  <2> QED
    BY <2>1 DEF Init, Credential!CredentialInit
<1> QED
  BY <1>1, WinnerInit, KeyInit, StepType, RowsStep, AttemptsStep, WinnerStep, KeyStep,
     CredentialStep, PTL DEF Spec, ImplementsCredentialLifeCycle, Credential!CredentialSpec

-----------------------------------------------------------------------------
(* The candidate limit *)

Candidates(g) == (AttemptsOf({g}) \intersect proved) \ cancelled

LimitInv == \A g \in Grants :
    IsFiniteSet(Candidates(g)) /\ Cardinality(Candidates(g)) <= MaxCandidates

LEMMA CandidatesStep ==
    ASSUME TypeOK, AttemptsKnown, [Next]_vars, NEW g \in Grants
    PROVE  \/ Candidates(g)' \subseteq Candidates(g)
           \/ \E a \in Attempts : /\ ProveCandidate(a)
                                  /\ attempt[a].grant = g
                                  /\ Candidates(g)' \subseteq Candidates(g) \union {a}
<1> USE DEF screenVars, grantVars, attemptVars, credentialVars, replayVars
<1>1. cancelled \subseteq cancelled'
  BY ZenonT(60) DEF Next, OperatorStep, IdentityStep, DeviceStep, ClockStep, CreateScreen,
         RequestEnrollment, ReplayEnrollmentRequest, RequestReenrollment, CancelGrant,
         ActivateEnrollment, ReplayActivation, ActivateReenrollment, RevokeCredential,
         DeleteScreen, RotatePassword, DisableUser, ChangeRole, RemoveMembership,
         RevokePendingIssuerGrants, IssueAttempt, ProveCandidate, GrantDeadline,
         AttemptDeadline, vars
<1>2. proved' = proved \/ \E a \in Attempts : ProveCandidate(a)
  BY ZenonT(60) DEF Next, OperatorStep, IdentityStep, DeviceStep, ClockStep, CreateScreen,
         RequestEnrollment, ReplayEnrollmentRequest, RequestReenrollment, CancelGrant,
         ActivateEnrollment, ReplayActivation, ActivateReenrollment, RevokeCredential,
         DeleteScreen, RotatePassword, DisableUser, ChangeRole, RemoveMembership,
         RevokePendingIssuerGrants, IssueAttempt, GrantDeadline, AttemptDeadline, vars
<1>3. \A a \in Issued : attempt'[a] = attempt[a]
  BY AttemptKept
<1>4. ASSUME NEW b \in Candidates(g)', b \in proved PROVE b \in Candidates(g)
  BY <1>1, <1>3, <1>4 DEF Candidates, AttemptsOf, AttemptsKnown
<1>5. CASE proved' = proved
  BY <1>4, <1>5 DEF Candidates
<1>6. ASSUME NEW a \in Attempts, ProveCandidate(a)
      PROVE  \/ Candidates(g)' \subseteq Candidates(g)
             \/ attempt[a].grant = g /\ Candidates(g)' \subseteq Candidates(g) \union {a}
  <2>1. proved' = proved \union {a} /\ a \in Issued
    BY <1>6 DEF ProveCandidate
  <2>2. a \in Candidates(g)' => attempt[a].grant = g
    BY <1>3, <2>1 DEF Candidates, AttemptsOf
  <2>3. \A b \in Candidates(g)' : b \in proved \/ b = a
    BY <2>1 DEF Candidates
  <2> QED
    BY <1>4, <2>2, <2>3
<1> QED
  BY <1>2, <1>5, <1>6

LEMMA LimitStep ==
    TypeOK /\ AttemptsKnown /\ LimitInv /\ [Next]_vars => LimitInv'
<1> SUFFICES ASSUME TypeOK, AttemptsKnown, LimitInv, [Next]_vars, NEW g \in Grants
             PROVE  IsFiniteSet(Candidates(g)') /\ Cardinality(Candidates(g)') <= MaxCandidates
    BY DEF LimitInv
<1>1. /\ IsFiniteSet(Candidates(g)) /\ Cardinality(Candidates(g)) <= MaxCandidates
      /\ Cardinality(Candidates(g)) \in Nat
  BY FS_CardinalityType DEF LimitInv
<1>2. ASSUME NEW X, NEW Y, IsFiniteSet(X), Y \subseteq X
      PROVE  IsFiniteSet(Y) /\ Cardinality(Y) <= Cardinality(X)
             /\ Cardinality(Y) \in Nat /\ Cardinality(X) \in Nat
  BY <1>2, FS_Subset, FS_CardinalityType
<1>3. CASE Candidates(g)' \subseteq Candidates(g)
  <2>1. /\ IsFiniteSet(Candidates(g)') /\ Cardinality(Candidates(g)') <= Cardinality(Candidates(g))
        /\ Cardinality(Candidates(g)') \in Nat
    BY <1>1, <1>2, <1>3
  <2> QED
    BY <1>1, <2>1, BoundAssumption
<1>4. ASSUME NEW a \in Attempts, ProveCandidate(a), attempt[a].grant = g,
             Candidates(g)' \subseteq Candidates(g) \union {a}
      PROVE  IsFiniteSet(Candidates(g)') /\ Cardinality(Candidates(g)') <= MaxCandidates
  <2>1. Cardinality(Candidates(g)) < MaxCandidates
    BY <1>4 DEF ProveCandidate, Candidates
  <2>2. /\ IsFiniteSet(Candidates(g) \union {a})
        /\ Cardinality(Candidates(g) \union {a}) <= Cardinality(Candidates(g)) + 1
    BY <1>1, FS_AddElement
  <2>3. /\ IsFiniteSet(Candidates(g)')
        /\ Cardinality(Candidates(g)') <= Cardinality(Candidates(g) \union {a})
        /\ Cardinality(Candidates(g)') \in Nat /\ Cardinality(Candidates(g) \union {a}) \in Nat
    BY <1>2, <1>4, <2>2
  <2> QED
    BY <1>1, <2>1, <2>2, <2>3, BoundAssumption
<1> QED
  BY <1>3, <1>4, CandidatesStep

(* However many attempts are issued, time out, are proved or cancelled, the
   candidates an operator has to compare stay within the limit. *)
THEOREM CandidateLimitCorrect == Spec => []CandidateLimit
<1>1. Init => LimitInv
  <2> SUFFICES ASSUME Init, NEW g \in Grants
               PROVE  IsFiniteSet(Candidates(g)) /\ Cardinality(Candidates(g)) <= MaxCandidates
      BY DEF LimitInv
  <2>1. Candidates(g) = {}
    BY DEF Init, Candidates
  <2> QED
    BY <2>1, FS_EmptySet, BoundAssumption
<1>2. LimitInv => CandidateLimit
  BY DEF LimitInv, CandidateLimit, Candidates
<1> QED
  BY <1>1, <1>2, WinnerInit, StepType, RowsStep, AttemptsStep, LimitStep, PTL DEF Spec

-----------------------------------------------------------------------------
(* Retention *)

DeletedLate == \A g \in Grants : status[g] = "DELETED" => age[g] >= Purgeable

LEMMA RetentionStep ==
    TypeOK /\ DeletedLate /\ [Next]_vars => DeletedLate'
<1> SUFFICES ASSUME TypeOK, DeletedLate, [Next]_vars, NEW g \in Grants, status'[g] = "DELETED"
             PROVE  age'[g] >= Purgeable
    BY DEF DeletedLate
<1> USE DEF screenVars, grantVars, attemptVars, credentialVars, replayVars
<1>1. age[g] \in Nat /\ age'[g] \in {age[g], age[g] + 1}
  <2>1. ASSUME NEW u \in Users, OperatorStep(u) PROVE age' = age
    <3>1. ASSUME NEW h, NEW p, NEW s, NEW e, NEW st, AddGrant(h, p, s, e, u, st) PROVE age' = age
      BY <3>1 DEF AddGrant
    <3> QED
      BY <2>1, <3>1
         DEF OperatorStep, CreateScreen, RequestEnrollment, ReplayEnrollmentRequest,
             RequestReenrollment, CancelGrant, ActivateEnrollment, ReplayActivation,
             ActivateReenrollment, RevokeCredential, DeleteScreen
  <2>2. ASSUME NEW u \in Users, IdentityStep(u) PROVE age' = age
    BY <2>2 DEF IdentityStep, RotatePassword, DisableUser, ChangeRole, RemoveMembership,
                RevokePendingIssuerGrants
  <2>3. ASSUME DeviceStep \/ UNCHANGED vars PROVE age' = age
    BY <2>3 DEF DeviceStep, IssueAttempt, ProveCandidate, vars
  <2>4. ASSUME ClockStep PROVE age'[g] \in {age[g], age[g] + 1}
    BY <2>4 DEF ClockStep, GrantDeadline, AttemptDeadline, TypeOK
  <2> QED
    BY <2>1, <2>2, <2>3, <2>4, BoundAssumption DEF Next, TypeOK
<1>2. Pruned[g] = "DELETED" => status[g] = "DELETED" \/ age[g] >= Purgeable
  BY DEF Pruned, TypeOK
<1>3. ASSUME NEW st, NEW G, Revoke(st, G)[g] = "DELETED" PROVE st[g] = "DELETED"
  BY <1>3, RevokeRow
<1>4. status[g] = "DELETED" \/ Pruned[g] = "DELETED"
  <2>1. ASSUME NEW u \in Users, OperatorStep(u)
        PROVE  status[g] = "DELETED" \/ Pruned[g] = "DELETED"
    <3>1. ASSUME NEW h \in Grants, NEW p, NEW s, NEW e, NEW st, NEW G,
                 AddGrant(h, p, s, e, u, Revoke(Pruned, G))
          PROVE  Pruned[g] = "DELETED"
      <4>1. Revoke(Pruned, G)[g] = "DELETED"
        BY <3>1 DEF AddGrant, Revoke
      <4> QED
        BY <4>1, <1>3
    <3>2. ASSUME NEW h \in Grants, NEW st, NEW G, status' = Revoke([st EXCEPT ![h] = "CLAIMED"], G),
                 st \in [Grants -> Statuses]
          PROVE  st[g] = "DELETED"
      <4>1. [st EXCEPT ![h] = "CLAIMED"][g] = "DELETED"
        BY <3>2, <1>3
      <4> QED
        BY <3>2, <4>1
    <3>3. ASSUME NEW G, status' = Revoke(status, G) PROVE status[g] = "DELETED"
      BY <3>3, <1>3
    <3>4. ASSUME NEW s \in Screens, NEW q \in RequestKeys, NEW h \in Grants,
                 RequestEnrollment(u, s, q, h)
          PROVE  Pruned[g] = "DELETED"
      BY <3>1, <3>4 DEF RequestEnrollment
    <3>5. ASSUME NEW s \in Screens, NEW h \in Grants, RequestReenrollment(u, s, h)
          PROVE  Pruned[g] = "DELETED"
      BY <3>1, <3>5 DEF RequestReenrollment
    <3>6. ASSUME NEW a \in Attempts, NEW q \in RequestKeys, ActivateEnrollment(u, a, q)
          PROVE  Pruned[g] = "DELETED"
      <4>1. Pruned[g] = "DELETED" \/ attempt[a].grant \notin Grants
        BY <3>2, <3>6, PrunedType DEF ActivateEnrollment
      <4> QED
        BY <3>6, <4>1 DEF ActivateEnrollment, Activatable, TypeOK, Issued, AttemptRow
    <3>7. ASSUME NEW a \in Attempts, ActivateReenrollment(u, a) PROVE status[g] = "DELETED"
      <4>1. attempt[a].grant \in Grants
        BY <3>7 DEF ActivateReenrollment, Activatable, TypeOK, Issued, AttemptRow
      <4> QED
        BY <3>2, <3>7, <4>1 DEF ActivateReenrollment, TypeOK
    <3> QED
      BY <2>1, <3>3, <3>4, <3>5, <3>6, <3>7
         DEF OperatorStep, CreateScreen, ReplayEnrollmentRequest, ReplayActivation, CancelGrant,
             RevokeCredential, DeleteScreen
  <2>2. ASSUME NEW u \in Users, IdentityStep(u) PROVE status[g] = "DELETED"
    BY <1>3, <2>2 DEF IdentityStep, RotatePassword, DisableUser, ChangeRole, RemoveMembership,
                      RevokePendingIssuerGrants
  <2> QED
    BY <2>1, <2>2 DEF Next, DeviceStep, ClockStep, IssueAttempt, ProveCandidate, GrantDeadline,
                      AttemptDeadline, vars
<1> QED
  BY <1>1, <1>2, <1>4 DEF DeletedLate, Purgeable

(* Retention never takes a grant from under the idempotency record that may
   still have to answer for it. *)
THEOREM RetentionCorrect == Spec => []ReplayableGrantIsRetained
<1>1. Init => DeletedLate
  BY DEF Init, DeletedLate
<1>2. TypeOK /\ DeletedLate => ReplayableGrantIsRetained
  <2> SUFFICES ASSUME TypeOK, DeletedLate, NEW q \in RequestKeys, createRecord[q] # None,
                      age[createRecord[q].grant] < ReplayLapsed
               PROVE  status[createRecord[q].grant] # "DELETED"
      BY DEF ReplayableGrantIsRetained
  <2>1. createRecord[q].grant \in Grants
    BY DEF TypeOK, CreateRow
  <2>2. age[createRecord[q].grant] \in Nat
    BY <2>1, BoundAssumption DEF TypeOK
  <2> QED
    BY <2>1, <2>2 DEF DeletedLate, ReplayLapsed, Purgeable
<1> QED
  BY <1>1, <1>2, WinnerInit, StepType, RowsStep, RetentionStep, PTL DEF Spec

=============================================================================
