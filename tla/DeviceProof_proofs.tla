-------------------------- MODULE DeviceProof_proofs --------------------------
EXTENDS DeviceProof, FiniteSetTheorems, TLAPS

-----------------------------------------------------------------------------
(* Type correctness *)

LEMMA ProofInitType == DeviceProofInit => DeviceProofTypeOK
BY MaxGenerationAssumption, ProofAssumption
   DEF DeviceProofInit, CredentialInit, DeviceProofTypeOK, CredentialTypeOK, Phases,
       HandlerState, Idle, Content, NoContent

(* What a handler at work holds. *)
LEMMA BusyHandler ==
    ASSUME DeviceProofTypeOK, NEW h \in Handlers, handler[h].step # "IDLE"
    PROVE  /\ handler[h].challenge \in Challenges
           /\ handler[h].step \in Steps
           /\ handler[h].first \in 0 .. MaxRelease
           /\ handler[h] # Idle
BY DEF DeviceProofTypeOK, HandlerState, Idle

(* A request exists only for an issued challenge, and whatever handlers,
   answers and players refer to has been requested. *)
RequestsKnown ==
    /\ signed \subseteq Issued
    /\ \A h \in Handlers : handler[h] # Idle => handler[h].challenge \in signed
    /\ \A answer \in answers : answer.challenge \in signed
    /\ \A k \in Keys : awaited[k] # None =>
           awaited[k] \in signed /\ challenge[awaited[k]].key = k

LEMMA ProofStepType ==
    DeviceProofTypeOK /\ RequestsKnown /\ [DeviceProofNext]_proofVars
        => DeviceProofTypeOK'
<1> SUFFICES ASSUME DeviceProofTypeOK, RequestsKnown, [DeviceProofNext]_proofVars
             PROVE  DeviceProofTypeOK'
    OBVIOUS
<1> USE MaxGenerationAssumption, ProofAssumption, ProofNoneAssumption, BusyHandler
<1> USE DEF credentialVars, serverVars, playerVars, proofVars
<1>1. ASSUME NEW s \in Screens, IdentityChange(s) PROVE DeviceProofTypeOK'
  <2>1. CASE AddScreen(s)
    BY <2>1 DEF AddScreen, CreateScreen, DeviceProofTypeOK, CredentialTypeOK, Phases
  <2>2. ASSUME NEW k \in Keys, ActivateIdentity(s, k) PROVE DeviceProofTypeOK'
    BY <2>2 DEF ActivateIdentity, Install, DeviceProofTypeOK, CredentialTypeOK
  <2>3. CASE DetachIdentity(s)
    <3>1. CredentialTypeOK'
      BY <2>3 DEF DetachIdentity, Fence, DeviceProofTypeOK, CredentialTypeOK
    <3> QED
      BY <2>3, <3>1 DEF DetachIdentity, CloseIdentity, DeviceProofTypeOK
  <2>4. CASE DecommissionScreen(s)
    <3>1. CredentialTypeOK'
      BY <2>4 DEF DecommissionScreen, RemoveScreen, DeviceProofTypeOK, CredentialTypeOK, Phases
    <3> QED
      BY <2>4, <3>1 DEF DecommissionScreen, CloseIdentity, DeviceProofTypeOK
  <2> QED
    BY <1>1, <2>1, <2>2, <2>3, <2>4 DEF IdentityChange
<1>2. ASSUME NEW s \in Screens, Publish(s) PROVE DeviceProofTypeOK'
  BY <1>2 DEF Publish, DeviceProofTypeOK, CredentialTypeOK
<1>3. ASSUME NEW c \in Challenges, NEW s \in Screens, NEW k \in Keys,
             NEW operation \in Operations, IssueChallenge(c, s, k, operation)
      PROVE  DeviceProofTypeOK'
  <2>1. [screen |-> s, key |-> k, operation |-> operation] \in ChallengeRow
    BY DEF ChallengeRow
  <2> QED
    BY <1>3, <2>1 DEF IssueChallenge, DeviceProofTypeOK, CredentialTypeOK
<1>4. ASSUME NEW c \in Challenges, ChallengeExpires(c) PROVE DeviceProofTypeOK'
  BY <1>4 DEF ChallengeExpires, DeviceProofTypeOK, CredentialTypeOK
<1>5. ASSUME NEW c \in Challenges, SignRequest(c) PROVE DeviceProofTypeOK'
  BY <1>5 DEF SignRequest, DeviceProofTypeOK, CredentialTypeOK, ChallengeRow, Issued
<1>6. ASSUME NEW h \in Handlers, HandlerStep(h) PROVE DeviceProofTypeOK'
  <2>1. ASSUME NEW c \in Challenges, Authenticate(h, c) PROVE DeviceProofTypeOK'
    BY <2>1 DEF Authenticate, DeviceProofTypeOK, CredentialTypeOK, HandlerState, Steps, Owing
  <2>2. CASE Heartbeat(h)
    <3>1. handler[h].challenge \in Challenges
      BY <2>2 DEF Heartbeat
    <3>2. handler' \in [Handlers -> HandlerState]
      BY <2>2 DEF Heartbeat, DeviceProofTypeOK, HandlerState
    <3>3. consumed' \in SUBSET Challenges /\ effects' \in [Challenges -> Nat]
      <4> DEFINE c == handler[h].challenge
      <4>1. consumed' = consumed \union {c} /\ effects' = [effects EXCEPT ![c] = @ + 1]
        BY <2>2 DEF Heartbeat
      <4>2. c \in Challenges
        BY <3>1
      <4> HIDE DEF c
      <4> QED
        BY <4>1, <4>2 DEF DeviceProofTypeOK
    <3>4. telemetry' \in [Screens -> Challenges \union {None}]
      BY <2>2, <3>1 DEF Heartbeat, DeviceProofTypeOK
    <3> QED
      BY <2>2, <3>2, <3>3, <3>4 DEF Heartbeat, DeviceProofTypeOK, CredentialTypeOK
  <2>3. CASE ConsumeManifestProof(h)
    <3>1. handler[h].challenge \in Challenges /\ 0 \in 0 .. MaxRelease
      BY <2>3 DEF ConsumeManifestProof
    <3>2. handler' \in [Handlers -> HandlerState]
      <4>1. [step |-> "CONSUMED", challenge |-> handler[h].challenge, first |-> 0] \in HandlerState
        BY <3>1 DEF HandlerState, Steps, Owing
      <4> QED
        BY <2>3, <4>1 DEF ConsumeManifestProof, DeviceProofTypeOK
    <3>3. consumed' \in SUBSET Challenges
      BY <2>3, <3>1 DEF ConsumeManifestProof, DeviceProofTypeOK
    <3> QED
      BY <2>3, <3>2, <3>3 DEF ConsumeManifestProof, DeviceProofTypeOK, CredentialTypeOK
  <2>6. CASE ResolveContent(h)
    <3>1. handler[h].challenge \in signed
      BY <2>6 DEF ResolveContent, RequestsKnown, Idle
    <3>2. release[challenge[handler[h].challenge].screen] \in 0 .. MaxRelease
      BY <3>1 DEF RequestsKnown, Issued, DeviceProofTypeOK, ChallengeRow
    <3> QED
      BY <2>6, <3>2, BusyHandler
         DEF ResolveContent, DeviceProofTypeOK, CredentialTypeOK, HandlerState, Steps, Owing
  <2>4. CASE AnswerManifest(h)
    <3>1. handler[h].challenge \in Challenges
      BY <2>4 DEF AnswerManifest
    <3>2. handler' \in [Handlers -> HandlerState]
      BY <2>4 DEF AnswerManifest, DeviceProofTypeOK, HandlerState
    <3>3. challenge[handler[h].challenge].screen \in Screens
      BY <2>4, <3>1 DEF AnswerManifest, RequestsKnown, Issued, DeviceProofTypeOK, ChallengeRow
    <3>4. effects' \in [Challenges -> Nat] /\ answers' \in SUBSET Answer
      <4> DEFINE c == handler[h].challenge
      <4>1. /\ effects' = [effects EXCEPT ![c] = @ + 1]
            /\ answers' = answers \union
                   {[challenge |-> c,
                     content |-> [first |-> handler[h].first,
                                  last |-> release[challenge[c].screen]]]}
        BY <2>4 DEF AnswerManifest
      <4>2. /\ release[challenge[c].screen] \in 0 .. MaxRelease
            /\ handler[h].first \in 0 .. MaxRelease
        BY <2>4, <3>3 DEF AnswerManifest, DeviceProofTypeOK
      <4>3. c \in Challenges
        BY <3>1
      <4> HIDE DEF c
      <4> QED
        <5>1. [first |-> handler[h].first, last |-> release[challenge[c].screen]] \in Content
          BY <4>2 DEF Content
        <5> QED
          BY <4>1, <4>3, <5>1 DEF DeviceProofTypeOK, Answer
    <3> QED
      BY <2>4, <3>2, <3>4 DEF AnswerManifest, DeviceProofTypeOK, CredentialTypeOK
  <2>5. CASE DropRequest(h)
    BY <2>5 DEF DropRequest, DeviceProofTypeOK, CredentialTypeOK, HandlerState
  <2> QED
    BY <1>6, <2>1, <2>2, <2>3, <2>4, <2>5, <2>6 DEF HandlerStep
<1>7. ASSUME NEW k \in Keys, NEW answer \in answers, AcceptManifest(k, answer)
      PROVE  DeviceProofTypeOK'
  BY <1>7 DEF AcceptManifest, DeviceProofTypeOK, CredentialTypeOK, Answer
<1>8. CASE UNCHANGED proofVars
  BY <1>8 DEF DeviceProofTypeOK, CredentialTypeOK
<1> QED
  BY <1>1, <1>2, <1>3, <1>4, <1>5, <1>6, <1>7, <1>8 DEF DeviceProofNext

-----------------------------------------------------------------------------
(* What a step does, seen from one challenge *)

(* A challenge row is written once. *)
LEMMA ChallengeStep ==
    ASSUME DeviceProofTypeOK, [DeviceProofNext]_proofVars
    PROVE  /\ Issued \subseteq Issued'
           /\ \A c \in Issued : challenge'[c] = challenge[c]
           /\ challenge' # challenge => UNCHANGED <<live, phase, spent, signed, consumed, expired>>
<1> USE DEF credentialVars, serverVars, playerVars, proofVars
<1>1. CASE challenge' = challenge
  BY <1>1 DEF Issued
<1>2. CASE challenge' # challenge
  <2>1. PICK c \in Challenges, s \in Screens, k \in Keys, operation \in Operations :
            IssueChallenge(c, s, k, operation)
    BY <1>2 DEF DeviceProofNext, IdentityChange, HandlerStep, AddScreen, ActivateIdentity,
                DetachIdentity, DecommissionScreen, CloseIdentity, Publish, ChallengeExpires,
                SignRequest, Authenticate, Heartbeat, ConsumeManifestProof,
                ResolveContent, AnswerManifest,
                DropRequest, AcceptManifest
  <2>2. [screen |-> s, key |-> k, operation |-> operation] # None
    BY ProofNoneAssumption DEF ChallengeRow
  <2> QED
    BY <2>1, <2>2 DEF IssueChallenge, NextChallenge, Issued, DeviceProofTypeOK
<1> QED
  BY <1>1, <1>2

LEMMA RequestsStep ==
    DeviceProofTypeOK /\ RequestsKnown /\ [DeviceProofNext]_proofVars => RequestsKnown'
<1> SUFFICES ASSUME DeviceProofTypeOK, RequestsKnown, [DeviceProofNext]_proofVars
             PROVE  RequestsKnown'
    OBVIOUS
<1> USE ChallengeStep DEF credentialVars, serverVars, playerVars, proofVars
<1>1. signed' \subseteq Issued' /\ signed \subseteq signed'
  <2>1. signed' = signed \/ \E c \in Issued : signed' = signed \union {c}
    BY DEF DeviceProofNext, IdentityChange, HandlerStep, AddScreen, ActivateIdentity,
           DetachIdentity, DecommissionScreen, CloseIdentity, Publish, IssueChallenge,
           ChallengeExpires, SignRequest, Authenticate, Heartbeat, ConsumeManifestProof,
           ResolveContent,
           AnswerManifest, DropRequest, AcceptManifest
  <2> QED
    BY <2>1 DEF RequestsKnown
<1>2. \A h \in Handlers : handler'[h] # Idle => handler'[h].challenge \in signed
  <2>1. ASSUME NEW h \in Handlers, HandlerStep(h)
        PROVE  \A i \in Handlers : handler'[i] # Idle => handler'[i].challenge \in signed
    <3>1. \/ handler' = [handler EXCEPT ![h] = Idle]
          \/ \E c \in signed : \E step \in Steps :
                 \E first \in Nat : handler' = [handler EXCEPT
                     ![h] = [step |-> step, challenge |-> c, first |-> first]]
      <4>1. ASSUME NEW c \in Challenges, Authenticate(h, c)
            PROVE  handler' = [handler EXCEPT
                       ![h] = [step |-> "AUTHENTICATED", challenge |-> c, first |-> 0]]
                   /\ c \in signed
        BY <4>1 DEF Authenticate
      <4>2. CASE ConsumeManifestProof(h)
        <5>1. handler[h] # Idle
          BY <4>2 DEF ConsumeManifestProof, Idle
        <5> QED
          BY <4>2, <5>1 DEF ConsumeManifestProof, RequestsKnown, Steps, Owing
      <4>3. CASE ResolveContent(h)
        <5>1. handler[h].challenge \in signed
          BY <4>3 DEF ResolveContent, Idle, RequestsKnown
        <5>2. release[challenge[handler[h].challenge].screen] \in Nat
          <6>1. challenge[handler[h].challenge].screen \in Screens
            BY <5>1, ProofNoneAssumption DEF RequestsKnown, Issued, DeviceProofTypeOK,
               ChallengeRow
          <6> QED
            BY <6>1, ProofAssumption DEF DeviceProofTypeOK
        <5> QED
          BY <4>3, <5>1, <5>2 DEF ResolveContent, Steps, Owing
      <4> QED
        BY <2>1, <4>1, <4>2, <4>3
           DEF HandlerStep, Heartbeat, AnswerManifest, DropRequest, Steps, Owing
    <3> QED
      BY <3>1 DEF DeviceProofTypeOK, RequestsKnown
  <2>2. handler' = handler \/ \E h \in Handlers : HandlerStep(h)
    BY DEF DeviceProofNext, IdentityChange, AddScreen, ActivateIdentity, DetachIdentity,
           DecommissionScreen, CloseIdentity, Publish, IssueChallenge, ChallengeExpires,
           SignRequest, AcceptManifest
  <2> QED
    BY <2>1, <2>2 DEF RequestsKnown
<1>3. \A answer \in answers' : answer.challenge \in signed
  <2>1. CASE answers' = answers
    BY <2>1 DEF RequestsKnown
  <2>2. ASSUME NEW h \in Handlers, AnswerManifest(h)
        PROVE  \A answer \in answers' : answer.challenge \in signed
    <3>1. handler[h].challenge \in signed
      BY <2>2 DEF AnswerManifest, Idle, RequestsKnown
    <3> QED
      BY <2>2, <3>1 DEF AnswerManifest, RequestsKnown
  <2> QED
    BY <2>1, <2>2 DEF DeviceProofNext, IdentityChange, HandlerStep, AddScreen, ActivateIdentity,
           DetachIdentity, DecommissionScreen, CloseIdentity, Publish, IssueChallenge,
           ChallengeExpires, SignRequest, Authenticate, Heartbeat, ConsumeManifestProof,
           ResolveContent, DropRequest, AcceptManifest
<1>4. \A k \in Keys : awaited'[k] # None =>
          awaited'[k] \in signed' /\ challenge'[awaited'[k]].key = k
  <2>1. CASE awaited' = awaited
    BY <1>1, <2>1 DEF RequestsKnown
  <2>2. ASSUME NEW c \in Challenges, SignRequest(c)
        PROVE  \A k \in Keys : awaited'[k] # None =>
                   awaited'[k] \in signed' /\ challenge'[awaited'[k]].key = k
    BY <2>2 DEF SignRequest, RequestsKnown, DeviceProofTypeOK
  <2>3. ASSUME NEW k \in Keys, NEW answer \in answers, AcceptManifest(k, answer)
        PROVE  \A j \in Keys : awaited'[j] # None =>
                   awaited'[j] \in signed' /\ challenge'[awaited'[j]].key = j
    BY <2>3 DEF AcceptManifest, RequestsKnown, DeviceProofTypeOK
  <2> QED
    BY <2>1, <2>2, <2>3 DEF DeviceProofNext, IdentityChange, HandlerStep, AddScreen,
           ActivateIdentity, DetachIdentity, DecommissionScreen, CloseIdentity, Publish,
           IssueChallenge, ChallengeExpires, Authenticate, Heartbeat, ConsumeManifestProof,
           ResolveContent,
           AnswerManifest, DropRequest
<1> QED
  BY <1>1, <1>2, <1>3, <1>4 DEF RequestsKnown

LEMMA ProofInitRequests == DeviceProofInit => RequestsKnown
BY DEF DeviceProofInit, RequestsKnown

(* Every state of the device proof protocol has its declared types. *)
THEOREM ProofTypeCorrect == DeviceProofSpec => []DeviceProofTypeOK
<1>1. DeviceProofInit => DeviceProofTypeOK /\ RequestsKnown
  BY ProofInitType, ProofInitRequests
<1>2. DeviceProofTypeOK /\ RequestsKnown /\ [DeviceProofNext]_proofVars
        => (DeviceProofTypeOK /\ RequestsKnown)'
  BY ProofStepType, RequestsStep
<1> QED
  BY <1>1, <1>2, PTL DEF DeviceProofSpec

-----------------------------------------------------------------------------
(* Proofs of a detached identity are void *)

(* What was consumed had been issued, and a snapshot names a consumed challenge. *)
SnapshotConsumed ==
    /\ consumed \subseteq Issued
    /\ \A s \in Screens : telemetry[s] # None => telemetry[s] \in consumed

DetachInv == OpenChallengeHasLiveKey /\ TelemetryFromLiveKey /\ SnapshotConsumed

LEMMA DetachStep ==
    DeviceProofTypeOK /\ RequestsKnown /\ DetachInv /\ [DeviceProofNext]_proofVars => DetachInv'
<1> SUFFICES ASSUME DeviceProofTypeOK, RequestsKnown, DetachInv, [DeviceProofNext]_proofVars
             PROVE  DetachInv'
    OBVIOUS
<1> USE ProofNoneAssumption, ChallengeStep
<1> USE DEF credentialVars, serverVars, playerVars, proofVars, DetachInv
<1>1. ASSUME NEW s \in Screens, CloseIdentity(s), live' = [live EXCEPT ![s] = {}]
      PROVE  DetachInv'
  <2>1. OpenChallengeHasLiveKey'
    BY <1>1 DEF CloseIdentity, OpenChallengeHasLiveKey, Live, Issued, DeviceProofTypeOK,
                CredentialTypeOK, ChallengeRow
  <2>2. TelemetryFromLiveKey'
    BY <1>1 DEF CloseIdentity, TelemetryFromLiveKey, DeviceProofTypeOK, CredentialTypeOK
  <2>3. SnapshotConsumed'
    BY <1>1 DEF CloseIdentity, SnapshotConsumed, Live, Issued, DeviceProofTypeOK
  <2> QED
    BY <2>1, <2>2, <2>3
<1>2. ASSUME NEW s \in Screens, IdentityChange(s) PROVE DetachInv'
  <2>1. CASE AddScreen(s)
    BY <2>1 DEF AddScreen, CreateScreen, OpenChallengeHasLiveKey, TelemetryFromLiveKey,
                SnapshotConsumed, Live, Issued
  <2>2. ASSUME NEW k \in Keys, ActivateIdentity(s, k) PROVE DetachInv'
    <3>1. /\ live[s] = {} /\ live' = [live EXCEPT ![s] = {k}]
          /\ telemetry' = [telemetry EXCEPT ![s] = None]
          /\ UNCHANGED <<challenge, consumed, expired>>
      BY <2>2 DEF ActivateIdentity, Install
    <3>2. OpenChallengeHasLiveKey'
      BY <3>1 DEF OpenChallengeHasLiveKey, Live, Issued, DeviceProofTypeOK, CredentialTypeOK,
                  ChallengeRow
    <3>3. TelemetryFromLiveKey' /\ SnapshotConsumed'
      BY <3>1 DEF TelemetryFromLiveKey, SnapshotConsumed, Issued, DeviceProofTypeOK,
                  CredentialTypeOK
    <3> QED
      BY <3>2, <3>3
  <2>3. CASE DetachIdentity(s)
    BY <2>3, <1>1 DEF DetachIdentity, Fence
  <2>4. CASE DecommissionScreen(s)
    BY <2>4, <1>1 DEF DecommissionScreen, RemoveScreen
  <2> QED
    BY <1>2, <2>1, <2>2, <2>3, <2>4 DEF IdentityChange
<1>3. ASSUME NEW c \in Challenges, NEW s \in Screens, NEW k \in Keys,
             NEW operation \in Operations, IssueChallenge(c, s, k, operation)
      PROVE  DetachInv'
  <2> DEFINE row == [screen |-> s, key |-> k, operation |-> operation]
  <2>1. /\ c \notin Issued /\ k \in live[s] /\ challenge' = [challenge EXCEPT ![c] = row]
        /\ UNCHANGED <<live, consumed, expired, telemetry>>
    BY <1>3 DEF IssueChallenge, NextChallenge
  <2>2. row.screen = s /\ row.key = k
    OBVIOUS
  <2> HIDE DEF row
  <2>3. challenge'[c] = row /\ \A d \in Challenges \ {c} : challenge'[d] = challenge[d]
    BY <2>1 DEF DeviceProofTypeOK
  <2>4. OpenChallengeHasLiveKey'
    BY <2>1, <2>2, <2>3 DEF OpenChallengeHasLiveKey, Live, Issued
  <2>5. SnapshotConsumed' /\ TelemetryFromLiveKey'
    BY <2>1 DEF SnapshotConsumed, TelemetryFromLiveKey
  <2> QED
    BY <2>4, <2>5
<1>4. ASSUME NEW h \in Handlers, HandlerStep(h) PROVE DetachInv'
  <2> DEFINE c == handler[h].challenge
  <2>1. CASE Heartbeat(h)
    <3>1. /\ ProofHolds(c) /\ consumed' = consumed \union {c}
          /\ telemetry' = [telemetry EXCEPT ![challenge[c].screen] = c]
          /\ UNCHANGED <<challenge, expired, live>>
      BY <2>1 DEF Heartbeat
    <3> HIDE DEF c
    <3>2. OpenChallengeHasLiveKey' /\ SnapshotConsumed'
      BY <3>1 DEF OpenChallengeHasLiveKey, SnapshotConsumed, Live, Issued, ProofHolds,
                  DeviceProofTypeOK
    <3>3. TelemetryFromLiveKey'
      BY <3>1 DEF TelemetryFromLiveKey, ProofHolds, DeviceProofTypeOK
    <3> QED
      BY <3>2, <3>3
  <2>2. CASE ConsumeManifestProof(h)
    <3>1. /\ ProofHolds(c) /\ consumed' = consumed \union {c}
          /\ UNCHANGED <<challenge, expired, live, telemetry>>
      BY <2>2 DEF ConsumeManifestProof
    <3> HIDE DEF c
    <3> QED
      BY <3>1 DEF OpenChallengeHasLiveKey, TelemetryFromLiveKey, SnapshotConsumed, Live, Issued,
                  ProofHolds
  <2>3. CASE UNCHANGED <<challenge, consumed, expired, live, telemetry>>
    BY <2>3 DEF OpenChallengeHasLiveKey, TelemetryFromLiveKey, SnapshotConsumed, Live, Issued
  <2> QED
    BY <1>4, <2>1, <2>2, <2>3
       DEF HandlerStep, Authenticate, ResolveContent, AnswerManifest, DropRequest
<1>5. ASSUME UNCHANGED <<challenge, consumed, live, telemetry>>, expired \subseteq expired'
      PROVE  DetachInv'
  BY <1>5 DEF OpenChallengeHasLiveKey, TelemetryFromLiveKey, SnapshotConsumed, Live, Issued
<1> QED
  BY <1>2, <1>3, <1>4, <1>5
     DEF DeviceProofNext, Publish, ChallengeExpires, SignRequest, AcceptManifest

(* Whatever requests, handlers and identity changes interleave, the status and
   snapshot of a Screen come from a heartbeat of its current key. *)
THEOREM TelemetryCorrect == DeviceProofSpec => []TelemetryFromLiveKey
<1>1. DeviceProofInit => DetachInv
  BY DEF DeviceProofInit, DetachInv, OpenChallengeHasLiveKey, TelemetryFromLiveKey,
         SnapshotConsumed, Issued
<1>2. DetachInv => TelemetryFromLiveKey
  BY DEF DetachInv
<1> QED
  BY <1>1, <1>2, ProofInitType, ProofInitRequests, ProofStepType, RequestsStep, DetachStep, PTL
     DEF DeviceProofSpec

(* No challenge of a detached credential is left open. *)
THEOREM OpenChallengeCorrect == DeviceProofSpec => []OpenChallengeHasLiveKey
<1>1. DeviceProofInit => DetachInv
  BY DEF DeviceProofInit, DetachInv, OpenChallengeHasLiveKey, TelemetryFromLiveKey,
         SnapshotConsumed, Issued
<1>2. DetachInv => OpenChallengeHasLiveKey
  BY DEF DetachInv
<1> QED
  BY <1>1, <1>2, ProofInitType, ProofInitRequests, ProofStepType, RequestsStep, DetachStep, PTL
     DEF DeviceProofSpec

-----------------------------------------------------------------------------
(* A proof is acted on once *)

(* Either nothing happened for a challenge, or one handler consumed it and
   still owes its effect, or the one effect happened. *)
UseInv ==
    /\ consumed \subseteq Issued
    /\ \A c \in Challenges : effects[c] = 0 \/ (effects[c] = 1 /\ c \in consumed)
    /\ \A h \in Handlers : handler[h].step \in Owing =>
           effects[handler[h].challenge] = 0 /\ handler[h].challenge \in consumed
    /\ \A h, i \in Handlers :
           handler[h].step \in Owing /\ handler[i].step \in Owing
           /\ handler[h].challenge = handler[i].challenge => h = i

LEMMA UseStep ==
    DeviceProofTypeOK /\ RequestsKnown /\ UseInv /\ [DeviceProofNext]_proofVars => UseInv'
<1> SUFFICES ASSUME DeviceProofTypeOK, RequestsKnown, UseInv, [DeviceProofNext]_proofVars
             PROVE  UseInv'
    OBVIOUS
<1> USE ProofNoneAssumption, ChallengeStep, BusyHandler
<1> USE DEF credentialVars, serverVars, playerVars, proofVars
<1>1. ASSUME UNCHANGED <<effects, handler>>, consumed \subseteq consumed',
             consumed' \subseteq Issued'
      PROVE  UseInv'
  BY <1>1 DEF UseInv
<1>2. ASSUME NEW h \in Handlers, handler'[h].step \notin Owing,
             \A i \in Handlers \ {h} : handler'[i] = handler[i],
             UNCHANGED <<effects, consumed>>
      PROVE  UseInv'
  BY <1>2 DEF UseInv
<1>3. ASSUME NEW h \in Handlers, HandlerStep(h) PROVE UseInv'
  <2> DEFINE c == handler[h].challenge
  <2>1. ASSUME NEW d \in Challenges, Authenticate(h, d) PROVE UseInv'
    BY <2>1, <1>2 DEF Authenticate, DeviceProofTypeOK, Owing
  <2>2. CASE Heartbeat(h)
    <3>1. /\ ProofHolds(c) /\ consumed' = consumed \union {c}
          /\ effects' = [effects EXCEPT ![c] = @ + 1]
          /\ handler' = [handler EXCEPT ![h] = Idle] /\ challenge' = challenge
      BY <2>2 DEF Heartbeat
    <3>2. c \in Issued /\ c \notin consumed /\ c \in Challenges
      BY <3>1 DEF ProofHolds, Live, Issued
    <3>3. effects[c] = 0 /\ Idle.step \notin Owing
      BY <3>2 DEF UseInv, Idle, Owing
    <3> HIDE DEF c
    <3>4. \A i \in Handlers : handler'[i].step \in Owing =>
              i # h /\ handler'[i] = handler[i] /\ handler[i].challenge # c
      BY <3>1, <3>2, <3>3 DEF UseInv, DeviceProofTypeOK
    <3>5. \A d \in Challenges : effects'[d] = IF d = c THEN 1 ELSE effects[d]
      BY <3>1, <3>2, <3>3 DEF DeviceProofTypeOK
    <3>6. \A i \in Handlers : handler'[i].step \in Owing => handler'[i].challenge \in Challenges
      BY <3>4 DEF Owing
    <3> QED
      BY <3>1, <3>2, <3>4, <3>5, <3>6 DEF UseInv, Issued
  <2>3. CASE ConsumeManifestProof(h)
    <3>1. /\ ProofHolds(c) /\ consumed' = consumed \union {c}
          /\ handler' = [handler EXCEPT ![h] = [step |-> "CONSUMED", challenge |-> c, first |-> 0]]
          /\ UNCHANGED <<challenge, effects>>
      BY <2>3 DEF ConsumeManifestProof
    <3>2. c \in Issued /\ c \notin consumed /\ c \in Challenges
      BY <3>1 DEF ProofHolds, Live, Issued
    <3>3. effects[c] = 0
      BY <3>2 DEF UseInv
    <3> HIDE DEF c
    <3>4. /\ handler'[h].challenge = c
          /\ \A i \in Handlers \ {h} : handler'[i] = handler[i]
          /\ \A i \in Handlers \ {h} : handler[i].step \in Owing => handler[i].challenge # c
      BY <3>1, <3>2 DEF UseInv, DeviceProofTypeOK
    <3> QED
      BY <3>1, <3>2, <3>3, <3>4 DEF UseInv, Issued
  <2>4. CASE AnswerManifest(h)
    <3>1. /\ handler[h].step \in Owing /\ c \in Challenges
          /\ effects' = [effects EXCEPT ![c] = @ + 1]
          /\ handler' = [handler EXCEPT ![h] = Idle]
          /\ UNCHANGED <<challenge, consumed>>
      BY <2>4 DEF AnswerManifest, Owing
    <3>2. effects[c] = 0 /\ c \in consumed /\ Idle.step \notin Owing
      BY <3>1 DEF UseInv, Idle, Owing
    <3>3. \A i \in Handlers : handler'[i].step \in Owing =>
              i # h /\ handler'[i] = handler[i] /\ handler[i].challenge # c
      BY <3>1, <3>2 DEF UseInv, DeviceProofTypeOK
    <3> HIDE DEF c
    <3>4. \A d \in Challenges : effects'[d] = IF d = c THEN 1 ELSE effects[d]
      BY <3>1, <3>2 DEF DeviceProofTypeOK
    <3>5. \A i \in Handlers : handler'[i].step \in Owing => handler'[i].challenge \in Challenges
      BY <3>3 DEF Owing
    <3> QED
      BY <3>1, <3>2, <3>3, <3>4, <3>5 DEF UseInv
  <2>5. CASE DropRequest(h)
    BY <2>5, <1>2 DEF DropRequest, DeviceProofTypeOK, Idle, Owing
  <2>6. CASE ResolveContent(h)
    <3>1. /\ handler[h].step \in Owing /\ handler'[h].challenge = c
          /\ \A i \in Handlers \ {h} : handler'[i] = handler[i]
          /\ UNCHANGED <<challenge, consumed, effects>>
      BY <2>6 DEF ResolveContent, DeviceProofTypeOK, Owing
    <3> HIDE DEF c
    <3> QED
      BY <3>1 DEF UseInv, Issued, c
  <2> QED
    BY <1>3, <2>1, <2>2, <2>3, <2>4, <2>5, <2>6 DEF HandlerStep
<1>4. ASSUME NEW s \in Screens, CloseIdentity(s) PROVE UseInv'
  BY <1>4, <1>1 DEF CloseIdentity, UseInv, Live
<1> QED
  BY <1>1, <1>3, <1>4
     DEF DeviceProofNext, IdentityChange, AddScreen, ActivateIdentity, DetachIdentity,
         DecommissionScreen, Publish, IssueChallenge, ChallengeExpires, SignRequest,
         AcceptManifest, UseInv

(* However often requests are delivered and handlers interleave, a challenge
   authorizes one snapshot or one manifest. *)
THEOREM ActedOnOnceCorrect == DeviceProofSpec => []ActedOnOnce
<1>1. DeviceProofInit => UseInv
  BY DEF DeviceProofInit, UseInv, Idle, Owing
<1>2. UseInv /\ DeviceProofTypeOK => ActedOnOnce
  BY DEF UseInv, ActedOnOnce, DeviceProofTypeOK
<1> QED
  BY <1>1, <1>2, ProofInitType, ProofInitRequests, ProofStepType, RequestsStep, UseStep, PTL
     DEF DeviceProofSpec

-----------------------------------------------------------------------------
(* A device never goes back to an earlier release *)

(* A key serves one Screen: the one it is live on, and the one its challenges
   were issued for. *)
KeyHasOneScreen ==
    /\ \A s \in Screens : live[s] \subseteq spent
    /\ \A c \in Issued : challenge[c].key \in spent
    /\ \A s, t \in Screens : \A k \in live[s] : k \in live[t] => s = t
    /\ \A c \in Issued : \A s \in Screens : challenge[c].key \in live[s] => s = challenge[c].screen
    /\ \A c, d \in Issued : challenge[c].key = challenge[d].key => challenge[c].screen = challenge[d].screen

LEMMA KeyStep ==
    DeviceProofTypeOK /\ KeyHasOneScreen /\ [DeviceProofNext]_proofVars => KeyHasOneScreen'
<1> SUFFICES ASSUME DeviceProofTypeOK, KeyHasOneScreen, [DeviceProofNext]_proofVars
             PROVE  KeyHasOneScreen'
    OBVIOUS
<1> USE ProofNoneAssumption
<1> USE DEF credentialVars, serverVars, playerVars, proofVars
<1>1. ASSUME challenge' = challenge, spent \subseteq spent',
             \A s \in Screens : live'[s] \subseteq live[s]
      PROVE  KeyHasOneScreen'
  BY <1>1 DEF KeyHasOneScreen, Issued
<1>2. ASSUME NEW s \in Screens, NEW k \in Keys, ActivateIdentity(s, k) PROVE KeyHasOneScreen'
  <2>1. /\ challenge' = challenge /\ live' = [live EXCEPT ![s] = {k}] /\ live[s] = {}
        /\ k \notin spent /\ spent' = spent \union {k}
    BY <1>2 DEF ActivateIdentity, Install
  <2> QED
    BY <2>1 DEF KeyHasOneScreen, Issued, DeviceProofTypeOK, CredentialTypeOK
<1>3. ASSUME NEW c \in Challenges, NEW s \in Screens, NEW k \in Keys,
             NEW operation \in Operations, IssueChallenge(c, s, k, operation)
      PROVE  KeyHasOneScreen'
  <2> DEFINE row == [screen |-> s, key |-> k, operation |-> operation]
  <2>1. /\ c \notin Issued /\ k \in live[s] /\ challenge' = [challenge EXCEPT ![c] = row]
        /\ UNCHANGED <<live, spent>>
    BY <1>3 DEF IssueChallenge, NextChallenge
  <2>2. row.screen = s /\ row.key = k
    OBVIOUS
  <2> HIDE DEF row
  <2>3. challenge'[c] = row /\ \A d \in Challenges \ {c} : challenge'[d] = challenge[d]
    BY <2>1 DEF DeviceProofTypeOK
  <2> QED
    BY <2>1, <2>2, <2>3 DEF KeyHasOneScreen, Issued
<1> QED
  BY <1>1, <1>2, <1>3
     DEF DeviceProofNext, IdentityChange, HandlerStep, AddScreen, CreateScreen, DetachIdentity,
         Fence, DecommissionScreen, RemoveScreen, CloseIdentity, Publish, ChallengeExpires,
         SignRequest, Authenticate, Heartbeat, ConsumeManifestProof,
         ResolveContent, AnswerManifest, DropRequest,
         AcceptManifest, DeviceProofTypeOK, CredentialTypeOK

(* Nothing shown, answered or being resolved is ahead of the Screen's release,
   and neither an answer to the open request nor what is being read for it is
   behind what the player shows: every one of those reads follows the request,
   and the request follows the manifest shown. *)
ContentInv ==
    /\ \A k \in Keys : shown[k] = NoContent \/ \E c \in Issued : challenge[c].key = k
    /\ \A c \in Issued : shown[challenge[c].key].last <= release[challenge[c].screen]
    /\ \A answer \in answers : /\ answer.content.first <= answer.content.last
                               /\ answer.content.last <= release[challenge[answer.challenge].screen]
    /\ \A k \in Keys : \A answer \in answers :
           answer.challenge = awaited[k] => shown[k].last <= answer.content.first
    /\ \A h \in Handlers : handler[h].step = "RESOLVING" =>
           /\ handler[h].first <= release[challenge[handler[h].challenge].screen]
           /\ \A k \in Keys : handler[h].challenge = awaited[k] =>
                  shown[k].last <= handler[h].first

LEMMA IssuedRow ==
    ASSUME DeviceProofTypeOK, NEW c \in Issued
    PROVE  c \in Challenges /\ challenge[c].screen \in Screens /\ challenge[c].key \in Keys
BY DEF DeviceProofTypeOK, Issued, ChallengeRow

LEMMA ReleaseTypes ==
    ASSUME DeviceProofTypeOK
    PROVE  /\ \A k \in Keys : shown[k].first \in Nat /\ shown[k].last \in Nat
           /\ \A s \in Screens : release[s] \in Nat
           /\ \A h \in Handlers : handler[h].first \in Nat
           /\ \A answer \in answers : /\ answer.content.first \in Nat
                                      /\ answer.content.last \in Nat
                                      /\ answer.challenge \in Challenges
BY ProofAssumption DEF DeviceProofTypeOK, Answer, Content, HandlerState, Idle

(* Rows, answers and players that a step leaves alone keep ContentInv, as long
   as no release goes back and a handler that is resolving was so before. *)
LEMMA ContentKept ==
    ASSUME DeviceProofTypeOK, RequestsKnown, ContentInv,
           UNCHANGED <<challenge, answers, awaited, shown>>,
           \A s \in Screens : release'[s] \in Nat /\ release'[s] >= release[s],
           \A h \in Handlers : handler'[h].step = "RESOLVING" => handler'[h] = handler[h]
    PROVE  ContentInv'
<1> USE IssuedRow, ReleaseTypes
<1>1. Issued' = Issued
  BY DEF Issued
<1>2. \A c \in Issued : release[challenge[c].screen] <= release'[challenge[c].screen]
                        /\ release'[challenge[c].screen] \in Nat
  OBVIOUS
<1>3. \A c \in Issued : shown[challenge[c].key].last <= release'[challenge[c].screen]
  BY <1>2 DEF ContentInv
<1>4. \A answer \in answers : answer.content.last <= release'[challenge[answer.challenge].screen]
  BY <1>2 DEF ContentInv, RequestsKnown
<1>5. ASSUME NEW h \in Handlers, handler'[h].step = "RESOLVING"
      PROVE  /\ handler'[h].first <= release'[challenge[handler'[h].challenge].screen]
             /\ \A k \in Keys : handler'[h].challenge = awaited[k] =>
                    shown[k].last <= handler'[h].first
  <2>1. handler'[h] = handler[h] /\ handler[h].step = "RESOLVING"
    BY <1>5
  <2>2. handler[h].challenge \in Issued
    BY <2>1 DEF RequestsKnown, Idle
  <2>3. handler[h].first <= release[challenge[handler[h].challenge].screen]
    BY <2>1 DEF ContentInv
  <2> QED
    BY <2>1, <2>2, <2>3, <1>2 DEF ContentInv
<1> QED
  BY <1>1, <1>3, <1>4, <1>5 DEF ContentInv

LEMMA ContentStep ==
    DeviceProofTypeOK /\ RequestsKnown /\ KeyHasOneScreen /\ ContentInv
        /\ [DeviceProofNext]_proofVars => ContentInv'
<1> SUFFICES ASSUME DeviceProofTypeOK, RequestsKnown, KeyHasOneScreen, ContentInv,
                    [DeviceProofNext]_proofVars
             PROVE  ContentInv'
    OBVIOUS
<1> USE ProofAssumption, ProofNoneAssumption, BusyHandler, IssuedRow, ReleaseTypes
<1> USE DEF credentialVars, serverVars, playerVars, proofVars
<1>1. CASE UNCHANGED <<challenge, answers, awaited, shown, release, handler>>
  BY <1>1, ContentKept
<1>2. ASSUME NEW s \in Screens, Publish(s) PROVE ContentInv'
  <2>1. /\ UNCHANGED <<challenge, answers, awaited, shown, handler>>
        /\ \A t \in Screens : release'[t] \in Nat /\ release'[t] >= release[t]
    BY <1>2 DEF Publish, DeviceProofTypeOK
  <2> QED
    BY <2>1, ContentKept
<1>3. ASSUME NEW c \in Challenges, NEW s \in Screens, NEW k \in Keys,
             NEW operation \in Operations, IssueChallenge(c, s, k, operation)
      PROVE  ContentInv'
  <2> DEFINE row == [screen |-> s, key |-> k, operation |-> operation]
  <2>1. /\ c \notin Issued /\ k \in live[s] /\ challenge' = [challenge EXCEPT ![c] = row]
        /\ UNCHANGED <<answers, awaited, shown, release, handler>>
    BY <1>3 DEF IssueChallenge, NextChallenge
  <2>2. row.screen = s /\ row.key = k /\ row # None
    BY DEF ChallengeRow
  <2> HIDE DEF row
  <2>3. challenge'[c] = row /\ \A d \in Challenges \ {c} : challenge'[d] = challenge[d]
    BY <2>1 DEF DeviceProofTypeOK
  <2>4. Issued' = Issued \union {c}
    BY <2>2, <2>3 DEF Issued
  <2>5. shown[k].last <= release[s]
    <3>1. release[s] \in Nat
      BY DEF DeviceProofTypeOK
    <3>2. CASE shown[k] = NoContent
      BY <3>1, <3>2 DEF NoContent
    <3>3. CASE \E d \in Issued : challenge[d].key = k
      BY <2>1, <3>3 DEF KeyHasOneScreen, ContentInv
    <3> QED
      BY <3>2, <3>3 DEF ContentInv
  <2>6. \A d \in Issued : challenge'[d] = challenge[d]
    BY <2>1, <2>3 DEF Issued
  <2>7. \A answer \in answers : answer.challenge \in Issued
    BY DEF RequestsKnown
  <2>8. \A h \in Handlers : handler[h].step = "RESOLVING" => handler[h].challenge \in Issued
    BY DEF RequestsKnown, Idle
  <2>9. /\ \A j \in Keys : shown[j] = NoContent \/ \E d \in Issued' : challenge'[d].key = j
        /\ \A d \in Issued' : shown[challenge'[d].key].last <= release[challenge'[d].screen]
    BY <2>2, <2>3, <2>4, <2>5, <2>6 DEF ContentInv
  <2>10. \A answer \in answers : /\ answer.content.first <= answer.content.last
                                 /\ answer.content.last <= release[challenge'[answer.challenge].screen]
    BY <2>6, <2>7 DEF ContentInv
  <2>11. \A h \in Handlers : handler[h].step = "RESOLVING" =>
             /\ handler[h].first <= release[challenge'[handler[h].challenge].screen]
             /\ \A j \in Keys : handler[h].challenge = awaited[j] => shown[j].last <= handler[h].first
    BY <2>6, <2>8 DEF ContentInv
  <2> QED
    BY <2>1, <2>9, <2>10, <2>11 DEF ContentInv
<1>4. ASSUME NEW c \in Challenges, SignRequest(c) PROVE ContentInv'
  <2>1. \A answer \in answers : answer.challenge # c
    BY <1>4 DEF SignRequest, RequestsKnown
  <2>2. \A h \in Handlers : handler[h].step = "RESOLVING" => handler[h].challenge # c
    BY <1>4 DEF SignRequest, RequestsKnown, Idle
  <2>3. /\ UNCHANGED <<challenge, answers, shown, release, handler>>
        /\ \A k \in Keys : awaited'[k] \in {awaited[k], c}
    BY <1>4 DEF SignRequest, DeviceProofTypeOK
  <2> QED
    BY <2>1, <2>2, <2>3 DEF ContentInv, Issued
<1>5. ASSUME NEW h \in Handlers, HandlerStep(h) PROVE ContentInv'
  <2> DEFINE c == handler[h].challenge
             now == release[challenge[c].screen]
  <2>1. CASE ResolveContent(h)
    <3>1. /\ handler' = [handler EXCEPT ![h] = [step |-> "RESOLVING", challenge |-> c, first |-> now]]
          /\ UNCHANGED <<challenge, answers, awaited, shown, release>>
          /\ c \in Issued
      BY <2>1 DEF ResolveContent, RequestsKnown, Idle
    <3>2. now \in Nat /\ now = release[challenge[c].screen]
      BY <3>1
    <3>3. \A k \in Keys : c = awaited[k] => shown[k].last <= now
      <4>1. \A k \in Keys : c = awaited[k] => challenge[c].key = k
        BY <3>1 DEF RequestsKnown, DeviceProofTypeOK, Issued
      <4> QED
        BY <3>1, <4>1 DEF ContentInv
    <3> HIDE DEF c, now
    <3>4. /\ handler'[h] = [step |-> "RESOLVING", challenge |-> c, first |-> now]
          /\ \A i \in Handlers \ {h} : handler'[i] = handler[i]
      BY <3>1 DEF DeviceProofTypeOK
    <3>5. handler'[h].challenge = c /\ handler'[h].first = now
      BY <3>4
    <3>6. ASSUME NEW i \in Handlers, handler'[i].step = "RESOLVING"
          PROVE  /\ handler'[i].first <= release[challenge[handler'[i].challenge].screen]
                 /\ \A k \in Keys : handler'[i].challenge = awaited[k] =>
                        shown[k].last <= handler'[i].first
      <4>1. CASE i = h
        BY <4>1, <3>2, <3>3, <3>5
      <4>2. CASE i # h
        BY <4>2, <3>4, <3>6 DEF ContentInv
      <4> QED
        BY <4>1, <4>2
    <3> QED
      BY <3>1, <3>6 DEF ContentInv, Issued
  <2>2. CASE AnswerManifest(h)
    <3> DEFINE new == [challenge |-> c, content |-> [first |-> handler[h].first, last |-> now]]
    <3>1. /\ answers' = answers \union {new}
          /\ handler[h].step = "RESOLVING" /\ handler' = [handler EXCEPT ![h] = Idle]
          /\ UNCHANGED <<challenge, awaited, shown, release>>
      BY <2>2 DEF AnswerManifest
    <3>2. /\ new.challenge = c /\ new.content.first = handler[h].first
          /\ new.content.last = release[challenge[new.challenge].screen]
      OBVIOUS
    <3>3. /\ handler[h].first <= release[challenge[c].screen]
          /\ \A k \in Keys : c = awaited[k] => shown[k].last <= handler[h].first
      BY <3>1 DEF ContentInv
    <3>4. release[challenge[c].screen] \in Nat
      BY <3>1 DEF RequestsKnown, Idle
    <3> HIDE DEF new, c
    <3>5. \A i \in Handlers : handler'[i].step = "RESOLVING" => handler'[i] = handler[i]
      BY <3>1 DEF Idle, DeviceProofTypeOK
    <3>6. /\ new.content.first <= new.content.last
          /\ new.content.last <= release[challenge[new.challenge].screen]
          /\ \A k \in Keys : new.challenge = awaited[k] => shown[k].last <= new.content.first
      BY <3>2, <3>3, <3>4
    <3>7. \A answer \in answers' :
              /\ answer.content.first <= answer.content.last
              /\ answer.content.last <= release[challenge[answer.challenge].screen]
              /\ \A k \in Keys : answer.challenge = awaited[k] =>
                     shown[k].last <= answer.content.first
      BY <3>1, <3>6 DEF ContentInv
    <3> QED
      BY <3>1, <3>5, <3>7 DEF ContentInv, Issued
  <2>3. CASE UNCHANGED <<challenge, answers, awaited, shown, release>>
             /\ \A i \in Handlers : handler'[i].step = "RESOLVING" => handler'[i] = handler[i]
    BY <2>3, ContentKept
  <2>4. ASSUME NEW d \in Challenges, Authenticate(h, d)
        PROVE  \A i \in Handlers : handler'[i].step = "RESOLVING" => handler'[i] = handler[i]
    BY <2>4 DEF Authenticate, DeviceProofTypeOK
  <2>5. CASE Heartbeat(h) \/ ConsumeManifestProof(h) \/ DropRequest(h)
    <3>1. \E state : /\ state.step # "RESOLVING" /\ handler' = [handler EXCEPT ![h] = state]
      BY <2>5 DEF Heartbeat, ConsumeManifestProof, DropRequest, Idle
    <3>2. \A i \in Handlers : handler'[i].step = "RESOLVING" => handler'[i] = handler[i]
      BY <3>1 DEF DeviceProofTypeOK
    <3> QED
      BY <2>3, <2>5, <3>2 DEF Heartbeat, ConsumeManifestProof, DropRequest
  <2> QED
    BY <1>5, <2>1, <2>2, <2>3, <2>4, <2>5 DEF HandlerStep, Authenticate
<1>6. ASSUME NEW k \in Keys, NEW answer \in answers, AcceptManifest(k, answer) PROVE ContentInv'
  <2>1. /\ awaited[k] # None /\ answer.challenge = awaited[k]
        /\ shown' = [shown EXCEPT ![k] = answer.content]
        /\ awaited' = [awaited EXCEPT ![k] = None]
        /\ UNCHANGED <<challenge, answers, release, handler>>
    BY <1>6 DEF AcceptManifest
  <2>2. awaited[k] \in Issued /\ challenge[awaited[k]].key = k
    BY <2>1 DEF RequestsKnown
  <2>3. \A c \in Issued : challenge[c].key = k => answer.content.last <= release[challenge[c].screen]
    BY <2>1, <2>2 DEF ContentInv, KeyHasOneScreen
  <2>4. \A j \in Keys : shown'[j] = IF j = k THEN answer.content ELSE shown[j]
    BY <2>1 DEF DeviceProofTypeOK
  <2>5. \A j \in Keys : awaited'[j] = IF j = k THEN None ELSE awaited[j]
    BY <2>1 DEF DeviceProofTypeOK
  <2>6. \A c \in Issued : challenge[c].key \in Keys
    OBVIOUS
  <2>7. /\ \A other \in answers : other.challenge # None
        /\ \A h \in Handlers : handler[h].step = "RESOLVING" => handler[h].challenge # None
    BY DEF DeviceProofTypeOK, Answer, HandlerState, Idle
  <2>8. \A j \in Keys : shown'[j] = NoContent \/ \E c \in Issued : challenge[c].key = j
    BY <2>2, <2>4 DEF ContentInv
  <2>9. \A c \in Issued : shown'[challenge[c].key].last <= release[challenge[c].screen]
    BY <2>3, <2>4, <2>6 DEF ContentInv
  <2>10. \A j \in Keys : \A other \in answers :
             other.challenge = awaited'[j] => shown'[j].last <= other.content.first
    BY <2>4, <2>5, <2>7 DEF ContentInv
  <2>11. Issued' = Issued /\ release' = release /\ challenge' = challenge
         /\ answers' = answers /\ handler' = handler
    BY <2>1 DEF Issued
  <2>12. \A h \in Handlers : handler[h].step = "RESOLVING" =>
             \A j \in Keys : handler[h].challenge = awaited'[j] => shown'[j].last <= handler[h].first
    BY <2>4, <2>5, <2>7 DEF ContentInv
  <2> QED
    BY <2>8, <2>9, <2>10, <2>11, <2>12 DEF ContentInv
<1> QED
  BY <1>1, <1>2, <1>3, <1>4, <1>5, <1>6
     DEF DeviceProofNext, IdentityChange, AddScreen, ActivateIdentity, DetachIdentity,
         DecommissionScreen, CloseIdentity, ChallengeExpires

(* For any number of Screens, devices and requests, and any delay, loss or
   duplication of answers, nothing a device accepts is older than what it showed. *)
THEOREM ManifestCorrect == DeviceProofSpec => ManifestNeverGoesBack
<1> DEFINE I == DeviceProofTypeOK /\ RequestsKnown /\ KeyHasOneScreen /\ ContentInv
<1>1. DeviceProofInit => I
  <2>1. DeviceProofInit => KeyHasOneScreen /\ ContentInv
    BY DEF DeviceProofInit, CredentialInit, KeyHasOneScreen, ContentInv, Issued, Idle
  <2> QED
    BY <2>1, ProofInitType, ProofInitRequests
<1>2. I /\ [DeviceProofNext]_proofVars => I'
  BY ProofStepType, RequestsStep, KeyStep, ContentStep
<1>3. I /\ [DeviceProofNext]_proofVars =>
          [\A k \in Keys : shown'[k] # shown[k] => shown'[k].first >= shown[k].last]_proofVars
  <2> SUFFICES ASSUME I, [DeviceProofNext]_proofVars
               PROVE  \A k \in Keys : shown'[k] # shown[k] => shown'[k].first >= shown[k].last
      OBVIOUS
  <2>1. CASE shown' = shown
    BY <2>1
  <2>2. ASSUME NEW k \in Keys, NEW answer \in answers, AcceptManifest(k, answer)
        PROVE  \A j \in Keys : shown'[j] # shown[j] => shown'[j].first >= shown[j].last
    <3>1. shown[k].last <= answer.content.first
      BY <2>2 DEF AcceptManifest, ContentInv
    <3>2. answer.content.first \in Nat /\ shown[k].last \in Nat
      BY ReleaseTypes
    <3>3. shown' = [shown EXCEPT ![k] = answer.content]
      BY <2>2 DEF AcceptManifest
    <3> QED
      BY <3>1, <3>2, <3>3 DEF DeviceProofTypeOK
  <2> QED
    BY <2>1, <2>2
       DEF DeviceProofNext, IdentityChange, HandlerStep, AddScreen, ActivateIdentity,
           DetachIdentity, DecommissionScreen, CloseIdentity, Publish, IssueChallenge,
           ChallengeExpires, SignRequest, Authenticate, Heartbeat, ConsumeManifestProof,
           ResolveContent, AnswerManifest, DropRequest, playerVars, proofVars
<1> QED
  BY <1>1, <1>2, <1>3, PTL DEF DeviceProofSpec, ManifestNeverGoesBack

-----------------------------------------------------------------------------
(* The limit of open challenges *)

LimitInv == \A k \in Keys, operation \in Operations :
    /\ IsFiniteSet(LiveChallenges(k, operation))
    /\ Cardinality(LiveChallenges(k, operation)) <= MaxLiveChallenges

LEMMA LimitStep ==
    DeviceProofTypeOK /\ LimitInv /\ [DeviceProofNext]_proofVars => LimitInv'
<1> SUFFICES ASSUME DeviceProofTypeOK, LimitInv, [DeviceProofNext]_proofVars,
                    NEW k \in Keys, NEW operation \in Operations
             PROVE  /\ IsFiniteSet(LiveChallenges(k, operation)')
                    /\ Cardinality(LiveChallenges(k, operation)') <= MaxLiveChallenges
    BY DEF LimitInv
<1> USE ProofAssumption, ProofNoneAssumption
<1> DEFINE L == LiveChallenges(k, operation)
           M == LiveChallenges(k, operation)'
<1>1. IsFiniteSet(L) /\ Cardinality(L) <= MaxLiveChallenges /\ Cardinality(L) \in Nat
  BY FS_CardinalityType DEF LimitInv
<1>2. ASSUME M \subseteq L PROVE IsFiniteSet(M) /\ Cardinality(M) <= MaxLiveChallenges
  <2> HIDE DEF L, M
  <2>1. IsFiniteSet(M) /\ Cardinality(M) <= Cardinality(L) /\ Cardinality(M) \in Nat
    BY <1>1, <1>2, FS_Subset, FS_CardinalityType
  <2> QED
    BY <1>1, <2>1
<1>3. ASSUME NEW c \in Challenges, NEW s \in Screens, NEW j \in Keys, NEW o \in Operations,
             IssueChallenge(c, s, j, o)
      PROVE  IsFiniteSet(M) /\ Cardinality(M) <= MaxLiveChallenges
  <2>1. /\ challenge' = [challenge EXCEPT ![c] = [screen |-> s, key |-> j, operation |-> o]]
        /\ c \notin Issued /\ UNCHANGED <<consumed, expired>>
        /\ Cardinality(LiveChallenges(j, o)) < MaxLiveChallenges
    BY <1>3 DEF IssueChallenge, NextChallenge
  <2>2. /\ challenge'[c].key = j /\ challenge'[c].operation = o
        /\ \A d \in Challenges \ {c} : challenge'[d] = challenge[d]
    BY <2>1 DEF DeviceProofTypeOK
  <2>3. CASE k = j /\ operation = o
    <3>1. M \subseteq L \union {c}
      BY <2>1, <2>2 DEF LiveChallenges, Live, Issued
    <3>2. IsFiniteSet(L \union {c}) /\ Cardinality(L \union {c}) <= Cardinality(L) + 1
      <4> HIDE DEF L, M
      <4>1. /\ IsFiniteSet(L \union {c})
            /\ Cardinality(L \union {c}) = IF c \in L THEN Cardinality(L) ELSE Cardinality(L) + 1
        BY <1>1, FS_AddElement
      <4> QED
        BY <1>1, <4>1
    <3>3. Cardinality(L) < MaxLiveChallenges
      BY <2>1, <2>3
    <3> HIDE DEF L, M
    <3>4. /\ IsFiniteSet(M) /\ Cardinality(M) <= Cardinality(L \union {c})
          /\ Cardinality(M) \in Nat /\ Cardinality(L \union {c}) \in Nat
      BY <3>1, <3>2, FS_Subset, FS_CardinalityType
    <3> QED
      BY <1>1, <3>2, <3>3, <3>4
  <2>4. CASE ~(k = j /\ operation = o)
    <3>1. M \subseteq L
      BY <2>1, <2>2, <2>4 DEF LiveChallenges, Live, Issued
    <3> QED
      BY <1>2, <3>1
  <2> QED
    BY <2>3, <2>4
<1>4. ASSUME challenge' = challenge, consumed \subseteq consumed', expired \subseteq expired'
      PROVE  M \subseteq L
  BY <1>4 DEF LiveChallenges, Live, Issued
<1> HIDE DEF L, M
<1>5. IsFiniteSet(M) /\ Cardinality(M) <= MaxLiveChallenges
  BY <1>2, <1>3, <1>4
     DEF DeviceProofNext, IdentityChange, HandlerStep, AddScreen, ActivateIdentity,
         DetachIdentity,
         DecommissionScreen, CloseIdentity, Publish, ChallengeExpires, SignRequest,
         Authenticate,
         Heartbeat, ConsumeManifestProof,
         ResolveContent, AnswerManifest, DropRequest, AcceptManifest,
         serverVars, playerVars, proofVars
<1> QED
  BY <1>5 DEF M

(* A credential never has more open challenges of an operation than the limit. *)
THEOREM LimitCorrect == DeviceProofSpec => []LiveChallengeLimit
<1>1. DeviceProofInit => LimitInv
  <2> SUFFICES ASSUME DeviceProofInit, NEW k \in Keys, NEW operation \in Operations
               PROVE  /\ IsFiniteSet(LiveChallenges(k, operation))
                      /\ Cardinality(LiveChallenges(k, operation)) <= MaxLiveChallenges
      BY DEF LimitInv
  <2>1. LiveChallenges(k, operation) = {}
    BY DEF DeviceProofInit, LiveChallenges, Live, Issued
  <2> QED
    BY <2>1, FS_EmptySet, ProofAssumption
<1>2. LimitInv => LiveChallengeLimit
  BY DEF LimitInv, LiveChallengeLimit
<1> QED
  BY <1>1, <1>2, ProofInitType, ProofInitRequests, ProofStepType, RequestsStep, LimitStep, PTL
     DEF DeviceProofSpec

=============================================================================
