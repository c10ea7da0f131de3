----------------------------- MODULE DeviceProof -----------------------------
(***************************************************************************)
(* How an enrolled device authenticates its heartbeats and manifest         *)
(* requests: one-use challenges, two-step request handlers, and the player  *)
(* that waits for a manifest.  The identity of a Screen changes underneath  *)
(* as ScreenCredential describes.                                           *)
(*                                                                         *)
(* A handler of routes/devices.ts first reads the credential without a lock *)
(* (authenticateDeviceCredential) and then runs a transaction that locks the*)
(* Screen, the credential and the challenge and decides again              *)
(* (consumeDeviceProofInTransaction); a manifest handler resolves the       *)
(* content after that transaction by several reads, again without a lock or *)
(* a transaction.  Each of these is one action, and any number of handlers  *)
(* interleave with each other, with operators and with restarts of the API. *)
(* The network may lose, delay, reorder and duplicate requests and answers. *)
(*                                                                         *)
(* Abstractions: a challenge row stands for its random challenge and for    *)
(* the digest of the one body the device serialized for it; signatures      *)
(* verify; a proof-v1 credential carries no expiry of its own.  What a      *)
(* Screen should play is the number of publications and withdrawals that    *)
(* changed it, and the content of a manifest is the range of those numbers  *)
(* its parts may come from: nothing in it is older than first, the state at *)
(* the handler's first read, or newer than last, the state at its last.     *)
(***************************************************************************)
EXTENDS ScreenCredential

CONSTANTS
    Challenges,          \* DeviceAuthChallenge rows
    Handlers,            \* requests the API serves at the same time
    MaxLiveChallenges,   \* per credential and operation, 4 in the code
    MaxRelease,          \* bound on publications and withdrawals per Screen
    None

ASSUME ProofAssumption ==
    /\ Challenges \subseteq Nat
    /\ MaxLiveChallenges \in Nat \ {0}
    /\ MaxRelease \in Nat

VARIABLES
    challenge,   \* [Challenges -> ChallengeRow + None], issued rows
    consumed,    \* challenges with consumedAt
    expired,     \* challenges past expiresAt
    signed,      \* challenges whose signed request the device has sent
    handler,     \* [Handlers -> HandlerState]
    telemetry,   \* [Screens -> Challenges + None], the heartbeat that set the
                 \* Screen ONLINE; None is OFFLINE with the snapshot cleared
    effects,     \* [Challenges -> Nat], how often a challenge was acted on
    release,     \* [Screens -> Nat], changes of what the Screen should play
    answers,     \* signed manifests the API has sent
    awaited,     \* [Keys -> Challenges + None], the player's open manifest request
    shown        \* [Keys -> Content], the manifest the player plays

serverVars == <<challenge, consumed, expired, telemetry, effects>>
playerVars == <<signed, awaited, shown>>
proofVars == <<credentialVars, serverVars, playerVars, handler, release, answers>>

-----------------------------------------------------------------------------
Operations == {"HEARTBEAT", "MANIFEST"}
ChallengeRow == [screen : Screens, key : Keys, operation : Operations]
Content == [first : 0 .. MaxRelease, last : 0 .. MaxRelease]
NoContent == [first |-> 0, last |-> 0]
Answer == [challenge : Challenges, content : Content]

(* A handler is idle, has authenticated the request of a challenge, has
   consumed that challenge and still owes the manifest, or has begun to read
   what the manifest will contain; first is what that read saw. *)
Owing == {"CONSUMED", "RESOLVING"}
Steps == Owing \union {"AUTHENTICATED"}
Idle == [step |-> "IDLE", challenge |-> None, first |-> 0]
HandlerState == [step : Steps, challenge : Challenges, first : 0 .. MaxRelease] \union {Idle}

ASSUME ProofNoneAssumption == None \notin ChallengeRow \union Challenges

DeviceProofTypeOK ==
    /\ CredentialTypeOK
    /\ challenge \in [Challenges -> ChallengeRow \union {None}]
    /\ consumed \in SUBSET Challenges
    /\ expired \in SUBSET Challenges
    /\ signed \in SUBSET Challenges
    /\ handler \in [Handlers -> HandlerState]
    /\ telemetry \in [Screens -> Challenges \union {None}]
    /\ effects \in [Challenges -> Nat]
    /\ release \in [Screens -> 0 .. MaxRelease]
    /\ answers \in SUBSET Answer
    /\ awaited \in [Keys -> Challenges \union {None}]
    /\ shown \in [Keys -> Content]

DeviceProofInit ==
    /\ CredentialInit
    /\ challenge = [c \in Challenges |-> None]
    /\ consumed = {} /\ expired = {} /\ signed = {} /\ answers = {}
    /\ handler = [h \in Handlers |-> Idle]
    /\ telemetry = [s \in Screens |-> None]
    /\ effects = [c \in Challenges |-> 0]
    /\ release = [s \in Screens |-> 0]
    /\ awaited = [k \in Keys |-> None]
    /\ shown = [k \in Keys |-> NoContent]

-----------------------------------------------------------------------------
Issued == {c \in Challenges : challenge[c] # None}
Live(c) == c \in Issued \ (consumed \union expired)
NextChallenge(c) == c \notin Issued /\ \A d \in Challenges : d < c => d \in Issued

LiveChallenges(k, operation) ==
    {c \in Challenges : Live(c) /\ challenge[c].key = k /\ challenge[c].operation = operation}

(* Mutant of ProofHolds: whether the challenge was consumed is only known from
   an earlier read. *)
ProofHoldsOnce(c) ==
    /\ challenge[c].key \in live[challenge[c].screen]
    /\ phase[challenge[c].screen] = "ACTIVE"
    /\ c \in Issued \ expired

(* consumeDeviceProofInTransaction, on the locked Screen, credential and
   challenge: the credential is still the live one of its Screen and the
   challenge is neither consumed nor expired. *)
ProofHolds(c) ==
    /\ challenge[c].key \in live[challenge[c].screen]
    /\ phase[challenge[c].screen] = "ACTIVE"
    /\ Live(c)

-----------------------------------------------------------------------------
(* Changes of identity.  Revocation, replacement and deletion close the open
   challenges of the credentials they detach and clear the snapshot; so does
   an activation clear it. *)

(* Mutant of CloseIdentity: the snapshot of the detached identity is kept. *)
CloseIdentityKeepingSnapshot(s) ==
    /\ consumed' = consumed \union {c \in Challenges : Live(c) /\ challenge[c].key \in live[s]}
    /\ UNCHANGED <<challenge, expired, telemetry, effects, playerVars, handler, release, answers>>

CloseIdentity(s) ==
    /\ consumed' = consumed \union {c \in Challenges : Live(c) /\ challenge[c].key \in live[s]}
    /\ telemetry' = [telemetry EXCEPT ![s] = None]
    /\ UNCHANGED <<challenge, expired, effects, playerVars, handler, release, answers>>

AddScreen(s) ==
    /\ CreateScreen(s)
    /\ UNCHANGED <<serverVars, playerVars, handler, release, answers>>

ActivateIdentity(s, k) ==
    /\ Install(s, k)
    /\ telemetry' = [telemetry EXCEPT ![s] = None]
    /\ UNCHANGED <<challenge, consumed, expired, effects, playerVars, handler, release, answers>>

(* revokeDeviceCredentialAndAudit and requestScreenReenrollmentAndAudit *)
DetachIdentity(s) == Fence(s) /\ CloseIdentity(s)

(* deleteScreenAndAudit *)
DecommissionScreen(s) == RemoveScreen(s) /\ CloseIdentity(s)

-----------------------------------------------------------------------------
(* Challenges *)

(* Mutant of IssueChallenge: any key that was ever enrolled gets a challenge. *)
IssueChallengeForSpentKey(c, s, k, operation) ==
    /\ phase[s] = "ACTIVE" /\ k \in spent
    /\ Cardinality(LiveChallenges(k, operation)) < MaxLiveChallenges
    /\ NextChallenge(c)
    /\ challenge' = [challenge EXCEPT ![c] = [screen |-> s, key |-> k, operation |-> operation]]
    /\ UNCHANGED <<credentialVars, consumed, expired, telemetry, effects, playerVars,
                   handler, release, answers>>

(* Mutant of IssueChallenge: off by one at the limit. *)
IssueChallengeOverLimit(c, s, k, operation) ==
    /\ phase[s] = "ACTIVE" /\ k \in live[s]
    /\ Cardinality(LiveChallenges(k, operation)) <= MaxLiveChallenges
    /\ NextChallenge(c)
    /\ challenge' = [challenge EXCEPT ![c] = [screen |-> s, key |-> k, operation |-> operation]]
    /\ UNCHANGED <<credentialVars, consumed, expired, telemetry, effects, playerVars,
                   handler, release, answers>>

(* issueDeviceAuthChallenge, for the key the device names. *)
IssueChallenge(c, s, k, operation) ==
    /\ phase[s] = "ACTIVE" /\ k \in live[s]
    /\ Cardinality(LiveChallenges(k, operation)) < MaxLiveChallenges
    /\ NextChallenge(c)
    /\ challenge' = [challenge EXCEPT ![c] = [screen |-> s, key |-> k, operation |-> operation]]
    /\ UNCHANGED <<credentialVars, consumed, expired, telemetry, effects, playerVars,
                   handler, release, answers>>

ChallengeExpires(c) ==
    /\ Live(c)
    /\ expired' = expired \union {c}
    /\ UNCHANGED <<credentialVars, challenge, consumed, telemetry, effects, playerVars,
                   handler, release, answers>>

(* The device signs the challenge it received and sends the request.  A new
   manifest request replaces the one the player was waiting for. *)
SignRequest(c) ==
    /\ c \in Issued \ signed
    /\ signed' = signed \union {c}
    /\ awaited' = IF challenge[c].operation = "MANIFEST"
                  THEN [awaited EXCEPT ![challenge[c].key] = c] ELSE awaited
    /\ UNCHANGED <<credentialVars, serverVars, shown, handler, release, answers>>

-----------------------------------------------------------------------------
(* Handlers of POST /heartbeat and POST /manifest *)

(* readDeviceProof.  A refused request leaves no trace. *)
Authenticate(h, c) ==
    /\ handler[h] = Idle
    /\ c \in signed
    /\ challenge[c].key \in live[challenge[c].screen]
    /\ handler' = [handler EXCEPT ![h] = [step |-> "AUTHENTICATED", challenge |-> c, first |-> 0]]
    /\ UNCHANGED <<credentialVars, serverVars, playerVars, release, answers>>

(* heartbeatWithDeviceProof: consumption and snapshot in one transaction. *)
Heartbeat(h) ==
    LET c == handler[h].challenge
    IN  /\ handler[h].step = "AUTHENTICATED"
        /\ challenge[c].operation = "HEARTBEAT"
        /\ ProofHolds(c)
        /\ consumed' = consumed \union {c}
        /\ telemetry' = [telemetry EXCEPT ![challenge[c].screen] = c]
        /\ effects' = [effects EXCEPT ![c] = @ + 1]
        /\ handler' = [handler EXCEPT ![h] = Idle]
        /\ UNCHANGED <<credentialVars, challenge, expired, playerVars, release, answers>>

(* consumeDeviceAuthChallenge *)
ConsumeManifestProof(h) ==
    LET c == handler[h].challenge
    IN  /\ handler[h].step = "AUTHENTICATED"
        /\ challenge[c].operation = "MANIFEST"
        /\ ProofHolds(c)
        /\ consumed' = consumed \union {c}
        /\ handler' = [handler EXCEPT ![h] = [step |-> "CONSUMED", challenge |-> c, first |-> 0]]
        /\ UNCHANGED <<credentialVars, challenge, expired, telemetry, effects,
                       playerVars, release, answers>>

(* The first read of the content, activeEmergency or the assignments that name
   the Screen. *)
ResolveContent(h) ==
    LET c == handler[h].challenge
        now == release[challenge[c].screen]
    IN  /\ handler[h].step = "CONSUMED"
        /\ handler' = [handler EXCEPT ![h] = [step |-> "RESOLVING", challenge |-> c, first |-> now]]
        /\ UNCHANGED <<credentialVars, serverVars, playerVars, release, answers>>

(* The last read and the answer, which signs what was read together with the
   consumed challenge.  The credential is not looked at again. *)
AnswerManifest(h) ==
    LET c == handler[h].challenge
        content == [first |-> handler[h].first, last |-> release[challenge[c].screen]]
    IN  /\ handler[h].step = "RESOLVING"
        /\ answers' = answers \union {[challenge |-> c, content |-> content]}
        /\ effects' = [effects EXCEPT ![c] = @ + 1]
        /\ handler' = [handler EXCEPT ![h] = Idle]
        /\ UNCHANGED <<credentialVars, challenge, consumed, expired, telemetry,
                       playerVars, release>>

(* The transaction refuses the proof, or the API process stops and the request
   with it. *)
DropRequest(h) ==
    /\ handler[h] # Idle
    /\ handler' = [handler EXCEPT ![h] = Idle]
    /\ UNCHANGED <<credentialVars, serverVars, playerVars, release, answers>>

-----------------------------------------------------------------------------
(* Content and player *)

(* publishReleaseCandidateAndAudit creates a schedule and its assignment, and
   withdrawScheduleAndAudit the successor that withdraws one; seen from a
   Screen, what it should play moves on.  How a release is chosen and approved
   is ReleaseStore's. *)
Publish(s) ==
    /\ phase[s] = "ACTIVE"
    /\ release[s] < MaxRelease
    /\ release' = [release EXCEPT ![s] = @ + 1]
    /\ UNCHANGED <<credentialVars, serverVars, playerVars, handler, answers>>

(* Mutant of AcceptManifest: any manifest signed for the Screen is accepted. *)
AcceptAnyManifest(k, answer) ==
    /\ awaited[k] # None
    /\ challenge[awaited[k]].screen = challenge[answer.challenge].screen
    /\ shown' = [shown EXCEPT ![k] = answer.content]
    /\ awaited' = [awaited EXCEPT ![k] = None]
    /\ UNCHANGED <<credentialVars, serverVars, signed, handler, release, answers>>

(* PlayerApi.manifest: any signed manifest of the device's Screen may arrive,
   and only the answer to the open request is accepted. *)
AcceptManifest(k, answer) ==
    /\ awaited[k] # None
    /\ challenge[awaited[k]].screen = challenge[answer.challenge].screen
    /\ answer.challenge = awaited[k]
    /\ shown' = [shown EXCEPT ![k] = answer.content]
    /\ awaited' = [awaited EXCEPT ![k] = None]
    /\ UNCHANGED <<credentialVars, serverVars, signed, handler, release, answers>>

-----------------------------------------------------------------------------
IdentityChange(s) ==
    \/ AddScreen(s)
    \/ \E k \in Keys : ActivateIdentity(s, k)
    \/ DetachIdentity(s)
    \/ DecommissionScreen(s)

HandlerStep(h) ==
    \/ \E c \in Challenges : Authenticate(h, c)
    \/ Heartbeat(h)
    \/ ConsumeManifestProof(h)
    \/ ResolveContent(h)
    \/ AnswerManifest(h)
    \/ DropRequest(h)

DeviceProofNext ==
    \/ \E s \in Screens : IdentityChange(s) \/ Publish(s)
    \/ \E c \in Challenges, s \in Screens, k \in Keys, operation \in Operations :
           IssueChallenge(c, s, k, operation)
    \/ \E c \in Challenges : ChallengeExpires(c) \/ SignRequest(c)
    \/ \E h \in Handlers : HandlerStep(h)
    \/ \E k \in Keys, answer \in answers : AcceptManifest(k, answer)

DeviceProofSpec == DeviceProofInit /\ [][DeviceProofNext]_proofVars

-----------------------------------------------------------------------------
(* What device proofs must guarantee *)

(* No proof from a detached identity may mutate the Screen: whatever handlers
   were under way when the identity changed, the status and snapshot a Screen
   shows come from a heartbeat of its current key. *)
TelemetryFromLiveKey ==
    \A s \in Screens : telemetry[s] # None =>
        /\ challenge[telemetry[s]].screen = s
        /\ challenge[telemetry[s]].key \in live[s]

(* Every open challenge belongs to a credential that is still live, although
   challenges are issued while identities are replaced. *)
OpenChallengeHasLiveKey ==
    \A c \in Issued : Live(c) => challenge[c].key \in live[challenge[c].screen]

(* A valid proof cannot be replayed: however often a request is delivered and
   however its handlers interleave, it is acted on once. *)
ActedOnOnce == \A c \in Challenges : effects[c] <= 1

(* At most four live challenges are retained for a credential and operation. *)
LiveChallengeLimit ==
    \A k \in Keys, operation \in Operations :
        Cardinality(LiveChallenges(k, operation)) <= MaxLiveChallenges

(* A device never goes back: although an answer may arrive after the request it
   answers was given up and repeated, and releases are published and withdrawn
   while a handler reads, no part of a manifest a device accepts is older than
   any part of the one it replaces. *)
ManifestNeverGoesBack ==
    [][\A k \in Keys : shown'[k] # shown[k] => shown'[k].first >= shown[k].last]_proofVars

=============================================================================
