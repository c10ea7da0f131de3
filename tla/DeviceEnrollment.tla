-------------------------- MODULE DeviceEnrollment --------------------------
(***************************************************************************)
(* Enrollment of display devices: how a Screen gets, loses and replaces the *)
(* device key that authenticates it.  Models the transactions of PrismaStore*)
(* (apps/api/src/store/prisma.ts) in device mode proof-v1 for one           *)
(* organization: request of an initial or a replacement grant, pairing      *)
(* challenge, candidate proof, activation, cancellation, revocation,        *)
(* deletion of a Screen, and the identity mutations that withdraw an        *)
(* issuer's authority.                                                      *)
(*                                                                         *)
(* One action is one committed transaction: each locks the rows it decides  *)
(* on (FOR UPDATE) or runs SERIALIZABLE, so its checks and its writes are   *)
(* one step.  A transaction that returns an error reason or throws commits  *)
(* nothing and is a stuttering step.  Callers are unconstrained: any        *)
(* operator or device may issue, repeat or delay any call.                  *)
(*                                                                         *)
(* Abstractions: codeHash, challenge and transcript digests are the grant   *)
(* and attempt they identify; signatures verify; the deviceTokenHash of the *)
(* development bearer mode is always null; the installationId a device sends *)
(* is its keyId, which the routes require; PUBLISHER stands for both roles  *)
(* without credential authority.  Time is age[g], the deadlines a grant has *)
(* passed, and timedOut, the attempts past their own deadline.              *)
(***************************************************************************)
EXTENDS Naturals, FiniteSets

CONSTANTS
    Users, Screens,
    Keys,                 \* device public-key fingerprints (keyId)
    Grants, Attempts,     \* row identifiers, allocated in increasing order
    RequestKeys,          \* idempotency keys operators choose
    MaxCandidates,        \* candidates and live attempts per grant, 4 in the code
    MaxGeneration,        \* bound on Screen.credentialGeneration
    MaxEpoch,             \* bound on identity mutations of a user
    MaxAge,               \* last deadline a grant reaches, at most Purgeable
    None

ASSUME RowIdAssumption == Grants \subseteq Nat /\ Attempts \subseteq Nat
ASSUME BoundAssumption ==
    /\ MaxCandidates \in Nat \ {0}
    /\ MaxGeneration \in Nat
    /\ MaxEpoch \in Nat
    /\ MaxAge \in 0 .. 3
VARIABLES
    user,             \* [Users -> UserRow], User joined with its Membership
    phase,            \* [Screens -> Phases], whether the Screen row exists
    generation,       \* Screen.credentialGeneration
    installation,     \* Screen.installationId
    grant,            \* PairingCode columns that never change
    status,           \* PairingCode.status, or no row (NONE, DELETED)
    age,              \* deadlines of the grant that have passed
    attempt,          \* PairingAttempt columns that never change
    timedOut,         \* attempts past PairingAttempt.expiresAt
    proved,           \* attempts with provedAt
    cancelled,        \* attempts with cancelledAt
    activated,        \* attempts with activatedAt and boundCredentialId
    home,             \* [Keys -> Screens + None], DeviceCredential.screenId
    revoked,          \* keys whose DeviceCredential has revokedAt and is detached
    tombstone,        \* DeviceKeyTombstone
    createRecord,     \* IdempotencyRecord, operation SCREEN_ENROLLMENT_CREATE
    activateRecord    \* IdempotencyRecord, operation SCREEN_ENROLLMENT_ACTIVATE

screenVars == <<phase, generation, installation>>
grantVars == <<grant, status, age>>
attemptVars == <<attempt, timedOut, proved, cancelled, activated>>
credentialVars == <<home, revoked, tombstone>>
replayVars == <<createRecord, activateRecord>>
vars == <<user, screenVars, grantVars, attemptVars, credentialVars, replayVars>>

-----------------------------------------------------------------------------
(* Rows *)

Roles == {"OWNER", "ADMIN", "PUBLISHER"}
Phases == {"UNCREATED", "ACTIVE", "DELETED"}
Purposes == {"NEW_SCREEN", "REENROLL"}
Terminal == {"CLAIMED", "EXPIRED", "REVOKED"}
Statuses == {"NONE", "PENDING", "DELETED"} \union Terminal

(* The deadlines of a grant, in the order the clock reaches them: its own
   expiry (10 minutes); the end of the 30-day replay window of the request
   that created it; the retention cutoff 30 days after its expiry, by which
   the replay window of its activation has ended too. *)
Lapsed == 1
ReplayLapsed == 2
Purgeable == 3

UserRow == [role : Roles \union {"NONE"}, enabled : BOOLEAN,
            authn : 0 .. MaxEpoch, authz : 0 .. MaxEpoch]
GrantRow == [purpose : Purposes, screen : Screens, expected : 0 .. MaxGeneration,
             issuer : Users, authn : 0 .. MaxEpoch, authz : 0 .. MaxEpoch]
AttemptRow == [grant : Grants, key : Keys]
CreateRow == [actor : Users, screen : Screens, grant : Grants]
ActivateRow == [actor : Users, attempt : Attempts]

ASSUME NoneAssumption ==
    None \notin Screens \union Keys \union GrantRow \union AttemptRow
                \union CreateRow \union ActivateRow

TypeOK ==
    /\ user \in [Users -> UserRow]
    /\ phase \in [Screens -> Phases]
    /\ generation \in [Screens -> 0 .. MaxGeneration]
    /\ installation \in [Screens -> Keys \union {None}]
    /\ grant \in [Grants -> GrantRow \union {None}]
    /\ status \in [Grants -> Statuses]
    /\ age \in [Grants -> 0 .. MaxAge]
    /\ attempt \in [Attempts -> AttemptRow \union {None}]
    /\ timedOut \in SUBSET Attempts
    /\ proved \in SUBSET Attempts
    /\ cancelled \in SUBSET Attempts
    /\ activated \in SUBSET Attempts
    /\ home \in [Keys -> Screens \union {None}]
    /\ revoked \in SUBSET Keys
    /\ tombstone \in SUBSET Keys
    /\ createRecord \in [RequestKeys -> CreateRow \union {None}]
    /\ activateRecord \in [RequestKeys -> ActivateRow \union {None}]

Init ==
    /\ user \in [Users -> [role : Roles, enabled : {TRUE}, authn : {0}, authz : {0}]]
    /\ \E u \in Users : user[u].role = "OWNER"
    /\ phase = [s \in Screens |-> "UNCREATED"]
    /\ generation = [s \in Screens |-> 0]
    /\ installation = [s \in Screens |-> None]
    /\ grant = [g \in Grants |-> None]
    /\ status = [g \in Grants |-> "NONE"]
    /\ age = [g \in Grants |-> 0]
    /\ attempt = [a \in Attempts |-> None]
    /\ timedOut = {} /\ proved = {} /\ cancelled = {} /\ activated = {}
    /\ home = [k \in Keys |-> None]
    /\ revoked = {} /\ tombstone = {}
    /\ createRecord = [q \in RequestKeys |-> None]
    /\ activateRecord = [q \in RequestKeys |-> None]

-----------------------------------------------------------------------------
(* Reads *)

(* An active OWNER or ADMIN, the only roles with credential authority. *)
Staff(u) == user[u].enabled /\ user[u].role \in {"OWNER", "ADMIN"}

(* The issuer still has the membership and both epochs the grant captured. *)
IssuerCurrent(g) ==
    LET issuer == user[grant[g].issuer]
    IN  /\ Staff(grant[g].issuer)
        /\ issuer.authn = grant[g].authn
        /\ issuer.authz = grant[g].authz

GrantsFor(s, purposes) ==
    {g \in Grants : status[g] \notin {"NONE", "DELETED"}
                    /\ grant[g].screen = s /\ grant[g].purpose \in purposes}

Issued == {a \in Attempts : attempt[a] # None}
AttemptsOf(G) == {a \in Issued : attempt[a].grant \in G}
Unbound(G) == AttemptsOf(G) \ activated

CredentialsOf(s) == {k \in Keys : home[k] = s}
LiveKeys(s) == CredentialsOf(s) \ revoked

NextGrant(g) == status[g] = "NONE" /\ \A h \in Grants : h < g => status[h] # "NONE"
NextAttempt(a) == a \notin Issued /\ \A b \in Attempts : b < a => b \in Issued

-----------------------------------------------------------------------------
(* Writes shared by several transactions *)

Revoke(st, G) == [g \in Grants |-> IF g \in G /\ st[g] # "DELETED" THEN "REVOKED" ELSE st[g]]

(* Mutant of Pruned: terminal grants are deleted as soon as they lapse. *)
PrunedEarly ==
    LET expired == [g \in Grants |-> IF status[g] = "PENDING" /\ age[g] >= Lapsed
                                     THEN "EXPIRED" ELSE status[g]]
    IN  [g \in Grants |-> IF expired[g] \in Terminal /\ age[g] >= Lapsed
                          THEN "DELETED" ELSE expired[g]]

(* pruneDeviceEnrollmentAuthority: lapsed pending grants expire and terminal
   grants past the retention cutoff are deleted with their attempts.  The
   compaction of replay bodies changes nothing: a record past its expiry is
   already refused. *)
Pruned ==
    LET expired == [g \in Grants |-> IF status[g] = "PENDING" /\ age[g] >= Lapsed
                                     THEN "EXPIRED" ELSE status[g]]
    IN  [g \in Grants |-> IF expired[g] \in Terminal /\ age[g] >= Purgeable
                          THEN "DELETED" ELSE expired[g]]

(* A new pending grant that captures the issuer's two epochs. *)
AddGrant(g, purpose, s, expected, u, st) ==
    /\ grant' = [grant EXCEPT ![g] = [purpose |-> purpose, screen |-> s,
                    expected |-> expected, issuer |-> u,
                    authn |-> user[u].authn, authz |-> user[u].authz]]
    /\ status' = [st EXCEPT ![g] = "PENDING"]
    /\ UNCHANGED age

(* Mutant of InstallCandidate: a key that served before is accepted again. *)
InstallSpentKey(a, s, nextGeneration) ==
    LET k == attempt[a].key
    IN  /\ nextGeneration <= MaxGeneration
        /\ tombstone' = tombstone \union {k}
        /\ home' = [home EXCEPT ![k] = s]
        /\ installation' = [installation EXCEPT ![s] = k]
        /\ generation' = [generation EXCEPT ![s] = nextGeneration]
        /\ activated' = activated \union {a}
        /\ revoked' = revoked \ {k}
        /\ UNCHANGED phase

(* The key of candidate a becomes the live credential of Screen s. *)
InstallCandidate(a, s, nextGeneration) ==
    LET k == attempt[a].key
    IN  /\ k \notin tombstone
        /\ \A t \in Screens \ {s} : installation[t] # k
        /\ nextGeneration <= MaxGeneration
        /\ tombstone' = tombstone \union {k}
        /\ home' = [home EXCEPT ![k] = s]
        /\ installation' = [installation EXCEPT ![s] = k]
        /\ generation' = [generation EXCEPT ![s] = nextGeneration]
        /\ activated' = activated \union {a}
        /\ UNCHANGED <<revoked, phase>>

-----------------------------------------------------------------------------
(* Grants *)

CreateScreen(u, s) ==
    /\ Staff(u)
    /\ phase[s] = "UNCREATED"
    /\ phase' = [phase EXCEPT ![s] = "ACTIVE"]
    /\ UNCHANGED <<user, generation, installation, grantVars, attemptVars,
                   credentialVars, replayVars>>

(* A Screen is eligible for initial enrollment while it never had an identity. *)
Eligible(s) ==
    /\ phase[s] = "ACTIVE"
    /\ generation[s] = 0
    /\ installation[s] = None
    /\ CredentialsOf(s) = {}

(* requestScreenEnrollmentAndAudit under a new idempotency key: earlier
   initial grants of the Screen are superseded. *)
RequestEnrollment(u, s, q, g) ==
    LET competitors == {h \in GrantsFor(s, {"NEW_SCREEN"}) : status[h] = "PENDING"}
    IN  /\ Staff(u)
        /\ createRecord[q] = None
        /\ Eligible(s)
        /\ NextGrant(g)
        /\ cancelled' = cancelled \union Unbound(competitors)
        /\ AddGrant(g, "NEW_SCREEN", s, 0, u, Revoke(Pruned, competitors))
        /\ createRecord' = [createRecord EXCEPT ![q] = [actor |-> u, screen |-> s, grant |-> g]]
        /\ UNCHANGED <<user, screenVars, attempt, timedOut, proved,
                       activated, credentialVars, activateRecord>>

(* The same request repeated inside its replay window: the stored answer, and
   the maintenance that runs with every request.  A replay whose grant no
   longer targets an existing Screen throws. *)
ReplayEnrollmentRequest(u, q) ==
    /\ Staff(u)
    /\ createRecord[q] # None
    /\ createRecord[q].actor = u
    /\ age[createRecord[q].grant] < ReplayLapsed
    /\ status[createRecord[q].grant] # "DELETED"
    /\ phase[createRecord[q].screen] = "ACTIVE"
    /\ status' = Pruned
    /\ UNCHANGED <<user, screenVars, grant, age, attemptVars, credentialVars, replayVars>>

(* Mutant of RequestReenrollment: the old identity stays live until the
   replacement is activated. *)
RequestReenrollmentUncontained(u, s, g) ==
    LET superseded == {h \in GrantsFor(s, {"REENROLL"}) : Pruned[h] = "PENDING"}
    IN  /\ Staff(u)
        /\ phase[s] = "ACTIVE"
        /\ NextGrant(g)
        /\ generation[s] < MaxGeneration
        /\ cancelled' = cancelled \union AttemptsOf(superseded)
        /\ generation' = [generation EXCEPT ![s] = @ + 1]
        /\ AddGrant(g, "REENROLL", s, generation[s] + 1, u, Revoke(Pruned, superseded))
        /\ UNCHANGED <<user, phase, installation, attempt, timedOut, proved,
                       activated, credentialVars, replayVars>>

(* requestScreenReenrollmentAndAudit: the current identity is revoked at once,
   older replacement grants are superseded, the Screen moves to a new
   generation and a grant for that generation is issued. *)
RequestReenrollment(u, s, g) ==
    LET superseded == {h \in GrantsFor(s, {"REENROLL"}) : Pruned[h] = "PENDING"}
    IN  /\ Staff(u)
        /\ phase[s] = "ACTIVE"
        /\ NextGrant(g)
        /\ generation[s] < MaxGeneration
        /\ cancelled' = cancelled \union AttemptsOf(superseded)
        /\ revoked' = revoked \union LiveKeys(s)
        /\ generation' = [generation EXCEPT ![s] = @ + 1]
        /\ AddGrant(g, "REENROLL", s, generation[s] + 1, u, Revoke(Pruned, superseded))
        /\ UNCHANGED <<user, phase, installation, attempt, timedOut, proved,
                       activated, home, tombstone, replayVars>>

(* cancelScreenReenrollmentAndAudit, for either purpose. *)
CancelGrant(u, g) ==
    /\ Staff(u)
    /\ status[g] = "PENDING"
    /\ phase[grant[g].screen] = "ACTIVE"
    /\ status' = Revoke(status, {g})
    /\ cancelled' = cancelled \union Unbound({g})
    /\ UNCHANGED <<user, screenVars, grant, age, attempt, timedOut, proved,
                   activated, credentialVars, replayVars>>

-----------------------------------------------------------------------------
(* Candidates *)

(* issuePairingChallenge: a device presents the code and a key it wants
   enrolled. *)
IssueAttempt(a, g, k) ==
    /\ status[g] = "PENDING" /\ age[g] < Lapsed
    /\ IssuerCurrent(g)
    /\ k \notin tombstone
    /\ Cardinality(AttemptsOf({g}) \ timedOut) < MaxCandidates
    /\ NextAttempt(a)
    /\ attempt' = [attempt EXCEPT ![a] = [grant |-> g, key |-> k]]
    /\ UNCHANGED <<user, screenVars, grantVars, timedOut, proved,
                   cancelled, activated, credentialVars, replayVars>>

(* Mutant of ProveCandidate: off by one at the candidate limit. *)
ProveCandidateOverLimit(a) ==
    LET g == attempt[a].grant
    IN  /\ a \in Issued
        /\ a \notin activated /\ a \notin proved
        /\ a \notin timedOut
        /\ status[g] = "PENDING" /\ age[g] < Lapsed
        /\ IssuerCurrent(g)
        /\ a \notin cancelled
        /\ Cardinality((AttemptsOf({g}) \intersect proved) \ cancelled) <= MaxCandidates
        /\ proved' = proved \union {a}
        /\ UNCHANGED <<user, screenVars, grantVars, attempt, timedOut, cancelled,
                       activated, credentialVars, replayVars>>

(* claimPairingWithCredentialAndAudit, first valid proof of an attempt: it
   becomes a candidate.  A repeated proof of a candidate or of an activated
   attempt only reads. *)
ProveCandidate(a) ==
    LET g == attempt[a].grant
    IN  /\ a \in Issued
        /\ a \notin activated /\ a \notin proved
        /\ a \notin timedOut
        /\ status[g] = "PENDING" /\ age[g] < Lapsed
        /\ IssuerCurrent(g)
        /\ a \notin cancelled
        /\ Cardinality((AttemptsOf({g}) \intersect proved) \ cancelled) < MaxCandidates
        /\ proved' = proved \union {a}
        /\ UNCHANGED <<user, screenVars, grantVars, attempt, timedOut, cancelled,
                       activated, credentialVars, replayVars>>

(* Mutant of Activatable: only the candidate is checked, not its grant. *)
ActivatableByCandidate(a, purpose) ==
    LET g == attempt[a].grant
    IN  /\ a \in Issued
        /\ grant[g].purpose = purpose
        /\ phase[grant[g].screen] = "ACTIVE"
        /\ a \in proved /\ a \notin activated

(* The conditions both activations check on the locked candidate and grant. *)
Activatable(a, purpose) ==
    LET g == attempt[a].grant
    IN  /\ a \in Issued
        /\ status[g] = "PENDING" /\ age[g] < Lapsed
        /\ grant[g].purpose = purpose
        /\ phase[grant[g].screen] = "ACTIVE"
        /\ grant[g].expected = generation[grant[g].screen]
        /\ IssuerCurrent(g)
        /\ a \in proved /\ a \notin cancelled /\ a \notin activated

(* activateScreenEnrollmentCandidateAndAudit under a new idempotency key. *)
ActivateEnrollment(u, a, q) ==
    LET g == attempt[a].grant
        s == grant[g].screen
        claimed == [Pruned EXCEPT ![g] = "CLAIMED"]
        competitors == {h \in GrantsFor(s, Purposes) : claimed[h] = "PENDING"}
    IN  /\ Staff(u)
        /\ activateRecord[q] = None
        /\ Activatable(a, "NEW_SCREEN")
        /\ Eligible(s)
        /\ InstallCandidate(a, s, 1)
        /\ status' = Revoke(claimed, competitors)
        /\ cancelled' = cancelled \union (Unbound(competitors \union {g}) \ {a})
        /\ activateRecord' = [activateRecord EXCEPT ![q] = [actor |-> u, attempt |-> a]]
        /\ UNCHANGED <<user, grant, age, attempt, timedOut, proved, createRecord>>

(* The same activation repeated inside its replay window.  A replay whose
   Screen was deleted throws. *)
ReplayActivation(u, q) ==
    LET g == attempt[activateRecord[q].attempt].grant
    IN  /\ Staff(u)
        /\ activateRecord[q] # None
        /\ activateRecord[q].actor = u
        /\ age[g] < Purgeable
        /\ phase[grant[g].screen] = "ACTIVE"
        /\ status' = Pruned
        /\ UNCHANGED <<user, screenVars, grant, age, attemptVars, credentialVars, replayVars>>

(* Mutant of ActivateReenrollment: the bulk cancellation includes the winner. *)
ActivateReenrollmentCancellingAll(u, a) ==
    LET g == attempt[a].grant
        s == grant[g].screen
        claimed == [status EXCEPT ![g] = "CLAIMED"]
        others == {h \in GrantsFor(s, Purposes) : claimed[h] = "PENDING"}
    IN  /\ Staff(u)
        /\ Activatable(a, "REENROLL")
        /\ InstallCandidate(a, s, generation[s] + 1)
        /\ status' = Revoke(claimed, others)
        /\ cancelled' = cancelled \union Unbound(others \union {g})
        /\ UNCHANGED <<user, grant, age, attempt, timedOut, proved, replayVars>>

(* activateReenrollmentCandidateAndAudit.  A repeated activation only reads. *)
ActivateReenrollment(u, a) ==
    LET g == attempt[a].grant
        s == grant[g].screen
        claimed == [status EXCEPT ![g] = "CLAIMED"]
        others == {h \in GrantsFor(s, Purposes) : claimed[h] = "PENDING"}
    IN  /\ Staff(u)
        /\ Activatable(a, "REENROLL")
        /\ InstallCandidate(a, s, generation[s] + 1)
        /\ status' = Revoke(claimed, others)
        /\ cancelled' = cancelled \union (Unbound(others \union {g}) \ {a})
        /\ UNCHANGED <<user, grant, age, attempt, timedOut, proved, replayVars>>

-----------------------------------------------------------------------------
(* Revocation *)

(* Mutant of RevokeCredential: the reasserted revocation's branch, which leaves
   credentials alone, taken while one is live. *)
RevokeCredentialWithoutKey(u, s) ==
    LET pending == {h \in GrantsFor(s, {"REENROLL"}) : status[h] = "PENDING"}
    IN  /\ Staff(u)
        /\ phase[s] = "ACTIVE"
        /\ LiveKeys(s) # {} \/ pending # {}
        /\ generation[s] < MaxGeneration
        /\ generation' = [generation EXCEPT ![s] = @ + 1]
        /\ cancelled' = cancelled \union AttemptsOf(pending)
        /\ status' = Revoke(status, pending)
        /\ UNCHANGED <<user, phase, installation, grant, age, attempt, timedOut,
                       proved, activated, credentialVars, replayVars>>

(* revokeDeviceCredentialAndAudit.  With no live credential the revocation is
   reasserted when a replacement is pending, and is a no-op otherwise. *)
RevokeCredential(u, s) ==
    LET pending == {h \in GrantsFor(s, {"REENROLL"}) : status[h] = "PENDING"}
    IN  /\ Staff(u)
        /\ phase[s] = "ACTIVE"
        /\ LiveKeys(s) # {} \/ pending # {}
        /\ generation[s] < MaxGeneration
        /\ revoked' = revoked \union LiveKeys(s)
        /\ generation' = [generation EXCEPT ![s] = @ + 1]
        /\ cancelled' = cancelled \union AttemptsOf(pending)
        /\ status' = Revoke(status, pending)
        /\ UNCHANGED <<user, phase, installation, grant, age, attempt, timedOut,
                       proved, activated, home, tombstone, replayVars>>

(* deleteScreenAndAudit *)
DeleteScreen(u, s) ==
    LET pending == {h \in GrantsFor(s, Purposes) : status[h] = "PENDING"}
    IN  /\ Staff(u)
        /\ phase[s] = "ACTIVE"
        /\ revoked' = revoked \union CredentialsOf(s)
        /\ cancelled' = cancelled \union AttemptsOf(pending)
        /\ status' = Revoke(status, pending)
        /\ phase' = [phase EXCEPT ![s] = "DELETED"]
        /\ installation' = [installation EXCEPT ![s] = None]
        /\ UNCHANGED <<user, generation, grant, age, attempt, timedOut, proved,
                       activated, home, tombstone, replayVars>>

-----------------------------------------------------------------------------
(* Identity mutations of an issuer *)

(* Mutant of RevokePendingIssuerGrants: lapsed grants are skipped because they
   can no longer be used. *)
RevokeUnlapsedIssuerGrants(u) ==
    LET issued == {g \in Grants : status[g] = "PENDING" /\ age[g] < Lapsed
                                  /\ grant[g].issuer = u}
    IN  /\ status' = Revoke(status, issued)
        /\ cancelled' = cancelled \union Unbound(issued)
        /\ UNCHANGED <<screenVars, grant, age, attempt, timedOut, proved,
                       activated, credentialVars, replayVars>>

(* revokePendingIssuerGrants *)
RevokePendingIssuerGrants(u) ==
    LET issued == {g \in Grants : status[g] = "PENDING" /\ grant[g].issuer = u}
    IN  /\ status' = Revoke(status, issued)
        /\ cancelled' = cancelled \union Unbound(issued)
        /\ UNCHANGED <<screenVars, grant, age, attempt, timedOut, proved,
                       activated, credentialVars, replayVars>>

HasOtherActiveOwner(u) ==
    \E v \in Users \ {u} : user[v].enabled /\ user[v].role = "OWNER"

BelowEpochBound(u) == user[u].authn + user[u].authz < MaxEpoch

(* rotateUserPasswordAndAudit, and rotateBootstrapPasswordAndAudit, which
   makes the same changes for the user who holds the rotation session. *)
RotatePassword(u) ==
    /\ user[u].role # "NONE"
    /\ BelowEpochBound(u)
    /\ user' = [user EXCEPT ![u].authn = @ + 1]
    /\ RevokePendingIssuerGrants(u)

(* disableUserAndAudit *)
DisableUser(u) ==
    /\ user[u].role # "NONE"
    /\ user[u].enabled /\ user[u].role = "OWNER" => HasOtherActiveOwner(u)
    /\ BelowEpochBound(u)
    /\ user' = [user EXCEPT ![u].enabled = FALSE, ![u].authn = @ + 1]
    /\ RevokePendingIssuerGrants(u)

(* changeMembershipRoleAndAudit *)
ChangeRole(u, role) ==
    /\ user[u].role # "NONE"
    /\ user[u].role = "OWNER" /\ role # "OWNER" /\ user[u].enabled => HasOtherActiveOwner(u)
    /\ BelowEpochBound(u)
    /\ user' = [user EXCEPT ![u].role = role, ![u].authz = @ + 1]
    /\ RevokePendingIssuerGrants(u)

(* removeMembershipAndAudit: the row is deleted and no route creates another. *)
RemoveMembership(u) ==
    /\ user[u].role # "NONE"
    /\ user[u].enabled /\ user[u].role = "OWNER" => HasOtherActiveOwner(u)
    /\ BelowEpochBound(u)
    /\ user' = [user EXCEPT ![u].role = "NONE", ![u].authz = @ + 1]
    /\ RevokePendingIssuerGrants(u)

-----------------------------------------------------------------------------
(* Time.  Every grant has the same lifetimes, so an older grant reaches each
   deadline before a younger one. *)

GrantDeadline(g) ==
    /\ status[g] # "NONE"
    /\ age[g] < MaxAge
    /\ \A h \in Grants : h < g => age[h] > age[g]
    /\ age' = [age EXCEPT ![g] = @ + 1]
    /\ UNCHANGED <<user, screenVars, grant, status, attemptVars, credentialVars, replayVars>>

(* Recorded only while some transaction can still read it. *)
AttemptDeadline(a) ==
    /\ a \in Issued \ timedOut
    /\ status[attempt[a].grant] = "PENDING"
    /\ timedOut' = timedOut \union {a}
    /\ UNCHANGED <<user, screenVars, grantVars, attempt, proved,
                   cancelled, activated, credentialVars, replayVars>>

-----------------------------------------------------------------------------
OperatorStep(u) ==
    \/ \E s \in Screens : CreateScreen(u, s)
    \/ \E s \in Screens, q \in RequestKeys, g \in Grants : RequestEnrollment(u, s, q, g)
    \/ \E q \in RequestKeys : ReplayEnrollmentRequest(u, q)
    \/ \E s \in Screens, g \in Grants : RequestReenrollment(u, s, g)
    \/ \E g \in Grants : CancelGrant(u, g)
    \/ \E a \in Attempts, q \in RequestKeys : ActivateEnrollment(u, a, q)
    \/ \E q \in RequestKeys : ReplayActivation(u, q)
    \/ \E a \in Attempts : ActivateReenrollment(u, a)
    \/ \E s \in Screens : RevokeCredential(u, s)
    \/ \E s \in Screens : DeleteScreen(u, s)

DeviceStep ==
    \/ \E a \in Attempts, g \in Grants, k \in Keys : IssueAttempt(a, g, k)
    \/ \E a \in Attempts : ProveCandidate(a)

IdentityStep(u) ==
    \/ RotatePassword(u)
    \/ DisableUser(u)
    \/ \E role \in Roles : ChangeRole(u, role)
    \/ RemoveMembership(u)

ClockStep ==
    \/ \E g \in Grants : GrantDeadline(g)
    \/ \E a \in Attempts : AttemptDeadline(a)

Next ==
    \/ \E u \in Users : OperatorStep(u) \/ IdentityStep(u)
    \/ DeviceStep
    \/ ClockStep

Spec == Init /\ [][Next]_vars

-----------------------------------------------------------------------------
(* What enrollment must guarantee *)

(* A grant can only be used while the operator who issued it still has the
   membership, role and epochs it captured: every identity mutation withdraws
   the grants in the transaction that changes the identity, so no pending
   grant ever outlives its issuer's authority, expired or not. *)
PendingGrantHasCurrentIssuer ==
    \A g \in Grants : status[g] = "PENDING" => IssuerCurrent(g)

(* The live credential of a Screen is the key of one activated candidate, it
   belongs to the generation right after the one the candidate's grant
   captured, and the Screen carries that candidate's installation.  So any
   generation change ends the credential, and nothing else can install one. *)
LiveKeyIsActivatedCandidate ==
    \A s \in Screens : \A k \in LiveKeys(s) : \E a \in activated :
        /\ attempt[a].key = k
        /\ grant[attempt[a].grant].screen = s
        /\ status[attempt[a].grant] \in {"CLAIMED", "DELETED"}
        /\ generation[s] = grant[attempt[a].grant].expected + 1
        /\ installation[s] = k
        /\ phase[s] = "ACTIVE"

(* Of all candidates that ever competed for one generation of a Screen, in one
   grant or in several, at most one is activated. *)
OneWinnerPerGeneration ==
    \A a, b \in activated :
        LET ga == grant[attempt[a].grant]
            gb == grant[attempt[b].grant]
        IN  ga.screen = gb.screen /\ ga.expected = gb.expected => a = b

(* The candidate that won is never recorded as cancelled, although the same
   columns are rewritten in bulk by activation, cancellation, supersession,
   revocation, deletion and every identity mutation. *)
WinnerNeverCancelled == activated \intersect cancelled = {}

(* A replacement grant that can still be activated implies the old identity is
   already gone: containment comes before replacement. *)
ReplacementFollowsContainment ==
    \A g \in Grants :
        status[g] = "PENDING" /\ grant[g].expected = generation[grant[g].screen]
            => LiveKeys(grant[g].screen) = {}

(* However attempts time out, are proved again or lose their competitors, an
   operator never has more than the allowed candidates of a grant to review. *)
CandidateLimit ==
    \A g \in Grants :
        Cardinality((AttemptsOf({g}) \intersect proved) \ cancelled) <= MaxCandidates

(* Retention never deletes a grant whose creation may still be replayed. *)
ReplayableGrantIsRetained ==
    \A q \in RequestKeys :
        createRecord[q] # None /\ age[createRecord[q].grant] < ReplayLapsed
            => status[createRecord[q].grant] # "DELETED"

(* The live keys, generations and spent keys of Screens behave as the abstract
   credential life cycle says: one live key, each key once, a new generation
   with every change. *)
Credential == INSTANCE ScreenCredential
    WITH live <- [s \in Screens |-> LiveKeys(s)], spent <- tombstone

ImplementsCredentialLifeCycle == Credential!CredentialSpec

(* docs/DEVICE_PROTOCOL.md:317: "Only one pending targeted grant is permitted
   per screen."  Fails: an initial grant stays pending when a replacement is
   requested for the same Screen. *)
OnePendingTargetedGrant ==
    \A g, h \in Grants :
        status[g] = "PENDING" /\ status[h] = "PENDING"
        /\ grant[g].screen = grant[h].screen => g = h

(* "Enrollment idempotency target is missing" (prisma.ts:2528) asserts that a
   replayable request still finds its grant by target Screen.  Fails: deleting
   the Screen clears the target of its grants. *)
ReplayTargetPresent ==
    \A q \in RequestKeys :
        createRecord[q] # None /\ age[createRecord[q].grant] < ReplayLapsed
            => phase[createRecord[q].screen] = "ACTIVE"

=============================================================================
