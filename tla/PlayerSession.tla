---------------------------- MODULE PlayerSession ----------------------------
(***************************************************************************)
(* The player application: boot, pairing, manifest synchronization, what is *)
(* on screen, and the erasure of a device whose credential was revoked, over *)
(* the ManifestManager and the Android key store.                            *)
(*                                                                         *)
(* The process may die at any moment; what is on disk is the stored          *)
(* credential, the saved pairing, the slots, the cache, and the keys with    *)
(* their active alias.  Erasure clears the database and the cache at the     *)
(* same time and outside both queues of the manager.                         *)
(*                                                                         *)
(* Abstractions: the server publishes one version at a time to every live    *)
(* identity, and revokes or approves identities at any moment; a revoked     *)
(* identity is never approved again (DeviceEnrollment).  The answer of a     *)
(* request is decided when it is sent and delivered later.  What is left     *)
(* over of an erasure that failed is over when the next one of its kind      *)
(* begins.  Wording, the online and fallback badges and the fatal message of *)
(* a failed sync are left out; the other fatal screens are not.              *)
(*                                                                         *)
(* The last three variables are history: no action reads them.  A flight     *)
(* that outlives its credentials erases what it finds, also what the next    *)
(* pairing has stored; they record what such a straggler took.               *)
(***************************************************************************)
EXTENDS ManifestManager

CONSTANTS
    MaxEpoch,    \* bound on revocations and pairings between restarts
    MaxPending   \* bound on queued rollbacks and on queued collections of the cache

ASSUME SessionAssumption ==
    MaxEpoch \in Nat /\ MaxPending \in Nat

VARIABLES
    published,   \* [version, generatedAt], what the server publishes
    live,        \* identities the server accepts
    revoked,     \* identities it revoked
    proven,      \* identities whose final pairing proof it holds
    stored,      \* "credentials" on disk
    pending,     \* "pending-pairing" on disk
    keystore,    \* private keys of the device
    alias,       \* the active one
    screen,      \* "BOOT", "ERASING", "READY" or "FATAL"
    creds,       \* credentials of the running application
    shown,       \* the manifest that is played
    epoch,       \* credentialEpochRef
    sync,        \* the single flight of syncManifest
    erasing,     \* [Erasers -> what still has to be cleared]
    deprovision, \* deprovisionRef: "NO", "CLEARING" or "STUCK"
    pairing,     \* the pairing form: its step and the identity it pairs
    late,        \* history: a straggler began the last deprovisioning
    orphaned,    \* history: the last credential a straggler erased
    stolen       \* history: what the last erasure of assets took, if a straggler's, and is not back

serverVars == <<published, live, revoked, proven>>
diskVars == <<stored, pending, keystore, alias>>
appVars == <<screen, creds, shown, epoch, sync, erasing, deprovision, pairing>>
historyVars == <<late, orphaned, stolen>>
sessionVars == <<managerVars, serverVars, diskVars, appVars, historyVars>>

-----------------------------------------------------------------------------
Erasers == {"BOOT", "SYNC", "DEPROVISION"}
Everything == {"STORE", "ASSETS"}

NoSync == [step |-> "IDLE", trust |-> None, epoch |-> 0, answer |-> None]
SyncSteps == {"IDLE", "ASKING", "STAGING", "RECOVERING", "ERASING", "REVOKED"}
NoPairing == [step |-> "IDLE", key |-> None]
PairingSteps == {"IDLE", "WAITING", "FINALIZING", "ROTATING"}

SessionTypeOK ==
    /\ ManagerTypeOK
    /\ published \in [version : Versions, generatedAt : 1 .. MaxGeneratedAt]
    /\ live \in SUBSET Keys /\ revoked \in SUBSET Keys /\ proven \in SUBSET Keys
    /\ stored \in Keys \union {None} /\ pending \in {alias, None}
    /\ keystore \in SUBSET Keys /\ alias \in Keys
    /\ screen \in {"BOOT", "ERASING", "READY", "FATAL"}
    /\ creds \in Keys \union {None}
    /\ shown \in Manifest \union {None}
    /\ epoch \in Nat
    /\ sync.step \in SyncSteps
    /\ erasing \in [Erasers -> SUBSET Everything]
    /\ deprovision \in {"NO", "CLEARING", "STUCK"}
    /\ pairing \in [step : PairingSteps, key : Keys \union {None}]
    /\ late \in BOOLEAN /\ orphaned \in Keys \union {None} /\ stolen \in SUBSET Assets

HistoryInit == late = FALSE /\ orphaned = None /\ stolen = {}

(* A device fresh from the factory: getIdentity has made its first key. *)
SessionInit ==
    /\ ManagerInit
    /\ published \in [version : Versions \ Emergencies, generatedAt : {1}]
    /\ live = {} /\ revoked = {} /\ proven = {}
    /\ stored = None /\ pending = None
    /\ \E k \in Keys : alias = k /\ keystore = {k}
    /\ screen = "BOOT" /\ creds = None /\ shown = None /\ epoch = 0
    /\ sync = NoSync /\ erasing = [e \in Erasers |-> {}]
    /\ deprovision = "NO" /\ pairing = NoPairing
    /\ HistoryInit

-----------------------------------------------------------------------------
(* The server and the clock. *)
Tick ==
    /\ now < MaxNow
    /\ now' = now + 1
    /\ UNCHANGED <<slots, cached, stagingVars, stateQueue, serverVars, diskVars, appVars, historyVars>>

(* A publication, or the refresh of the same one. *)
Publish(v) ==
    /\ published.generatedAt < MaxGeneratedAt
    /\ published' = [version |-> v, generatedAt |-> published.generatedAt + 1]
    /\ UNCHANGED <<managerVars, live, revoked, proven, diskVars, appVars, historyVars>>

Revoke(k) ==
    /\ k \in live
    /\ live' = live \ {k} /\ revoked' = revoked \union {k}
    /\ UNCHANGED <<managerVars, published, proven, diskVars, appVars, historyVars>>

Approve(k) ==
    /\ k \in proven \ (live \union revoked) /\ live = {}
    /\ live' = live \union {k}
    /\ UNCHANGED <<managerVars, published, revoked, proven, diskVars, appVars, historyVars>>

-----------------------------------------------------------------------------
(* Erasure. *)

(* The erasure is one of a flight that outlived its credentials. *)
Straggles(e) == e = "SYNC" \/ (e = "DEPROVISION" /\ late)

(* store.clear; the boot keeps a pairing that can be resumed:
   clearProvisionedState. *)
EraseStore(e) ==
    /\ "STORE" \in erasing[e]
    /\ erasing' = [erasing EXCEPT ![e] = @ \ {"STORE"}]
    /\ active' = None /\ previous' = None /\ stored' = None
    /\ pending' = IF e = "BOOT" THEN pending ELSE None
    /\ orphaned' = IF Straggles(e) /\ stored # None THEN stored ELSE orphaned
    /\ UNCHANGED <<now, cached, stagingVars, stateQueue, serverVars, keystore, alias,
                   screen, creds, shown, epoch, sync, deprovision, pairing, late, stolen>>

(* assetRepository.removeAll *)
EraseAssets(e) ==
    /\ "ASSETS" \in erasing[e]
    /\ erasing' = [erasing EXCEPT ![e] = @ \ {"ASSETS"}]
    /\ cached' = {}
    /\ stolen' = IF Straggles(e) THEN stolen \union cached ELSE {}
    /\ UNCHANGED <<now, slots, stagingVars, stateQueue, serverVars, diskVars,
                   screen, creds, shown, epoch, sync, deprovision, pairing, late, orphaned>>

(* The caller of an erasure waits for it: the boot, the flight of a stale release,
   or the deprovisioning, which a pairing may have declared over. *)
Awaited(e) ==
    CASE e = "BOOT" -> {TRUE}
      [] e = "SYNC" -> {sync.step = "ERASING"}
      [] e = "DEPROVISION" /\ deprovision = "NO" -> BOOLEAN
      [] OTHER -> {deprovision = "CLEARING"}

(* One of the two fails.  The first failure reaches who waits, while the other part
   goes on: a fatal screen, the end of a flight that waited, and a deprovisioning
   that stays unfinished until the restart.  A later one is not heard. *)
EraseFails(e) ==
    /\ \E part \in erasing[e] : erasing' = [erasing EXCEPT ![e] = @ \ {part}]
    /\ \E awaited \in Awaited(e) :
        IF awaited
        THEN /\ screen' = "FATAL"
             /\ deprovision' = IF e = "DEPROVISION" /\ deprovision = "CLEARING" THEN "STUCK"
                               ELSE deprovision
             /\ sync' = IF \/ e = "SYNC"
                           \/ e = "DEPROVISION" /\ sync.step = "REVOKED"
                        THEN NoSync ELSE sync
        ELSE UNCHANGED <<screen, deprovision, sync>>
    /\ UNCHANGED <<managerVars, serverVars, diskVars, creds, shown, epoch, pairing, historyVars>>

(* The process dies and starts again. *)
Restart ==
    /\ generation' = 0 /\ stage' = NoStage /\ sweep' = NoSweep
    /\ stagingQueue' = <<>> /\ stateQueue' = <<>>
    /\ screen' = "BOOT" /\ creds' = None /\ shown' = None /\ epoch' = 0
    /\ sync' = NoSync /\ erasing' = [e \in Erasers |-> {}]
    /\ deprovision' = "NO" /\ pairing' = NoPairing
    /\ late' = FALSE /\ orphaned' = None
    /\ UNCHANGED <<now, slots, cached, serverVars, diskVars, stolen>>

-----------------------------------------------------------------------------
(* Boot. *)
Booting == screen = "BOOT" /\ erasing["BOOT"] = {}

(* A saved pairing is dropped when it has expired or when the credential it
   was for is stored; what remains can be resumed.  It is always for the active
   identity (SessionTypeOK), so the fatal screen of a mismatch is not modelled. *)
Resumable(expired) == IF expired \/ stored # None THEN None ELSE pending

(* No usable credential: everything left behind is erased before the pairing
   form is shown.  Without a credential and slots only the cache is. *)
BootErase ==
    /\ Booting /\ stored \in {None} \union (Keys \ {alias})
    /\ \E expired \in BOOLEAN : pending' = Resumable(expired)
    /\ erasing' = [erasing EXCEPT !["BOOT"] =
            IF stored = None /\ active = None /\ previous = None
            THEN {"ASSETS"} ELSE Everything]
    /\ screen' = "ERASING"
    /\ UNCHANGED <<managerVars, serverVars, stored, keystore, alias,
                   creds, shown, epoch, sync, deprovision, pairing, historyVars>>

BootErased ==
    /\ screen = "ERASING" /\ erasing["BOOT"] = {}
    /\ screen' = "READY"
    /\ pairing' = IF pending = None THEN NoPairing ELSE [step |-> "WAITING", key |-> pending]
    /\ UNCHANGED <<managerVars, serverVars, diskVars,
                   creds, shown, epoch, sync, erasing, deprovision, historyVars>>

(* finalizeIdentityRotation: every key but the active one is deleted. *)
FinalizeRotation == keystore' = {alias}

(* The stored credential belongs to the active identity: recover the content,
   finish the rotation, play.  A failed rotation stops on a fatal screen. *)
BootResume ==
    /\ Booting /\ stored = alias
    /\ pending' = None
    /\ Apply(RecoverOutcome(stored))
    /\ stagingQueue' = Append(stagingQueue, "sweep")
    /\ \/ /\ FinalizeRotation
          /\ creds' = stored /\ shown' = RecoverOutcome(stored).result
          /\ screen' = "READY"
       \/ screen' = "FATAL" /\ UNCHANGED <<keystore, creds, shown>>
    /\ UNCHANGED <<now, cached, generation, stage, sweep, stateQueue, serverVars,
                   stored, alias, epoch, sync, erasing, deprovision, pairing, historyVars>>

-----------------------------------------------------------------------------
(* Deprovisioning: the identity was refused. *)

(* Mutant of Deprovision: the credential epoch is not advanced. *)
DeprovisionSameEpoch ==
    /\ Cancel
    /\ creds' = None /\ shown' = None /\ screen' = "READY"
    /\ erasing' = [erasing EXCEPT !["DEPROVISION"] = Everything]
    /\ deprovision' = "CLEARING"
    /\ UNCHANGED epoch

Deprovision ==
    /\ epoch' = epoch + 1
    /\ Cancel
    /\ creds' = None /\ shown' = None /\ screen' = "READY"
    /\ erasing' = [erasing EXCEPT !["DEPROVISION"] = Everything]
    /\ deprovision' = "CLEARING"

HeartbeatDenied ==
    /\ creds \in Keys \ live /\ deprovision = "NO" /\ epoch < MaxEpoch
    /\ Deprovision
    /\ late' = FALSE
    /\ UNCHANGED <<now, slots, cached, stage, sweep, stagingQueue, stateQueue, serverVars,
                   diskVars, sync, pairing, orphaned, stolen>>

Deprovisioned ==
    /\ deprovision = "CLEARING" /\ erasing["DEPROVISION"] = {}
    /\ deprovision' = "NO"
    /\ UNCHANGED <<managerVars, serverVars, diskVars, screen, creds, shown, epoch,
                   sync, erasing, pairing, historyVars>>

-----------------------------------------------------------------------------
(* Pairing. *)

(* Mutant of PairingForm: shown while a revoked device is still being erased. *)
PairingFormEarly == screen = "READY" /\ creds = None

PairingForm == screen = "READY" /\ creds = None /\ deprovision = "NO"

(* The signed final proof is saved before it is sent. *)
PairSave ==
    /\ PairingForm /\ pairing = NoPairing /\ alias \notin live \union revoked
    /\ pending' = alias
    /\ pairing' = [step |-> "WAITING", key |-> alias]
    /\ UNCHANGED <<managerVars, serverVars, stored, keystore, alias,
                   screen, creds, shown, epoch, sync, erasing, deprovision, historyVars>>

(* The exact proof is sent, or sent again; an answer that approval is pending
   saves it again. *)
PairPoll ==
    /\ PairingForm /\ pairing.step = "WAITING" /\ pairing.key \notin live
    /\ proven' = proven \union {pairing.key}
    /\ pending' = pairing.key
    /\ UNCHANGED <<managerVars, published, live, revoked, stored, keystore, alias,
                   screen, creds, shown, epoch, sync, erasing, deprovision, pairing, historyVars>>

(* The approval expired or the server refused: the saved proof is discarded. *)
PairRejected ==
    /\ PairingForm /\ pairing.step = "WAITING"
    /\ pending' = None /\ pairing' = NoPairing
    /\ UNCHANGED <<managerVars, serverVars, stored, keystore, alias,
                   screen, creds, shown, epoch, sync, erasing, deprovision, historyVars>>

(* completePairing stores the credential and drops the saved proof in one
   transaction. *)
PairActivated ==
    /\ PairingForm /\ pairing.step = "WAITING" /\ pairing.key \in live
    /\ stored' = pairing.key /\ pending' = None
    /\ pairing' = [pairing EXCEPT !.step = "FINALIZING"]
    /\ UNCHANGED <<managerVars, serverVars, keystore, alias,
                   screen, creds, shown, epoch, sync, erasing, deprovision, historyVars>>

PairFinalized ==
    /\ pairing.step = "FINALIZING" /\ epoch < MaxEpoch
    /\ pairing' = NoPairing
    /\ \/ /\ FinalizeRotation
          /\ epoch' = epoch + 1 /\ creds' = pairing.key
          /\ deprovision' = "NO"
          /\ UNCHANGED screen
       \/ screen' = "FATAL" /\ UNCHANGED <<keystore, epoch, creds, deprovision>>
    /\ UNCHANGED <<managerVars, serverVars, stored, pending, alias, shown, sync,
                   erasing, historyVars>>

(* rotateIdentity: a fresh key, then the pointer to it. *)
RotateGenerate(k) ==
    /\ PairingForm /\ pairing = NoPairing
    /\ k \notin keystore \union live \union revoked \union proven
    /\ keystore' = keystore \union {k}
    /\ pairing' = [step |-> "ROTATING", key |-> k]
    /\ UNCHANGED <<managerVars, serverVars, stored, pending, alias,
                   screen, creds, shown, epoch, sync, erasing, deprovision, historyVars>>

RotateCommit ==
    /\ pairing.step = "ROTATING"
    /\ pairing' = NoPairing
    /\ \/ alias' = pairing.key /\ UNCHANGED keystore
       \/ keystore' = keystore \ {pairing.key} /\ UNCHANGED alias
    /\ UNCHANGED <<managerVars, serverVars, stored, pending,
                   screen, creds, shown, epoch, sync, erasing, deprovision, historyVars>>

-----------------------------------------------------------------------------
(* Synchronization: one flight at a time, which outlives its credentials. *)
SyncAsk ==
    /\ creds # None /\ sync = NoSync
    /\ Deadline[published.version] > now
    /\ sync' = [step |-> "ASKING", trust |-> creds, epoch |-> epoch,
                answer |-> IF creds \in live
                           THEN [version |-> published.version,
                                 generatedAt |-> published.generatedAt, owner |-> creds]
                           ELSE None]
    /\ UNCHANGED <<managerVars, serverVars, diskVars, screen, creds, shown, epoch,
                   erasing, deprovision, pairing, historyVars>>

(* A flight that failed recovers what is stored. *)
RecoverAfter(failure) ==
    /\ failure
    /\ sync' = [sync EXCEPT !.step = "RECOVERING", !.answer = None]
    /\ stateQueue' = Append(stateQueue, Recovery(sync.trust, sync.epoch))

(* The answer is lost, or its envelope has lapsed by now. *)
SyncLost ==
    /\ RecoverAfter(sync.step = "ASKING")
    /\ UNCHANGED <<now, slots, cached, stagingVars, serverVars, diskVars,
                   screen, creds, shown, epoch, erasing, deprovision, pairing, historyVars>>

SyncAnswered ==
    /\ sync.step = "ASKING" /\ sync.answer # None /\ ~Expired(sync.answer)
    /\ sync' = [sync EXCEPT !.step = "STAGING"]
    /\ EnqueueStage(sync.answer, sync.trust)
    /\ UNCHANGED <<now, slots, cached, generation, sweep, stateQueue, serverVars, diskVars,
                   screen, creds, shown, epoch, erasing, deprovision, pairing, historyVars>>

(* 401: deprovision, or wait for the one in progress. *)
SyncDenied ==
    /\ sync.step = "ASKING" /\ sync.answer = None
    /\ sync' = [sync EXCEPT !.step = "REVOKED"]
    /\ IF deprovision = "NO"
       THEN epoch < MaxEpoch /\ Deprovision /\ late' = (sync.epoch # epoch)
       ELSE UNCHANGED <<epoch, generation, creds, shown, screen, erasing, deprovision, late>>
    /\ UNCHANGED <<now, slots, cached, stage, sweep, stagingQueue, stateQueue, serverVars,
                   diskVars, pairing, orphaned, stolen>>

SyncStageFailed ==
    /\ RecoverAfter(sync.step = "STAGING" /\ stage.step = "FAILED")
    /\ stage' = NoStage
    /\ UNCHANGED <<now, slots, cached, generation, sweep, stagingQueue, serverVars, diskVars,
                   screen, creds, shown, epoch, erasing, deprovision, pairing, historyVars>>

(* The release is active.  Under the credentials it was asked for it is shown;
   otherwise the device was deprovisioned meanwhile and everything is erased. *)
SyncStaged ==
    /\ sync.step = "STAGING" /\ stage.step = "DONE"
    /\ stage' = NoStage
    /\ IF sync.epoch = epoch
       THEN /\ shown' = stage.result /\ screen' = "READY"
            /\ sync' = NoSync
            /\ UNCHANGED <<generation, erasing>>
       ELSE /\ Cancel
            /\ erasing' = [erasing EXCEPT !["SYNC"] = Everything]
            /\ sync' = [sync EXCEPT !.step = "ERASING"]
            /\ UNCHANGED <<shown, screen>>
    /\ UNCHANGED <<now, slots, cached, sweep, stagingQueue, stateQueue, serverVars, diskVars,
                   creds, epoch, deprovision, pairing, historyVars>>

(* The erasure it waited for is over; one that failed ended it at once (EraseFails). *)
SyncEnds ==
    /\ \/ sync.step = "ERASING" /\ erasing["SYNC"] = {}
       \/ sync.step = "REVOKED" /\ deprovision = "NO" /\ erasing["DEPROVISION"] = {}
       \/ sync.step = "REVOKED" /\ deprovision = "STUCK"
    /\ sync' = NoSync
    /\ UNCHANGED <<managerVars, serverVars, diskVars, screen, creds, shown, epoch,
                   erasing, deprovision, pairing, historyVars>>

-----------------------------------------------------------------------------
(* The screen, and the state queue whose results it shows. *)

(* A decoder, a missing asset or a stalled item: roll back to what was before. *)
PlaybackError ==
    /\ shown # None /\ creds # None /\ Len(stateQueue) < MaxPending
    /\ stateQueue' = Append(stateQueue, Rollback(creds, shown.version, epoch, "ERROR"))
    /\ UNCHANGED <<now, slots, cached, stagingVars, serverVars, diskVars, appVars, historyVars>>

(* The deadline of the emergency on screen: blank first, then roll back. *)
EmergencyEnds ==
    /\ shown # None /\ Expired(shown) /\ creds # None
    /\ shown' = None
    /\ stateQueue' = Append(stateQueue, Rollback(creds, shown.version, epoch, "DEADLINE"))
    /\ UNCHANGED <<now, slots, cached, stagingVars, serverVars, diskVars,
                   screen, creds, epoch, sync, erasing, deprovision, pairing, historyVars>>

(* The playback boundary of the release on screen. *)
PlaybackEnds ==
    /\ shown # None /\ Ended(shown)
    /\ shown' = None
    /\ UNCHANGED <<managerVars, serverVars, diskVars,
                   screen, creds, epoch, sync, erasing, deprovision, pairing, historyVars>>

(* The result of an operation is shown under the credentials it began with. *)
Show(op, result) == shown' = IF op.epoch = epoch THEN result ELSE shown

HeadIs(kind) == stateQueue # <<>> /\ Head(stateQueue).kind = kind

RunRecovery ==
    /\ HeadIs("RECOVER") /\ Len(stagingQueue) <= MaxPending
    /\ LET op == Head(stateQueue)
           outcome == RecoverOutcome(op.trust)
       IN  /\ Apply(outcome)
           /\ IF outcome.result = None THEN UNCHANGED shown ELSE Show(op, outcome.result)
    /\ stateQueue' = Tail(stateQueue)
    /\ stagingQueue' = Append(stagingQueue, "sweep")
    /\ sync' = NoSync
    /\ UNCHANGED <<now, cached, generation, stage, sweep, serverVars, diskVars,
                   screen, creds, epoch, erasing, deprovision, pairing, historyVars>>

(* A rollback is over.  Under the credentials it began with its result is shown; a
   playback error without one stops on a fatal screen. *)
RolledBack(op, result) ==
    /\ Show(op, result)
    /\ screen' = IF op.epoch = epoch /\ op.cause = "ERROR" /\ result = None THEN "FATAL"
                 ELSE screen
    /\ stateQueue' = Tail(stateQueue)

RunRollback ==
    /\ HeadIs("ROLLBACK")
    /\ LET op == Head(stateQueue) IN
        IF Swaps(op.trust, op.expected)
        THEN /\ stateQueue' = <<Swap(op, RollbackDeadline(active, previous))>> \o Tail(stateQueue)
             /\ UNCHANGED <<slots, shown, screen>>
        ELSE /\ Apply(RollbackOutcome(op.trust, op.expected))
             /\ RolledBack(op, RollbackOutcome(op.trust, op.expected).result)
    /\ UNCHANGED <<now, cached, stagingVars, serverVars, diskVars,
                   creds, epoch, sync, erasing, deprovision, pairing, historyVars>>

RunSwap ==
    /\ HeadIs("SWAP")
    /\ LET op == Head(stateQueue)
           outcome == SwapOutcome(op.expected, op.until)
       IN  /\ Apply(outcome)
           /\ RolledBack(op, PlayableOrNone(outcome.result))
    /\ UNCHANGED <<now, cached, stagingVars, serverVars, diskVars,
                   creds, epoch, sync, erasing, deprovision, pairing, historyVars>>

(* A transaction of the rollback is aborted.  A playback error then blanks the
   screen under any credentials. *)
RollbackThrows ==
    /\ HeadIs("ROLLBACK") \/ HeadIs("SWAP")
    /\ IF Head(stateQueue).cause = "ERROR"
       THEN shown' = None /\ screen' = "FATAL"
       ELSE UNCHANGED <<shown, screen>>
    /\ stateQueue' = Tail(stateQueue)
    /\ UNCHANGED <<now, slots, cached, stagingVars, serverVars, diskVars,
                   creds, epoch, sync, erasing, deprovision, pairing, historyVars>>

-----------------------------------------------------------------------------
ManagerStep ==
    \/ StageBegin \/ SweepBegin \/ SweepActive \/ SweepPrevious \/ SweepDelete
    \/ \E a \in Assets : PrefetchClaim(a) \/ PrefetchLand(a) \/ PrefetchFail(a)
    \/ PrefetchEnd \/ Activate \/ ActivateCleared

Environment ==
    \/ Tick
    \/ \E v \in Versions : Publish(v)
    \/ \E k \in Keys : Revoke(k) \/ Approve(k)
    \/ Restart

Erasure == \E e \in Erasers : EraseStore(e) \/ EraseAssets(e) \/ EraseFails(e)

Boot == BootErase \/ BootErased \/ BootResume

Pair ==
    \/ PairSave \/ PairPoll \/ PairRejected \/ PairActivated \/ PairFinalized
    \/ \E k \in Keys : RotateGenerate(k)
    \/ RotateCommit

Session ==
    \/ HeartbeatDenied \/ Deprovisioned
    \/ SyncAsk \/ SyncLost \/ SyncAnswered \/ SyncDenied
    \/ SyncStageFailed \/ SyncStaged \/ SyncEnds
    \/ PlaybackError \/ EmergencyEnds \/ PlaybackEnds
    \/ RunRecovery \/ RunRollback \/ RunSwap \/ RollbackThrows

(* What is downloaded again is not missing any more. *)
Manager ==
    /\ ManagerStep /\ stolen' = stolen \ cached'
    /\ UNCHANGED <<serverVars, diskVars, appVars, late, orphaned>>

SessionNext == Manager \/ Environment \/ Erasure \/ Boot \/ Pair \/ Session

SessionSpec == SessionInit /\ [][SessionNext]_sessionVars

-----------------------------------------------------------------------------
(* What is on screen was signed for the Screen of the identity the player runs as,
   and nothing is shown while it runs as none: nothing that was under way when the
   device was deprovisioned, or paired again for another Screen, is shown later. *)
ShownForScreen == shown # None => creds # None /\ ScreenOf[shown.owner] = ScreenOf[creds]

(* A slot of the live identity that is stored or runs, whose release may still be
   played, has all its assets, but for those a straggler erased: neither a staging
   that fails, is cancelled or collects the cache, nor a rollback or recovery beside
   it, takes the last known good content. *)
SlotsAreComplete ==
    \A m \in {active, previous} \ {None} :
        m.owner \in live \intersect {stored, creds} /\ ~Ended(m) /\ ~Expired(m) =>
            ItemsOf(m) \subseteq cached \union stolen

(* A withdrawal stays: while its release is the active one no rollback baseline
   exists, and only a newer release, a later envelope of the withdrawal or an
   erasure takes its place; whatever was under way when it was activated revives
   nothing. *)
WithdrawalIsFinal ==
    [][active # None /\ Withdrawn(active) =>
        /\ previous = None
        /\ \/ active' = None
           \/ active'.generatedAt > active.generatedAt
           \/ active'.generatedAt = active.generatedAt /\ active'.version = active.version
      ]_sessionVars

(* The credentials of the running application are the stored ones: a player
   that runs comes back with the same identity after a restart, unless a straggler
   erased exactly those, and then no others are stored. *)
RunningIdentityIsStored ==
    creds # None => stored = creds \/ (stored = None /\ orphaned = creds)

(* The credentials of the running application are on disk, whatever else happens. *)
CredentialsAreKept == creds # None => stored = creds

=============================================================================
