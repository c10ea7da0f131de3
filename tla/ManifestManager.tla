--------------------------- MODULE ManifestManager ---------------------------
(***************************************************************************)
(* The player's content: the two manifest slots of IndexedDB, the asset      *)
(* cache, and the ManifestManager that stages, activates, recovers and rolls *)
(* back releases.                                                            *)
(*                                                                         *)
(* The manager runs two promise queues.  The staging queue holds a release   *)
(* that is being downloaded and the cache collections that recovery asks     *)
(* for; the state queue holds the changes of the slots.  Downloads stay off  *)
(* the state queue, so a rollback overtakes a stalled release.  The head of  *)
(* a queue is the operation that runs; it may be interrupted wherever the    *)
(* code awaits, by the other queue and by callers that erase the storage     *)
(* without any queue.                                                        *)
(*                                                                         *)
(* Abstractions: a manifest is a semantic version, its generation time and   *)
(* the identity whose request it answers; it verifies for every identity of  *)
(* the same Screen, all with the one verification key of the server; the     *)
(* kind, the deadline and the assets of a version are constants.  Devices    *)
(* authenticate with proof-v1, so every envelope carries the identifier of   *)
(* its request.  IndexedDB runs its transactions in the order of the calls.  *)
(* The lease of an ordinary envelope may have lapsed whenever it is looked   *)
(* at; the deadline of an emergency is exact.  Assets are not evicted by the *)
(* platform.                                                                 *)
(***************************************************************************)
EXTENDS Naturals, Sequences, FiniteSets

CONSTANTS
    Keys,           \* device identities
    Screens,        \* what an identity is enrolled for
    ScreenOf,       \* [Keys -> Screens]
    Versions,       \* semantic releases
    Emergencies,    \* versions with priority emergency
    Withdrawals,    \* versions with withdrawn set
    Deadline,       \* [Versions -> Nat], emergency validUntil, else playbackEndsAt
    Assets,         \* cached media, by identifier and checksum
    Items,          \* [Versions -> SUBSET Assets]
    MaxNow,         \* bound on the clock
    MaxGeneratedAt, \* bound on the generation times of the server
    None

(* assertManifest, of a release: a withdrawal is an empty ordinary release, every
   other one has items. *)
WellFormed(v) ==
    IF v \in Withdrawals THEN v \notin Emergencies /\ Items[v] = {} ELSE Items[v] # {}

ASSUME ManifestAssumption ==
    /\ ScreenOf \in [Keys -> Screens]
    /\ Emergencies \subseteq Versions /\ Withdrawals \subseteq Versions
    /\ Deadline \in [Versions -> Nat]
    /\ Items \in [Versions -> SUBSET Assets]
    /\ \A v \in Versions : WellFormed(v)
    /\ MaxNow \in Nat /\ MaxGeneratedAt \in Nat \ {0}

VARIABLES
    now,          \* the device's clock
    active,       \* slot "active-manifest"
    previous,     \* slot "previous-manifest"
    cached,       \* assets in the cache
    generation,   \* stagingGeneration
    stage,        \* the release being staged
    sweep,        \* pruneRetainedAssets in progress
    stagingQueue, \* stagingTail: "stage" and "sweep", the head runs
    stateQueue    \* stateTail: operations on the slots, the head runs

slots == <<active, previous>>
stagingVars == <<generation, stage, sweep, stagingQueue>>
managerVars == <<now, slots, cached, stagingVars, stateQueue>>

-----------------------------------------------------------------------------
Manifest == [version : Versions, generatedAt : 1 .. MaxGeneratedAt, owner : Keys]

ASSUME ManifestNoneAssumption == None \notin Manifest \union Keys \union Versions

StageSteps == {"IDLE", "QUEUED", "PRUNING", "PREFETCH", "ACTIVATING", "CLEARED", "TIDYING", "DONE", "FAILED"}
NoStage == [step |-> "IDLE", manifest |-> None, trust |-> None, generation |-> 0,
            todo |-> {}, fetching |-> {}, failed |-> FALSE, result |-> None]
StageRow == [step : StageSteps, manifest : Manifest, trust : Keys, generation : Nat,
             todo : SUBSET Assets, fetching : SUBSET Assets, failed : BOOLEAN,
             result : Manifest \union {None}] \union {NoStage}

NoSweep == [step |-> "IDLE", kept |-> {}]
SweepRow == [step : {"IDLE", "ACTIVE", "PREVIOUS", "DELETE"}, kept : SUBSET Assets]

Activation == [kind |-> "ACTIVATE"]
Recovery(trust, epoch) == [kind |-> "RECOVER", trust |-> trust, epoch |-> epoch]
Rollback(trust, expected, epoch, cause) ==
    [kind |-> "ROLLBACK", trust |-> trust, epoch |-> epoch, expected |-> expected,
     cause |-> cause]
Swap(op, until) ==
    [kind |-> "SWAP", trust |-> op.trust, epoch |-> op.epoch, expected |-> op.expected,
     cause |-> op.cause, until |-> until]

ManagerTypeOK ==
    /\ now \in 0 .. MaxNow
    /\ active \in Manifest \union {None}
    /\ previous \in Manifest \union {None}
    /\ cached \in SUBSET Assets
    /\ generation \in Nat
    /\ stage \in StageRow
    /\ sweep \in SweepRow
    /\ stagingQueue \in Seq({"stage", "sweep"})
    /\ \A i \in DOMAIN stateQueue :
            stateQueue[i].kind \in {"ACTIVATE", "RECOVER", "ROLLBACK", "SWAP"}

ManagerInit ==
    /\ now = 0
    /\ active = None /\ previous = None /\ cached = {}
    /\ generation = 0 /\ stage = NoStage /\ sweep = NoSweep
    /\ stagingQueue = <<>> /\ stateQueue = <<>>

-----------------------------------------------------------------------------
(* What the code asks of a manifest. *)
Withdrawn(m) == m.version \in Withdrawals
Emergency(m) == m.version \in Emergencies
ItemsOf(m) == IF m = None THEN {} ELSE Items[m.version]

(* verifySignedPlayerManifest: the envelope is signed by the server and for the
   Screen of the pinned identity; which identity asked for it is not compared. *)
Verified(m, trust) == m # None /\ ScreenOf[m.owner] = ScreenOf[trust]

(* manifestPlaybackEndsAt has passed; an emergency carries no such boundary. *)
Ended(m) == ~Emergency(m) /\ Deadline[m.version] <= now

(* Mutant of Expired: the emergency deadline is one tick late. *)
ExpiredLate(m) == Emergency(m) /\ Deadline[m.version] < now

(* The signed deadline of an emergency has passed. *)
Expired(m) == Emergency(m) /\ Deadline[m.version] <= now

(* The envelope may be past validUntil when a stage looks at it. *)
MayHaveLapsed(m) == IF Emergency(m) THEN {Expired(m)} ELSE BOOLEAN

(* isStoredManifestPlayable, of a verified manifest. *)
Playable(m) == ~Withdrawn(m) /\ ~Expired(m) /\ ~Ended(m)

(* rollbackDeadline: no rollback after either release has ended. *)
RollbackDeadline(from, to) ==
    LET bounds == {Deadline[m.version] : m \in {x \in {from} : ~Emergency(x)} \union {to}} IN
    CHOOSE d \in bounds : \A e \in bounds : d <= e

(* assertNotOlderThanActive.  Another version of the same time is refused because
   envelopes carry the identifier of their request; without it the code takes it. *)
NotOlder(m, old) ==
    \/ old = None
    \/ m.generatedAt > old.generatedAt
    \/ m.generatedAt = old.generatedAt /\ m.version = old.version

(* assertStagingGeneration fails: the stage was cancelled. *)
Cancelled == stage.generation # generation

-----------------------------------------------------------------------------
(* The transactions of IndexedDbPlayerStore. *)

(* Mutant of Activated: a withdrawal leaves the rollback slot alone. *)
ActivatedKeepingBaseline(m) ==
    /\ active' = m
    /\ previous' = IF /\ ~Withdrawn(m) /\ active # None /\ active.version # m.version
                      /\ ~Emergency(active) /\ ~Withdrawn(active)
                   THEN active ELSE previous

(* activateManifest: one transaction puts the release into the active slot and
   keeps the rollback baseline, or removes it with a withdrawal. *)
Activated(m) ==
    /\ active' = m
    /\ previous' =
        IF Withdrawn(m) THEN None
        ELSE IF /\ active # None /\ active.version # m.version
                /\ ~Emergency(active) /\ ~Withdrawn(active)
             THEN active ELSE previous

(* What an operation of the state queue makes of the slots, and its result. *)
Outcome(a, p, r) == [active |-> a, previous |-> p, result |-> r]
Blank == Outcome(None, None, None)             \* clearManifests
Drop == Outcome(active, None, None)            \* clearPreviousManifest(active.version)
Keep(r) == Outcome(active, previous, r)
Restore == Outcome(previous, previous, previous)

Apply(outcome) == active' = outcome.active /\ previous' = outcome.previous

PlayableOrNone(m) == IF m # None /\ Playable(m) THEN m ELSE None

(* recoverExclusive *)
RecoverOutcome(trust) ==
    IF ~Verified(active, trust) THEN Blank
    ELSE IF Withdrawn(active) \/ Ended(active) THEN Drop
    ELSE IF ~Expired(active) THEN Keep(active)
    ELSE IF previous # None /\ ~Verified(previous, trust) THEN Blank
    ELSE IF PlayableOrNone(previous) = None THEN Drop
    ELSE Restore

(* The swap of rollbackExclusive follows: both slots verify, the active release
   is the one to be replaced and the other one is playable. *)
Swaps(trust, expected) ==
    /\ Verified(active, trust) /\ ~Withdrawn(active) /\ ~Ended(active)
    /\ active.version = expected
    /\ Verified(previous, trust) /\ Playable(previous)

(* rollbackExclusive when it does not come to the swap. *)
RollbackOutcome(trust, expected) ==
    IF ~Verified(active, trust) THEN Blank
    ELSE IF Withdrawn(active) \/ Ended(active) THEN Drop
    ELSE IF active.version # expected THEN Keep(PlayableOrNone(active))
    ELSE Blank

(* Mutant of SwapOutcome: the transaction does not compare the active version
   with the one that was to be replaced. *)
SwapOutcomeBlind(expected, until) == IF until <= now THEN Drop ELSE Restore

(* store.rollback: the swap, decided again inside its transaction. *)
SwapOutcome(expected, until) ==
    IF active = None \/ active.version # expected THEN Keep(active)
    ELSE IF until <= now THEN Drop
    ELSE Restore

-----------------------------------------------------------------------------
(* Staging. *)
Finish(step) ==
    /\ stage' = [stage EXCEPT !.step = step, !.todo = {}]
    /\ stagingQueue' = Tail(stagingQueue)

(* stageAndActivate, up to the staging queue. *)
EnqueueStage(m, trust) ==
    /\ stage' = [NoStage EXCEPT !.step = "QUEUED", !.manifest = m, !.trust = trust,
                                !.generation = generation]
    /\ stagingQueue' = Append(stagingQueue, "stage")

(* cancelPendingStages *)
Cancel == generation' = generation + 1

(* The head of the staging queue begins: a cancelled, lapsed or overtaken
   release is refused, another one first collects the cache. *)
StageBegin ==
    /\ stagingQueue # <<>> /\ Head(stagingQueue) = "stage" /\ stage.step = "QUEUED"
    /\ \E lapsed \in MayHaveLapsed(stage.manifest) :
        IF \/ Cancelled \/ lapsed
           \/ Verified(active, stage.trust) /\ ~NotOlder(stage.manifest, active)
        THEN Finish("FAILED") /\ UNCHANGED sweep
        ELSE /\ stage' = [stage EXCEPT !.step = "PRUNING"]
             /\ sweep' = [NoSweep EXCEPT !.step = "ACTIVE"]
             /\ UNCHANGED stagingQueue
    /\ UNCHANGED <<now, slots, cached, generation, stateQueue>>

(* A collection that recovery queued begins. *)
SweepBegin ==
    /\ stagingQueue # <<>> /\ Head(stagingQueue) = "sweep" /\ sweep.step = "IDLE"
    /\ sweep' = [NoSweep EXCEPT !.step = "ACTIVE"]
    /\ UNCHANGED <<now, slots, cached, generation, stage, stagingQueue, stateQueue>>

(* pruneRetainedAssets reads the two slots in two transactions. *)
SweepActive ==
    /\ sweep.step = "ACTIVE"
    /\ sweep' = [step |-> "PREVIOUS", kept |-> ItemsOf(active)]
    /\ UNCHANGED <<now, slots, cached, generation, stage, stagingQueue, stateQueue>>

SweepPrevious ==
    /\ sweep.step = "PREVIOUS"
    /\ sweep' = [step |-> "DELETE", kept |-> sweep.kept \union ItemsOf(previous)]
    /\ UNCHANGED <<now, slots, cached, generation, stage, stagingQueue, stateQueue>>

(* Mutant of Retained: the rollback release is not retained. *)
RetainedActiveOnly(kept) == kept \intersect ItemsOf(active)

Retained(kept) == kept

(* prune deletes what is not retained; it may fail part of the way, which the
   manager ignores.  What waited for the collection goes on. *)
SweepDelete ==
    /\ sweep.step = "DELETE"
    /\ \E left \in SUBSET (cached \ Retained(sweep.kept)) :
            cached' = (cached \intersect Retained(sweep.kept)) \union left
    /\ sweep' = NoSweep
    /\ CASE stage.step = "PRUNING" /\ Cancelled -> Finish("FAILED")
         [] stage.step = "PRUNING" /\ ~Cancelled ->
                /\ stage' = [stage EXCEPT !.step = "PREFETCH",
                                !.todo = IF Ended(stage.manifest) THEN {} ELSE ItemsOf(stage.manifest)]
                /\ UNCHANGED stagingQueue
         [] stage.step = "TIDYING" -> Finish("DONE")
         [] OTHER -> stagingQueue' = Tail(stagingQueue) /\ UNCHANGED stage
    /\ UNCHANGED <<now, slots, generation, stateQueue>>

(* One of the two prefetch workers claims an item, unless the stage failed or
   was cancelled. *)
PrefetchClaim(a) ==
    /\ stage.step = "PREFETCH" /\ ~stage.failed
    /\ a \in stage.todo /\ Cardinality(stage.fetching) < 2
    /\ stage' = IF Cancelled THEN [stage EXCEPT !.failed = TRUE]
                ELSE [stage EXCEPT !.todo = @ \ {a}, !.fetching = @ \union {a}]
    /\ UNCHANGED <<now, slots, cached, generation, sweep, stagingQueue, stateQueue>>

(* prefetchOnce ends: the bytes are in the cache, also when the stage was
   cancelled meanwhile. *)
PrefetchLand(a) ==
    /\ a \in stage.fetching
    /\ cached' = cached \union {a}
    /\ stage' = [stage EXCEPT !.fetching = @ \ {a}, !.failed = @ \/ Cancelled]
    /\ UNCHANGED <<now, slots, generation, sweep, stagingQueue, stateQueue>>

PrefetchFail(a) ==
    /\ a \in stage.fetching
    /\ stage' = [stage EXCEPT !.fetching = @ \ {a}, !.failed = TRUE]
    /\ UNCHANGED <<now, slots, cached, generation, sweep, stagingQueue, stateQueue>>

(* Both workers are done: the activation goes to the state queue. *)
PrefetchEnd ==
    /\ stage.step = "PREFETCH" /\ stage.fetching = {}
    /\ IF stage.failed \/ (stage.todo = {} /\ Cancelled)
       THEN Finish("FAILED") /\ UNCHANGED stateQueue
       ELSE /\ stage.todo = {}
            /\ stage' = [stage EXCEPT !.step = "ACTIVATING"]
            /\ stateQueue' = Append(stateQueue, Activation)
            /\ UNCHANGED stagingQueue
    /\ UNCHANGED <<now, slots, cached, generation, sweep>>

(* What the activation hands to the screen, decided when it begins. *)
StageResult ==
    IF Withdrawn(stage.manifest) \/ Ended(stage.manifest) THEN None ELSE stage.manifest

(* The release is in its slot; the cache is collected after it. *)
Tidy(result) ==
    /\ stage' = [stage EXCEPT !.step = "TIDYING", !.result = result]
    /\ sweep' = [NoSweep EXCEPT !.step = "ACTIVE"]
    /\ stateQueue' = Tail(stateQueue)
    /\ UNCHANGED stagingQueue

(* activateExclusive: decided again at the head of the state queue.  Slots whose
   active release does not verify are blanked first, in a transaction of its own. *)
Activate ==
    /\ stateQueue # <<>> /\ Head(stateQueue).kind = "ACTIVATE"
    /\ stage.step = "ACTIVATING"
    /\ \E lapsed \in MayHaveLapsed(stage.manifest) :
        IF \/ Cancelled \/ lapsed
           \/ Verified(active, stage.trust) /\ ~NotOlder(stage.manifest, active)
        THEN Finish("FAILED") /\ stateQueue' = Tail(stateQueue) /\ UNCHANGED <<slots, sweep>>
        ELSE IF active # None /\ ~Verified(active, stage.trust)
        THEN /\ Apply(Blank)
             /\ stage' = [stage EXCEPT !.step = "CLEARED", !.result = StageResult]
             /\ UNCHANGED <<stateQueue, stagingQueue, sweep>>
        ELSE Activated(stage.manifest) /\ Tidy(StageResult)
    /\ UNCHANGED <<now, cached, generation>>

(* Then the release is activated, unless it was cancelled meanwhile. *)
ActivateCleared ==
    /\ stateQueue # <<>> /\ Head(stateQueue).kind = "ACTIVATE"
    /\ stage.step = "CLEARED"
    /\ IF Cancelled
       THEN Finish("FAILED") /\ stateQueue' = Tail(stateQueue) /\ UNCHANGED <<slots, sweep>>
       ELSE Activated(stage.manifest) /\ Tidy(stage.result)
    /\ UNCHANGED <<now, cached, generation>>

=============================================================================
