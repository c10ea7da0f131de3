------------------------------- MODULE Playback -------------------------------
(***************************************************************************)
(* The Playback component and what the App makes of its callbacks: items are *)
(* resolved, shown for their time or until they end, and followed by the     *)
(* next one; content that fails is rolled back, and heartbeats report what   *)
(* is playing.                                                               *)
(*                                                                         *)
(* Events of timers, media elements and promises come in any order and as    *)
(* often as they like.  setPosition takes effect at the next render, so      *)
(* several events may hit the same generation.  A commit and its effects are *)
(* one step.                                                                 *)
(*                                                                         *)
(* Abstractions: a generation is a version and a position; a release is      *)
(* ordinary and does not end by itself (see PlayerSession for emergencies,   *)
(* deadlines and withdrawals); a position wraps at MaxPosition, by which     *)
(* time what the refs held of it is replaced.                                *)
(***************************************************************************)
EXTENDS Naturals, Sequences

CONSTANTS
    Versions,
    Kinds,       \* [Versions -> sequence of the kinds of the items]
    MaxPosition, \* bound: positions are counted modulo MaxPosition
    None

Media == {"image", "video"}

ASSUME PlaybackAssumption ==
    /\ None \notin Versions
    /\ Kinds \in [Versions -> Seq(Media \union {"web", "template"})]
    /\ MaxPosition \in Nat \ {0, 1}   \* the next position is another one

VARIABLES
    slots,      \* the stored manifests: active and previous
    manifest,   \* the version on the screen, or None
    position,   \* of the generation that is rendered
    next,       \* the position asked for
    loads,      \* effects that resolve an item
    source,     \* the rendered generation has a source
    ready, settled, \* the refs of the same name hold the rendered generation
    urls,       \* object URLs that were not revoked
    activeBlob, \* the one the component will revoke
    recovering, \* versions whose rollback is under way
    playing,    \* playingRef
    report      \* the heartbeat being composed

playbackVars == <<slots, manifest, position, next, loads, source, ready, settled,
                  urls, activeBlob, recovering, playing, report>>

-----------------------------------------------------------------------------
Positions == 0 .. MaxPosition - 1
Generations == Versions \X Positions
Generation == <<manifest, position>>

ASSUME PlaybackNoneAssumption == None \notin Generations

(* Of a load whose effect was cleaned up it does not matter where it stood. *)
Load == [stage : {"RESOLVING", "FETCHING"}, cancelled : BOOLEAN]
NewLoad == [stage |-> "RESOLVING", cancelled |-> FALSE]

NoReport == [step |-> "NONE", version |-> None, asset |-> None]

PlaybackTypeOK ==
    /\ slots \in [active : Versions \union {None}, previous : Versions \union {None}]
    /\ manifest \in Versions \union {None}
    /\ position \in Positions /\ next \in Positions
    /\ loads \in SUBSET Load
    /\ source \in BOOLEAN
    /\ ready \in BOOLEAN /\ settled \in BOOLEAN
    /\ urls \in SUBSET Generations /\ activeBlob \in Generations \union {None}
    /\ recovering \in SUBSET Versions
    /\ playing \in Generations \union {None}
    /\ report.step \in {"NONE", "COLLECTING", "SENT"}

Length(v) == IF v = None THEN 0 ELSE Len(Kinds[v])
KindAt(v, p) == Kinds[v][(p % Len(Kinds[v])) + 1]

PlaybackInit ==
    /\ slots = [active |-> None, previous |-> None]
    /\ manifest = None
    /\ position = 0 /\ next = 0
    /\ loads = {} /\ source = FALSE
    /\ ready = FALSE /\ settled = FALSE
    /\ urls = {} /\ activeBlob = None
    /\ recovering = {}
    /\ playing = None /\ report = NoReport

-----------------------------------------------------------------------------
(* Mutant of Revoke: the component forgets the URL without revoking it. *)
RevokeForgotten == activeBlob' = None /\ UNCHANGED urls

(* revokeBlob of the rendered generation. *)
Revoke == urls' = urls \ {activeBlob} /\ activeBlob' = None

Cancelled == {[NewLoad EXCEPT !.cancelled = TRUE] : l \in loads}

(* The App shows a version: another one than before is a new component, which
   starts at its first item; a release without items fails at once.  The same
   version keeps the component and everything in its refs. *)
Mount(v) ==
    /\ manifest' = v
    /\ IF v = manifest
       THEN UNCHANGED <<position, next, loads, source, ready, settled, urls, activeBlob>>
       ELSE /\ position' = 0 /\ next' = 0
            /\ loads' = Cancelled \union (IF Length(v) > 0 THEN {NewLoad} ELSE {})
            /\ source' = FALSE
            /\ ready' = FALSE /\ settled' = FALSE
            /\ Revoke

Unavailable(v) == IF v # None /\ Length(v) = 0 THEN {v} ELSE {}

(* A synchronization activates a release; a repeated one keeps the rollback slot. *)
Sync(v) ==
    /\ slots' = [active |-> v,
                 previous |-> IF slots.active = v THEN slots.previous ELSE slots.active]
    /\ Mount(v)
    /\ recovering' = recovering \union Unavailable(v)
    /\ UNCHANGED <<playing, report>>

(* What the rollback of a version leaves in the slots; the slot it returns to
   stays filled, so both then hold the same version. *)
RolledBack(v) ==
    IF slots.active # v THEN slots
    ELSE IF slots.previous = None THEN [active |-> None, previous |-> None]
    ELSE [slots EXCEPT !.active = slots.previous]

(* The rollback returns, or fails: without anything to show the screen is fatal. *)
RollbackDone(v) ==
    /\ v \in recovering
    /\ \E result \in {RolledBack(v).active, None} :
        /\ Mount(result)
        /\ recovering' = (recovering \ {v}) \union Unavailable(result)
        /\ playing' = IF result = None THEN None ELSE playing
    /\ slots' = RolledBack(v)
    /\ UNCHANGED report

-----------------------------------------------------------------------------
Unsettled == manifest # None /\ ~settled

(* fail: once for a generation. *)
Fail ==
    /\ Unsettled
    /\ settled' = TRUE
    /\ Revoke
    /\ source' = FALSE
    /\ recovering' = recovering \union {manifest}

(* Mutant of MayAdvance: the generation may be settled already. *)
MayAdvanceAgain == manifest # None

MayAdvance == Unsettled

(* advance: the next position is rendered later. *)
Advance ==
    /\ MayAdvance
    /\ settled' = TRUE
    /\ Revoke
    /\ next' = (next + 1) % MaxPosition
    /\ UNCHANGED <<slots, manifest, position, loads, source, ready, recovering, playing, report>>

Render ==
    /\ manifest # None /\ next # position
    /\ position' = next
    /\ loads' = Cancelled \union {NewLoad}
    /\ source' = FALSE
    /\ ready' = FALSE /\ settled' = FALSE
    /\ Revoke
    /\ UNCHANGED <<slots, manifest, next, recovering, playing, report>>

(* markReady: once for a generation, and reported to the App. *)
MarkReady ==
    /\ Unsettled /\ ~ready
    /\ ready' = TRUE
    /\ playing' = <<manifest, position % Length(manifest)>>

-----------------------------------------------------------------------------
(* The load of a generation that is not rendered any more, or settled. *)
Late(l) == l.cancelled \/ settled

(* resolve fails, or a content that the player does not show. *)
LoadFails(l) ==
    /\ l \in loads
    /\ loads' = loads \ {l}
    /\ IF Late(l) THEN UNCHANGED <<settled, urls, activeBlob, source, recovering>> ELSE Fail
    /\ UNCHANGED <<slots, manifest, position, next, ready, playing, report>>

(* A file or an object URL; the latter is revoked at once when it is late. *)
Resolved(l) ==
    /\ l \in loads /\ l.stage = "RESOLVING"
    /\ IF Late(l)
       THEN loads' = loads \ {l} /\ UNCHANGED <<urls, activeBlob, source>>
       ELSE /\ KindAt(manifest, position) # "web"
            /\ \/ urls' = urls \union {Generation} /\ activeBlob' = Generation
               \/ UNCHANGED <<urls, activeBlob>>
            /\ IF KindAt(manifest, position) = "template"
               THEN /\ loads' = (loads \ {l}) \union {[l EXCEPT !.stage = "FETCHING"]}
                    /\ UNCHANGED source
               ELSE loads' = loads \ {l} /\ source' = TRUE
    /\ UNCHANGED <<slots, manifest, position, next, ready, settled, recovering, playing, report>>

(* A template is shown and with that ready. *)
TemplateFetched(l) ==
    /\ l \in loads /\ l.stage = "FETCHING"
    /\ loads' = loads \ {l}
    /\ IF Late(l) THEN UNCHANGED <<source, ready, playing>>
       ELSE source' = TRUE /\ MarkReady
    /\ UNCHANGED <<slots, manifest, position, next, settled, urls, activeBlob, recovering, report>>

-----------------------------------------------------------------------------
(* The media element loads or plays, ends, or fails. *)
Element(kinds) == manifest # None /\ source /\ KindAt(manifest, position) \in kinds

MediaReady ==
    /\ Element(Media)
    /\ MarkReady
    /\ UNCHANGED <<slots, manifest, position, next, loads, source, settled, urls,
                   activeBlob, recovering, report>>

(* A media element ends only after it has played. *)
VideoEnded == Element({"video"}) /\ ready /\ Advance

MediaError ==
    /\ Element(Media)
    /\ Fail
    /\ UNCHANGED <<slots, manifest, position, next, loads, ready, playing, report>>

(* The item's time is over. *)
DurationOver == manifest # None /\ ready /\ Advance

(* Mutant of NotReady: the timer gives a source the time it takes. *)
NotReadyWithoutSource == ~ready /\ ~source

NotReady == ~ready

ReadinessTimeout ==
    /\ manifest # None /\ Length(manifest) > 0 /\ NotReady
    /\ Fail
    /\ UNCHANGED <<slots, manifest, position, next, loads, ready, playing, report>>

-----------------------------------------------------------------------------
(* The heartbeat takes the manifest, waits for the storage statistics, and then
   looks what is playing. *)
CollectReport ==
    /\ report.step # "COLLECTING"
    /\ report' = [step |-> "COLLECTING", version |-> manifest, asset |-> None]
    /\ UNCHANGED <<slots, manifest, position, next, loads, source, ready, settled, urls,
                   activeBlob, recovering, playing>>

(* Mutant of Reported: whatever is playing now. *)
ReportedUnchecked(version) == playing

Reported(version) == IF playing # None /\ playing[1] = version THEN playing ELSE None

SendReport ==
    /\ report.step = "COLLECTING"
    /\ report' = [report EXCEPT !.step = "SENT",
            !.asset = IF report.version = None THEN None ELSE Reported(report.version)]
    /\ UNCHANGED <<slots, manifest, position, next, loads, source, ready, settled, urls,
                   activeBlob, recovering, playing>>

-----------------------------------------------------------------------------
PlaybackNext ==
    \/ \E v \in Versions : Sync(v) \/ RollbackDone(v)
    \/ Render
    \/ \E l \in loads : LoadFails(l) \/ Resolved(l) \/ TemplateFetched(l)
    \/ MediaReady \/ VideoEnded \/ MediaError
    \/ DurationOver \/ ReadinessTimeout
    \/ CollectReport \/ SendReport

(* Timers fire, React renders, and a rollback returns.  Nothing is assumed of
   loads, media elements and synchronizations. *)
PlaybackFairness ==
    /\ WF_playbackVars(Render)
    /\ WF_playbackVars(ReadinessTimeout)
    /\ WF_playbackVars(DurationOver)
    /\ \A v \in Versions : WF_playbackVars(RollbackDone(v))

-----------------------------------------------------------------------------
(* Items follow each other in order: however many events hit a generation, none
   is skipped, and none is left that was not shown. *)
ItemsInOrder ==
    [][manifest' = manifest /\ position' # position
        => position' = (position + 1) % MaxPosition /\ ready]_playbackVars

(* At most one object URL is alive, that of the generation on the screen: a
   player that runs for months does not lose memory to what came too late. *)
NoBlobLeaks == urls \subseteq {activeBlob} /\ (activeBlob # None => activeBlob = Generation)

(* A heartbeat names an asset only of the release that it reports. *)
ReportIsCoherent == report.asset # None => report.asset[1] = report.version

(* Whatever loads and media elements do, no item stays on the screen for ever:
   it is followed by another one, rolled back, or given up. *)
LeavesEveryItem ==
    \A g \in Generations :
        (Generation = g /\ Length(manifest) > 0) ~> Generation # g

(* The same, as long as there is another release to roll back to. *)
LeavesItemWithAlternative ==
    \A g \in Generations :
        (Generation = g /\ Length(manifest) > 0)
            ~> (Generation # g \/ slots.active = slots.previous)

=============================================================================
