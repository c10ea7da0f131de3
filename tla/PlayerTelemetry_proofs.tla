------------------------ MODULE PlayerTelemetry_proofs ------------------------
(***************************************************************************)
(* Proofs about what the player does while a release is on: the heartbeat  *)
(* timer, the items on the screen, and the watch on a signed deadline; for *)
(* any intervals, releases, lifetimes and corrections of the wall clock.   *)
(* And about the windows in which a schedule puts it on, for any zone with *)
(* at most one change of its clocks.                                       *)
(***************************************************************************)
EXTENDS HeartbeatScheduler, Playback, SignedDeadline, ScheduleWindow, TLAPS

-----------------------------------------------------------------------------
(* HeartbeatScheduler *)

SchedulerSpec == SchedulerInit /\ [][SchedulerNext]_schedulerVars

\* A timer is armed only while no request is under way, and not before the
\* cooldown has passed; a scheduler that never ran has none.
TimerAfterCooldown ==
    /\ timer <=> due # NoTimer
    /\ timer => request = "NO" /\ cooldown <= due
    /\ ~started => cooldown = 0 /\ request = "NO" /\ ~timer /\ ~immediate
    /\ immediate => request = "NO" /\ ~timer /\ cooldown = 0

NumbersOK ==
    /\ request \in {"NO", "SENDING", "REPORTING"}
    /\ delay \in Nat /\ failures \in 0 .. MaxFailures /\ cadence \in Cadences
    /\ cooldown \in Nat /\ due \in Nat \union {NoTimer}

SchedulerInv == NumbersOK /\ TimerAfterCooldown

LEMMA SchedulerNumbers ==
    /\ Cadences \subseteq Nat \ {0} /\ RetryAfters \subseteq Nat
    /\ MaxFailures \in Nat \ {0} /\ NoTimer \notin Nat
    /\ RetryMax \in Nat /\ RetryBase \in Nat
BY Zenon, SchedulerAssumption

LEMMA PullForwardArms ==
    ASSUME NEW wait \in Nat, NumbersOK, due \in Nat \union {NoTimer},
           PullForward(wait), timer <=> due # NoTimer, cooldown' \in Nat,
           timer => cooldown' <= due
    PROVE  timer' = TRUE /\ due' \in Nat /\ cooldown' <= due'
<1>1. DueAt(wait) \in Nat /\ cooldown' <= DueAt(wait)
  BY DEF DueAt, Larger
<1>2. NoTimer \notin Nat
  BY SchedulerNumbers
<1> QED BY <1>1, <1>2 DEF PullForward, ScheduleAt

LEMMA CatchUpArms ==
    ASSUME NumbersOK, CatchUp, timer <=> due # NoTimer, cooldown' \in Nat,
           cadence' \in Nat, timer => cooldown' <= due
    PROVE  timer' = TRUE /\ due' \in Nat /\ cooldown' <= due'
<1>1. PICK wait \in 0 .. cadence' : PullForward(wait)
  BY DEF CatchUp
<1>2. wait \in Nat /\ due \in Nat \union {NoTimer}
  BY DEF NumbersOK
<1> QED BY <1>1, <1>2, PullForwardArms

LEMMA BackoffIsNumber ==
    ASSUME NEW n \in 1 .. MaxFailures PROVE Backoff(n) \in Nat
<1>1. RetryMax \in Nat /\ RetryBase \in Nat /\ MaxFailures \in Nat
  BY SchedulerNumbers
<1>2. n - 1 \in 0 .. MaxFailures
  BY <1>1
<1>3. 2 ^ (n - 1) \in Nat
  BY Zenon, <1>2, SchedulerAssumption
<1> DEFINE power == 2 ^ (n - 1)
<1>4. power \in Nat
  BY <1>3
<1> HIDE DEF power
<1>5. RetryBase * power \in Nat
  BY <1>1, <1>4
<1>6. Smaller(RetryMax, RetryBase * power) \in Nat
  BY <1>1, <1>5 DEF Smaller
<1> QED BY <1>6 DEF Backoff, power

LEMMA InitScheduled == SchedulerInit => SchedulerInv
BY SchedulerNumbers DEF SchedulerInit, SchedulerInv, NumbersOK, TimerAfterCooldown

LEMMA SchedulerStep == SchedulerInv /\ [SchedulerNext]_schedulerVars => SchedulerInv'
<1> SUFFICES ASSUME SchedulerInv, [SchedulerNext]_schedulerVars PROVE SchedulerInv'
  OBVIOUS
<1> USE DEF SchedulerInv
<1>0. /\ Cadences \subseteq Nat /\ RetryAfters \subseteq Nat /\ MaxFailures \in Nat \ {0}
      /\ NoTimer \notin Nat
  BY SchedulerNumbers
<1>a. NumbersOK
  OBVIOUS
<1>1. ASSUME NEW active \in BOOLEAN, NEW now \in BOOLEAN, Start(active, now)
      PROVE  SchedulerInv'
  <2>1. CASE active /\ ~now
    <3>1. timer' = TRUE /\ due' \in Nat /\ cooldown' <= due'
      BY <1>0, <1>1, <1>a, <2>1, CatchUpArms DEF Start, TimerAfterCooldown
    <3> QED BY <1>0, <1>1, <2>1, <3>1 DEF Start, NumbersOK, TimerAfterCooldown
  <2>2. CASE ~(active /\ ~now)
    <3>1. UNCHANGED <<timer, due>>
      BY Zenon, <1>1, <2>2 DEF Start
    <3>2. /\ started' = TRUE /\ failures' = 0 /\ cooldown' = 0 /\ delay' = 0
          /\ cadence' \in Cadences /\ ~timer /\ due = NoTimer
      BY <1>1 DEF Start, TimerAfterCooldown
    <3>3. /\ request' \in {"SENDING", "NO"}
          /\ immediate' => request' = "NO"
      BY Zenon, <1>1 DEF Start
    <3> QED BY <1>0, <3>1, <3>2, <3>3 DEF NumbersOK, TimerAfterCooldown
  <2> QED BY <2>1, <2>2
<1>2. CASE Suspend
  BY <1>0, <1>2 DEF Suspend, ClearScheduledTimer, NumbersOK, TimerAfterCooldown
<1>3. CASE Resume
  <2>1. CASE UNCHANGED <<timer, due, cadence, cooldown>>
    <3>1. CASE immediate'
      BY <1>3, <2>1, <3>1 DEF Resume, NumbersOK, TimerAfterCooldown
    <3>2. CASE ~immediate'
      BY <1>3, <2>1, <3>2 DEF Resume, NumbersOK, TimerAfterCooldown
    <3> QED BY <3>1, <3>2
  <2>2. CASE /\ request = "NO" /\ (immediate => cooldown > 0) /\ CatchUp
             /\ UNCHANGED <<wakePending, cadence, cooldown, immediate, request>>
    <3>1. /\ started /\ request = "NO" /\ (immediate => cooldown > 0)
          /\ UNCHANGED <<started, delay, failures, cadence, cooldown, immediate, request>>
      BY <1>3, <2>2 DEF Resume
    <3>2. timer' = TRUE /\ due' \in Nat /\ cooldown' <= due'
      BY <1>0, <1>a, <2>2, <3>1, CatchUpArms DEF NumbersOK, TimerAfterCooldown
    <3>3. ~immediate'
      BY <3>1 DEF TimerAfterCooldown
    <3> QED BY <1>0, <3>1, <3>2, <3>3 DEF NumbersOK, TimerAfterCooldown
  <2> QED BY <1>3, <2>1, <2>2 DEF Resume
<1>4. CASE Stop
  BY <1>0, <1>4 DEF Stop, NumbersOK, TimerAfterCooldown
<1>5. CASE TimerFires
  BY <1>0, <1>5 DEF TimerFires, NumbersOK, TimerAfterCooldown
<1>6. CASE Succeed
  <2>1. ~timer /\ due = NoTimer /\ cadence' \in Nat /\ cooldown' = 0 /\ started /\ ~immediate
    BY <1>0, <1>6 DEF Succeed, TimerAfterCooldown
  <2>2. CASE suspended
    BY <1>0, <1>6, <2>1, <2>2 DEF Succeed, NumbersOK, TimerAfterCooldown
  <2>3. CASE ~suspended /\ wakePending
    <3>1. timer' = TRUE /\ due' \in Nat /\ cooldown' <= due'
      <4>1. CatchUp
        BY Zenon, <1>6, <2>3 DEF Succeed
      <4> QED BY <1>0, <1>a, <2>1, <4>1, CatchUpArms
    <3> QED BY <1>0, <1>6, <2>1, <2>3, <3>1 DEF Succeed, NumbersOK, TimerAfterCooldown
  <2>4. CASE ~suspended /\ ~wakePending
    <3>1. timer' = TRUE /\ due' = DueAt(delay') /\ delay' \in Nat
      BY <1>6, <2>1, <2>4 DEF Succeed, ScheduleAt
    <3>2. due' \in Nat /\ cooldown' <= due'
      BY <2>1, <3>1 DEF DueAt, Larger
    <3> QED BY <1>0, <1>6, <2>1, <2>4, <3>1, <3>2 DEF Succeed, NumbersOK, TimerAfterCooldown
  <2> QED BY <2>2, <2>3, <2>4
<1>7. CASE FailRequest
  <2>1. failures' \in 0 .. MaxFailures /\ delay' \in Nat
    <3>1. CASE failures' = 0 /\ delay' = cadence
      BY <1>0, <3>1 DEF NumbersOK
    <3>2. CASE /\ failures' = Smaller(failures + 1, MaxFailures)
               /\ delay' \in {Larger(floor, Backoff(failures')) : floor \in RetryAfters \union {0}}
      <4>1. failures' \in 1 .. MaxFailures
        BY <1>0, <3>2 DEF NumbersOK, Smaller
      <4>2. Backoff(failures') \in Nat
        BY <4>1, BackoffIsNumber
      <4> QED BY <1>0, <3>2, <4>1, <4>2 DEF Larger
    <3> QED BY <1>7, <3>1, <3>2 DEF FailRequest
  <2> QED BY <1>7, <2>1 DEF FailRequest, NumbersOK, TimerAfterCooldown
<1>8. CASE FailureReported
  <2>1. /\ ~timer /\ due = NoTimer /\ started /\ ~immediate
        /\ cadence' \in Nat /\ cooldown' \in Nat /\ delay \in Nat
    BY <1>0, <1>8 DEF FailureReported, NumbersOK, TimerAfterCooldown
  <2>2. CASE suspended
    BY <1>0, <1>8, <2>1, <2>2 DEF FailureReported, NumbersOK, TimerAfterCooldown
  <2>3. CASE ~suspended /\ wakePending
    <3>1. timer' = TRUE /\ due' \in Nat /\ cooldown' <= due'
      BY <1>8, <1>a, <2>1, <2>3, CatchUpArms DEF FailureReported
    <3> QED BY <1>0, <1>8, <2>1, <2>3, <3>1 DEF FailureReported, NumbersOK, TimerAfterCooldown
  <2>4. CASE ~suspended /\ ~wakePending
    <3>1. timer' = TRUE /\ due' = DueAt(delay)
      BY <1>8, <2>1, <2>4 DEF FailureReported, ScheduleAt
    <3>2. due' \in Nat /\ cooldown' <= due'
      BY <2>1, <3>1 DEF DueAt, Larger
    <3> QED BY <1>0, <1>8, <2>1, <2>4, <3>1, <3>2
               DEF FailureReported, NumbersOK, TimerAfterCooldown
  <2> QED BY <2>2, <2>3, <2>4
<1>9. CASE Tick
  BY <1>0, <1>9 DEF Tick, Earlier, NumbersOK, TimerAfterCooldown
<1>10. CASE UNCHANGED schedulerVars
  BY <1>10 DEF schedulerVars, NumbersOK, TimerAfterCooldown
<1> QED BY <1>1, <1>2, <1>3, <1>4, <1>5, <1>6, <1>7, <1>8, <1>9, <1>10 DEF SchedulerNext

\* However often it is woken, and whatever fails, the player starts no request
\* before its backoff, or the time the server asked for, is over.
THEOREM CooldownAlwaysKept == SchedulerSpec => CooldownIsKept
<1>1. SchedulerInv /\ [SchedulerNext]_schedulerVars
         => [request = "NO" /\ request' # "NO" => cooldown = 0]_schedulerVars
  <2> SUFFICES ASSUME SchedulerInv, SchedulerNext, request = "NO", request' # "NO"
               PROVE  cooldown = 0
    OBVIOUS
  <2>1. cooldown \in Nat
    BY DEF SchedulerInv, NumbersOK
  <2>2. ASSUME NEW active \in BOOLEAN, NEW now \in BOOLEAN, Start(active, now)
        PROVE  cooldown = 0
    BY <2>2 DEF Start, SchedulerInv, TimerAfterCooldown
  <2>3. CASE Resume
    BY <2>3 DEF Resume
  <2>4. CASE TimerFires
    BY <2>1, <2>4 DEF TimerFires, SchedulerInv, TimerAfterCooldown
  <2> QED BY <2>2, <2>3, <2>4 DEF SchedulerNext, Suspend, Stop, Succeed, FailRequest,
             FailureReported, Tick
<1> QED BY <1>1, InitScheduled, SchedulerStep, PTL DEF SchedulerSpec, CooldownIsKept

\* What no order of events undoes: an awake scheduler has an armed timer, or a
\* request under way.
TimerOrRequest == started /\ ~suspended => timer \/ request # "NO"

\* A wake-up, or whatever else, moves an armed timer forward only.
NeverPostponed == [][timer /\ timer' => due' <= due]_schedulerVars

LEMMA CatchUpForward ==
    ASSUME SchedulerInv, CatchUp, timer, cooldown' \in Nat, cadence' \in Nat,
           cooldown' <= due
    PROVE  due' <= due
<1>1. PICK wait \in 0 .. cadence' : PullForward(wait)
  BY DEF CatchUp
<1>2. DueAt(wait) \in Nat /\ due \in Nat /\ due # NoTimer
  BY DEF DueAt, Larger, SchedulerInv, NumbersOK, TimerAfterCooldown
<1>3. due' = due \/ (due > DueAt(wait) /\ due' = DueAt(wait))
  BY <1>1, <1>2 DEF PullForward, ScheduleAt
<1> QED BY <1>2, <1>3

LEMMA TimerOrRequestStep ==
    SchedulerInv /\ TimerOrRequest /\ [SchedulerNext]_schedulerVars => TimerOrRequest'
<1> SUFFICES ASSUME SchedulerInv, TimerOrRequest, [SchedulerNext]_schedulerVars,
                    started', ~suspended'
             PROVE  timer' \/ request' # "NO"
  BY DEF TimerOrRequest
<1>0. Cadences \subseteq Nat /\ NumbersOK /\ cooldown \in Nat
      /\ (timer <=> due # NoTimer) /\ (timer => cooldown <= due)
  BY SchedulerNumbers DEF SchedulerInv, NumbersOK, TimerAfterCooldown
<1>1. ASSUME NEW active \in BOOLEAN, NEW now \in BOOLEAN, Start(active, now)
      PROVE  timer' \/ request' # "NO"
  <2>1. CASE now
    BY <1>1, <2>1 DEF Start
  <2>2. CASE ~now
    <3>1. CatchUp /\ ~timer /\ cooldown' \in Nat /\ cadence' \in Nat
      BY <1>0, <1>1, <2>2 DEF Start, SchedulerInv, TimerAfterCooldown
    <3> QED BY <1>0, <3>1, CatchUpArms
  <2> QED BY <2>1, <2>2
<1>2. CASE Resume
  <2>1. CASE request' # "NO"
    BY <2>1
  <2>2. CASE request' = "NO"
    <3>1. /\ immediate => cooldown > 0
          /\ request = "NO" /\ CatchUp /\ UNCHANGED <<cadence, cooldown>>
      BY <1>2, <2>2 DEF Resume
    <3> QED BY <1>0, <3>1, CatchUpArms DEF NumbersOK
  <2> QED BY <2>1, <2>2
<1>3. CASE TimerFires
  BY <1>3 DEF TimerFires, SchedulerInv, TimerAfterCooldown
<1>4. CASE Succeed
  <2>1. ~timer /\ cadence' \in Nat /\ cooldown' = 0
    BY <1>0, <1>4 DEF Succeed, SchedulerInv, TimerAfterCooldown
  <2>2. CatchUp \/ timer' = TRUE
    BY <1>4 DEF Succeed, ScheduleAt
  <2> QED BY <1>0, <2>1, <2>2, CatchUpArms
<1>5. CASE FailureReported
  <2>1. ~timer /\ cadence' \in Nat /\ cooldown' = cooldown
    BY <1>0, <1>5 DEF FailureReported, SchedulerInv, TimerAfterCooldown, NumbersOK
  <2>2. CatchUp \/ timer' = TRUE
    BY <1>5 DEF FailureReported, ScheduleAt
  <2> QED BY <1>0, <2>1, <2>2, CatchUpArms
<1>6. CASE Suspend \/ Stop \/ FailRequest \/ Tick \/ UNCHANGED schedulerVars
  BY <1>6 DEF Suspend, Stop, FailRequest, Tick, schedulerVars, TimerOrRequest
<1> QED BY <1>1, <1>2, <1>3, <1>4, <1>5, <1>6 DEF SchedulerNext

\* While the player is online and visible there is always a timer that will send
\* the next heartbeat, or a request that will settle: no order of suspensions,
\* wake-ups and failures loses both (trigger, suspend, resume and run).
THEOREM HeartbeatAlwaysDue == SchedulerSpec => []TimerOrRequest
<1>1. SchedulerInit => TimerOrRequest
  BY DEF SchedulerInit, TimerOrRequest
<1> QED BY <1>1, InitScheduled, SchedulerStep, TimerOrRequestStep, PTL DEF SchedulerSpec

\* No burst of events postpones the next heartbeat: as long as a timer is armed,
\* what is left of it never grows (scheduleCatchUp).
THEOREM HeartbeatsNeverPostponed == SchedulerSpec => NeverPostponed
<1>1. SchedulerInv /\ [SchedulerNext]_schedulerVars
         => [timer /\ timer' => due' <= due]_schedulerVars
  <2> SUFFICES ASSUME SchedulerInv, SchedulerNext, timer, timer' PROVE due' <= due
    OBVIOUS
  <2>1. /\ due \in Nat /\ NoTimer \notin Nat /\ cooldown \in Nat /\ cooldown <= due
        /\ started /\ request = "NO" /\ cadence \in Nat
    BY SchedulerNumbers DEF SchedulerInv, NumbersOK, TimerAfterCooldown
  <2>2. CASE Resume
    <3>1. UNCHANGED <<cadence, cooldown>> /\ (CatchUp \/ UNCHANGED due)
      BY <2>2 DEF Resume
    <3> QED BY <2>1, <3>1, CatchUpForward
  <2>3. CASE Tick
    BY <2>1, <2>3 DEF Tick, Earlier
  <2>4. CASE FailRequest
    BY <2>1, <2>4 DEF FailRequest
  <2> QED BY <2>1, <2>2, <2>3, <2>4 DEF SchedulerNext, Start, Suspend, ClearScheduledTimer,
             Stop, TimerFires, Succeed, FailureReported
<1> QED BY <1>1, InitScheduled, SchedulerStep, PTL DEF SchedulerSpec, NeverPostponed

-----------------------------------------------------------------------------
(* Playback *)

PlaybackSpec == PlaybackInit /\ [][PlaybackNext]_playbackVars

\* What the item on the screen has of the refs: a position that is asked for is
\* the next one of an item that was shown, a load that is not late has a
\* release, and the only object URL alive is that of the rendered generation.
PlaybackInv ==
    /\ manifest \in Versions \union {None} /\ position \in Positions /\ next \in Positions
    /\ loads \subseteq Load
    /\ (\E l \in loads : ~l.cancelled) => manifest # None
    /\ next # position => settled /\ ready /\ next = (position + 1) % MaxPosition
    /\ urls \subseteq Generations
    /\ NoBlobLeaks

\* A slot holds a version or nothing.
SlotsShaped ==
    slots \in [active : Versions \union {None}, previous : Versions \union {None}]

ReportShaped ==
    /\ report = [step |-> report.step, version |-> report.version, asset |-> report.asset]
    /\ ReportIsCoherent

LEMMA PlaybackBounds == MaxPosition \in Nat \ {0} /\ 0 \in Positions /\ None \notin Versions
BY PlaybackAssumption DEF Positions

LEMMA PositionFollows == ASSUME NEW p \in Positions PROVE (p + 1) % MaxPosition \in Positions
BY PlaybackBounds DEF Positions

LEMMA LoadTypes ==
    /\ NewLoad \in Load /\ ~NewLoad.cancelled
    /\ [NewLoad EXCEPT !.cancelled = TRUE] \in Load
    /\ [NewLoad EXCEPT !.cancelled = TRUE].cancelled
BY DEF NewLoad, Load

LEMMA AllCancelled ==
    Cancelled \subseteq Load /\ \A l \in Cancelled : l.cancelled
BY LoadTypes DEF Cancelled

\* Revoking leaves no object URL behind.
LEMMA Revoked ==
    ASSUME PlaybackInv, Revoke PROVE urls' = {} /\ activeBlob' = None
BY DEF PlaybackInv, NoBlobLeaks, Revoke

LEMMA InitPlays == PlaybackInit => PlaybackInv /\ SlotsShaped /\ ReportShaped
BY PlaybackBounds DEF PlaybackInit, PlaybackInv, SlotsShaped, ReportShaped, NoBlobLeaks, ReportIsCoherent, NoReport

\* Another item on the screen: nothing of the old one stays.
LEMMA NewGeneration ==
    ASSUME PlaybackInv, Revoke, manifest' \in Versions \union {None},
           position' \in Positions, next' = position', loads' \subseteq Load,
           (\E l \in loads' : ~l.cancelled) => manifest' # None
    PROVE  PlaybackInv'
BY Revoked DEF PlaybackInv, NoBlobLeaks

LEMMA MountPlays ==
    ASSUME PlaybackInv, NEW v \in Versions \union {None}, Mount(v) PROVE PlaybackInv'
<1>1. CASE v = manifest
  BY <1>1 DEF Mount, PlaybackInv, NoBlobLeaks, Generation
<1>2. CASE v # manifest
  <2> DEFINE new == IF Length(v) > 0 THEN {NewLoad} ELSE {}
  <2>1. /\ manifest' = v /\ position' = 0 /\ next' = 0 /\ Revoke
        /\ loads' = Cancelled \union new
    BY <1>2 DEF Mount
  <2>2. new \subseteq Load /\ (v = None => new = {})
    BY LoadTypes DEF Length
  <2>3. loads' \subseteq Load
    BY <2>1, <2>2, AllCancelled
  <2>4. /\ manifest' \in Versions \union {None} /\ position' \in Positions
        /\ next' = position'
    BY <2>1, PlaybackBounds
  <2>5. (\E l \in loads' : ~l.cancelled) => manifest' # None
    BY <2>1, <2>2, AllCancelled
  <2> QED BY <2>1, <2>3, <2>4, <2>5, NewGeneration
<1> QED BY <1>1, <1>2

LEMMA FailPlays ==
    ASSUME PlaybackInv, Fail, UNCHANGED <<manifest, position, next, ready>>,
           loads' \subseteq loads
    PROVE  PlaybackInv'
<1>1. urls' = {} /\ activeBlob' = None /\ settled' = TRUE
  BY Revoked DEF Fail
<1>2. loads' \subseteq Load /\ ((\E l \in loads' : ~l.cancelled) => manifest' # None)
  BY DEF PlaybackInv
<1> QED BY <1>1, <1>2 DEF PlaybackInv, NoBlobLeaks

LEMMA AdvancePlays ==
    ASSUME PlaybackInv, Advance, ready PROVE PlaybackInv'
<1>1. urls' = {} /\ activeBlob' = None /\ settled' = TRUE
  BY Revoked DEF Advance
<1>2. next = position /\ next' = (position + 1) % MaxPosition /\ next' \in Positions
  BY PositionFollows DEF Advance, MayAdvance, Unsettled, PlaybackInv
<1>3. UNCHANGED <<manifest, position, loads, ready>>
  BY DEF Advance
<1> QED BY <1>1, <1>2, <1>3 DEF PlaybackInv, NoBlobLeaks

LEMMA LoadPlays ==
    ASSUME PlaybackInv, NEW l \in loads, LoadFails(l) \/ Resolved(l) \/ TemplateFetched(l)
    PROVE  PlaybackInv'
<1>1. CASE LoadFails(l)
  <2>1. loads' \subseteq loads /\ UNCHANGED <<manifest, position, next, ready>>
    BY <1>1 DEF LoadFails
  <2>2. CASE Late(l)
    BY <1>1, <2>1, <2>2 DEF LoadFails, PlaybackInv, NoBlobLeaks, Generation
  <2>3. CASE ~Late(l)
    BY <1>1, <2>1, <2>3, FailPlays DEF LoadFails
  <2> QED BY <2>2, <2>3
<1>2. CASE Resolved(l)
  <2>1. UNCHANGED <<manifest, position, next, ready, settled>>
    BY <1>2 DEF Resolved
  <2>2. CASE Late(l)
    BY <1>2, <2>1, <2>2 DEF Resolved, PlaybackInv, NoBlobLeaks, Generation
  <2>3. CASE ~Late(l)
    <3>1. manifest # None /\ Generation \in Generations
      BY <2>3 DEF Late, PlaybackInv, Generation, Generations
    <3>2. \/ urls' = urls \union {Generation} /\ activeBlob' = Generation
          \/ UNCHANGED <<urls, activeBlob>>
      BY <1>2, <2>3 DEF Resolved
    <3>3. loads' \subseteq Load
      <4>1. [l EXCEPT !.stage = "FETCHING"] \in Load
        BY DEF PlaybackInv, Load
      <4> QED BY <1>2, <2>3, <4>1 DEF Resolved, PlaybackInv
    <3>4. urls' \subseteq Generations /\ NoBlobLeaks'
      <4>1. urls \subseteq {Generation}
        BY <3>1, PlaybackNoneAssumption DEF PlaybackInv, NoBlobLeaks
      <4> QED BY <2>1, <3>1, <3>2, <4>1 DEF PlaybackInv, NoBlobLeaks, Generation
    <3> QED BY <2>1, <3>1, <3>3, <3>4 DEF PlaybackInv
  <2> QED BY <2>2, <2>3
<1>3. CASE TemplateFetched(l)
  <2>1. /\ UNCHANGED <<manifest, position, next, settled, urls, activeBlob>>
        /\ loads' \subseteq loads /\ (ready => ready')
    BY <1>3 DEF TemplateFetched, MarkReady
  <2> QED BY <2>1 DEF PlaybackInv, NoBlobLeaks, Generation
<1> QED BY <1>1, <1>2, <1>3

LEMMA RolledBackSlots ==
    ASSUME SlotsShaped, NEW v
    PROVE  RolledBack(v) \in [active : Versions \union {None}, previous : Versions \union {None}]
BY DEF SlotsShaped, RolledBack

LEMMA PlaybackStep ==
    PlaybackInv /\ SlotsShaped /\ [PlaybackNext]_playbackVars => PlaybackInv' /\ SlotsShaped'
<1> SUFFICES ASSUME PlaybackInv, SlotsShaped, [PlaybackNext]_playbackVars
             PROVE  PlaybackInv' /\ SlotsShaped'
  OBVIOUS
<1>s. SlotsShaped'
  <2>1. ASSUME NEW v \in Versions, Sync(v) PROVE SlotsShaped'
    BY <2>1 DEF Sync, SlotsShaped
  <2>2. ASSUME NEW v \in Versions, RollbackDone(v) PROVE SlotsShaped'
    <3>1. slots' = RolledBack(v)
      BY <2>2 DEF RollbackDone
    <3> QED BY <3>1, RolledBackSlots DEF SlotsShaped
  <2>3. CASE UNCHANGED slots
    BY <2>3 DEF SlotsShaped
  <2> QED BY <2>1, <2>2, <2>3 DEF PlaybackNext, playbackVars, Render, LoadFails,
         Resolved, TemplateFetched, MediaReady, VideoEnded, MediaError, DurationOver,
         ReadinessTimeout, Advance, CollectReport, SendReport
<1> SUFFICES PlaybackInv'
  BY <1>s
<1>1. ASSUME NEW v \in Versions, Sync(v) \/ RollbackDone(v) PROVE PlaybackInv'
  <2>1. CASE Sync(v)
    BY <2>1, MountPlays DEF Sync
  <2>2. CASE RollbackDone(v)
    <3>1. PICK result \in {RolledBack(v).active, None} : Mount(result)
      BY <2>2 DEF RollbackDone
    <3>2. result \in Versions \union {None}
      BY RolledBackSlots
    <3> QED BY <3>1, <3>2, MountPlays
  <2> QED BY <1>1, <2>1, <2>2
<1>2. CASE Render
  <2>1. /\ manifest' = manifest /\ manifest # None /\ position' = next /\ next' = next
        /\ Revoke /\ loads' = Cancelled \union {NewLoad}
    BY <1>2 DEF Render
  <2>2. loads' \subseteq Load
    BY <2>1, AllCancelled, LoadTypes
  <2> QED BY <2>1, <2>2, NewGeneration DEF PlaybackInv
<1>3. ASSUME NEW l \in loads, LoadFails(l) \/ Resolved(l) \/ TemplateFetched(l)
      PROVE  PlaybackInv'
  BY <1>3, LoadPlays
<1>4. CASE MediaReady
  BY <1>4 DEF MediaReady, MarkReady, PlaybackInv, NoBlobLeaks, Generation
<1>5. CASE VideoEnded \/ DurationOver
  BY <1>5, AdvancePlays DEF VideoEnded, DurationOver
<1>6. CASE MediaError
  BY <1>6, FailPlays DEF MediaError
<1>7. CASE ReadinessTimeout
  BY <1>7, FailPlays DEF ReadinessTimeout
<1>8. CASE CollectReport \/ SendReport \/ UNCHANGED playbackVars
  BY <1>8 DEF CollectReport, SendReport, playbackVars, PlaybackInv, NoBlobLeaks, Generation
<1> QED BY <1>1, <1>2, <1>3, <1>4, <1>5, <1>6, <1>7, <1>8 DEF PlaybackNext

LEMMA ReportStep == ReportShaped /\ [PlaybackNext]_playbackVars => ReportShaped'
<1> SUFFICES ASSUME ReportShaped, [PlaybackNext]_playbackVars PROVE ReportShaped'
  OBVIOUS
<1>1. CASE CollectReport
  BY <1>1 DEF CollectReport, ReportShaped, ReportIsCoherent
<1>2. CASE SendReport
  <2> DEFINE asset == IF report.version = None THEN None ELSE Reported(report.version)
  <2>1. report' = [step |-> "SENT", version |-> report.version, asset |-> asset]
    BY <1>2 DEF SendReport, ReportShaped
  <2>2. asset # None => asset[1] = report.version
    BY DEF Reported
  <2> HIDE DEF asset
  <2> QED BY <2>1, <2>2 DEF ReportShaped, ReportIsCoherent
<1>3. CASE UNCHANGED report
  BY <1>3 DEF ReportShaped, ReportIsCoherent
<1> QED BY <1>1, <1>2, <1>3 DEF PlaybackNext, playbackVars, Sync, RollbackDone, Render, LoadFails,
       Resolved, TemplateFetched, MediaReady, VideoEnded, MediaError, DurationOver,
       ReadinessTimeout, Advance

\* Whatever comes late, the only object URL alive is the one on the screen.
THEOREM NeverLeaksBlobs == PlaybackSpec => []NoBlobLeaks
<1>1. PlaybackInv => NoBlobLeaks
  BY DEF PlaybackInv
<1> QED BY <1>1, InitPlays, PlaybackStep, PTL DEF PlaybackSpec

\* A heartbeat names an asset only of the release that it reports.
THEOREM ReportsAlwaysCoherent == PlaybackSpec => []ReportIsCoherent
<1>1. ReportShaped => ReportIsCoherent
  BY DEF ReportShaped
<1> QED BY <1>1, InitPlays, ReportStep, PTL DEF PlaybackSpec

\* However many events hit an item, the next one follows it, once it was shown.
THEOREM ItemsAlwaysInOrder == PlaybackSpec => ItemsInOrder
<1>1. PlaybackInv /\ [PlaybackNext]_playbackVars =>
        [manifest' = manifest /\ position' # position
            => position' = (position + 1) % MaxPosition /\ ready]_playbackVars
  <2> SUFFICES ASSUME PlaybackInv, PlaybackNext, manifest' = manifest, position' # position
               PROVE  position' = (position + 1) % MaxPosition /\ ready
    OBVIOUS
  <2>1. CASE Render
    BY <2>1 DEF Render, PlaybackInv
  <2>2. CASE UNCHANGED position
    BY <2>2
  <2>3. ASSUME NEW v, Mount(v) PROVE UNCHANGED position
    BY <2>3 DEF Mount
  <2> QED BY <2>1, <2>2, <2>3 DEF PlaybackNext, Sync, RollbackDone, LoadFails, Resolved,
         TemplateFetched, MediaReady, VideoEnded, MediaError, DurationOver,
         ReadinessTimeout, CollectReport, SendReport, Advance
<1> QED BY <1>1, InitPlays, PlaybackStep, PTL DEF PlaybackSpec, ItemsInOrder

\* Every item has a way off the screen: its readiness timer or its duration
\* runs, the next position is rendered, the release is rolled back, or (finding
\* 4) it was rolled back to itself.
ItemHasWayOff ==
    manifest # None =>
        \/ ~settled /\ Length(manifest) > 0
        \/ next # position
        \/ manifest \in recovering
        \/ slots.active = slots.previous

\* The release on the screen is the stored one.
ShownIsActive == manifest # None => slots.active = manifest

\* What is loaded, shown or followed is an item.
OnlyItemsShow ==
    source \/ ready \/ next # position \/ (\E l \in loads : ~l.cancelled)
        => Length(manifest) > 0

WayOffInv == ShownIsActive /\ ItemHasWayOff

LEMMA OnlyItemsStep == OnlyItemsShow /\ [PlaybackNext]_playbackVars => OnlyItemsShow'
<1> SUFFICES ASSUME OnlyItemsShow, [PlaybackNext]_playbackVars PROVE OnlyItemsShow'
  OBVIOUS
<1> USE DEF OnlyItemsShow, Length
<1>1. ASSUME NEW v, Mount(v) PROVE OnlyItemsShow'
  <2>1. CASE v = manifest
    BY <1>1, <2>1 DEF Mount
  <2>2. CASE v # manifest
    <3>1. /\ manifest' = v /\ ~source' /\ ~ready' /\ next' = position'
          /\ loads' = Cancelled \union (IF Length(v) > 0 THEN {NewLoad} ELSE {})
      BY <1>1, <2>2 DEF Mount
    <3> QED BY <3>1, AllCancelled
  <2> QED BY <2>1, <2>2
<1>2. CASE Render
  BY <1>2 DEF Render
<1>3. ASSUME NEW l \in loads, LoadFails(l) \/ Resolved(l) \/ TemplateFetched(l)
      PROVE  OnlyItemsShow'
  <2>1. UNCHANGED <<manifest, position, next>>
    BY <1>3 DEF LoadFails, Resolved, TemplateFetched
  <2>2. CASE Late(l)
    <3>1. loads' \subseteq loads /\ (source' => source) /\ (ready' => ready)
      BY <1>3, <2>2 DEF LoadFails, Resolved, TemplateFetched
    <3> QED BY <2>1, <3>1
  <2>3. CASE ~Late(l)
    BY <2>1, <2>3 DEF Late
  <2> QED BY <2>2, <2>3
<1>4. CASE Advance /\ ready
  BY <1>4 DEF Advance
<1>5. CASE Element(Media) /\ UNCHANGED <<manifest, position, next, loads>>
  BY <1>5 DEF Element
<1>6. CASE ReadinessTimeout \/ UNCHANGED <<manifest, position, next, loads, source, ready>>
  BY <1>6 DEF ReadinessTimeout, Fail
<1> QED BY <1>1, <1>2, <1>3, <1>4, <1>5, <1>6 DEF PlaybackNext, playbackVars, Sync, RollbackDone,
       MediaReady, VideoEnded, MediaError, DurationOver, CollectReport, SendReport

LEMMA NextPositionIsNew ==
    ASSUME NEW p \in Positions PROVE (p + 1) % MaxPosition # p
<1>1. PICK n \in Nat \ {0, 1} : n = MaxPosition
  BY PlaybackAssumption
<1>2. p \in 0 .. n - 1
  BY <1>1 DEF Positions
<1>3. CASE p + 1 = n
  BY <1>1, <1>2, <1>3
<1>4. CASE p + 1 < n
  BY <1>1, <1>2, <1>4
<1> QED BY <1>1, <1>2, <1>3, <1>4

LEMMA EmptyIsUnavailable ==
    ASSUME NEW v \in Versions PROVE Length(v) > 0 \/ Unavailable(v) = {v}
<1>1. Len(Kinds[v]) \in Nat
  BY PlaybackAssumption
<1> QED BY <1>1, PlaybackAssumption DEF Length, Unavailable

\* A release that was mounted begins an item, fails at once, or was there.
LEMMA MountHasWayOff ==
    ASSUME WayOffInv, NEW v \in Versions, Mount(v), slots'.active = v,
           v = manifest => \/ slots' = slots
                           \/ slots'.active = slots'.previous,
           v = manifest /\ v \in recovering => v \in recovering',
           Unavailable(v) \subseteq recovering'
    PROVE  WayOffInv'
<1>1. manifest' = v
  BY DEF Mount
<1>2. CASE v = manifest
  <2>1. UNCHANGED <<position, next, settled>>
    BY <1>2 DEF Mount
  <2> QED BY <1>1, <1>2, <2>1 DEF WayOffInv, ShownIsActive, ItemHasWayOff, Length
<1>3. CASE v # manifest
  <2>1. ~settled'
    BY <1>3 DEF Mount
  <2> QED BY <1>1, <2>1, EmptyIsUnavailable DEF WayOffInv, ShownIsActive, ItemHasWayOff, Length
<1> QED BY <1>2, <1>3

LEMMA RollbackHasWayOff ==
    ASSUME WayOffInv, SlotsShaped, NEW v \in Versions, RollbackDone(v) PROVE WayOffInv'
<1>1. PICK result \in {RolledBack(v).active, None} :
          Mount(result) /\ recovering' = (recovering \ {v}) \union Unavailable(result)
  BY DEF RollbackDone
<1>2. slots' = RolledBack(v)
  BY DEF RollbackDone
<1>3. CASE result = None
  BY <1>1, <1>3 DEF Mount, WayOffInv, ShownIsActive, ItemHasWayOff
<1>4. CASE result # None
  <2>1. result = slots'.active /\ result \in Versions
    BY <1>1, <1>2, <1>4, RolledBackSlots
  <2>2. CASE slots.active = v
    <3>1. slots'.active = slots'.previous
      BY <1>2, <1>4, <2>1, <2>2 DEF RolledBack, SlotsShaped
    <3>2. manifest' = result
      BY <1>1 DEF Mount
    <3> QED BY <2>1, <3>1, <3>2 DEF WayOffInv, ShownIsActive, ItemHasWayOff
  <2>3. CASE slots.active # v
    <3>1. slots' = slots
      BY <1>2, <2>3 DEF RolledBack
    <3>2. result # v
      BY <2>1, <2>3, <3>1
    <3> QED BY <1>1, <2>1, <3>1, <3>2, MountHasWayOff
  <2> QED BY <2>2, <2>3
<1> QED BY <1>3, <1>4

LEMMA WayOffStep ==
    WayOffInv /\ OnlyItemsShow /\ PlaybackInv /\ SlotsShaped /\ [PlaybackNext]_playbackVars => WayOffInv'
<1> SUFFICES ASSUME WayOffInv, OnlyItemsShow, PlaybackInv, SlotsShaped, [PlaybackNext]_playbackVars
             PROVE  WayOffInv'
  OBVIOUS
<1>1. ASSUME NEW v \in Versions, Sync(v) PROVE WayOffInv'
  <2>1. /\ Mount(v) /\ recovering' = recovering \union Unavailable(v)
        /\ slots'.active = v
        /\ slots.active = v => slots'.previous = slots.previous
        /\ slots' = [active |-> slots'.active, previous |-> slots'.previous]
    BY <1>1 DEF Sync
  <2>2. v = manifest => slots.active = v
    BY PlaybackBounds DEF WayOffInv, ShownIsActive
  <2>3. v = manifest => slots' = slots
    BY <2>1, <2>2 DEF SlotsShaped
  <2> QED BY <2>1, <2>3, MountHasWayOff
<1>2. ASSUME NEW v \in Versions, RollbackDone(v) PROVE WayOffInv'
  BY <1>2, RollbackHasWayOff
<1>3. CASE Render
  <2>1. UNCHANGED <<slots, manifest, recovering>> /\ ~settled' /\ manifest # None
    BY <1>3 DEF Render
  <2>2. Length(manifest) > 0
    BY <1>3 DEF Render, OnlyItemsShow
  <2> QED BY <2>1, <2>2 DEF WayOffInv, ShownIsActive, ItemHasWayOff, Length
<1>4. CASE Fail /\ UNCHANGED <<slots, manifest, position, next>>
  BY <1>4 DEF Fail, WayOffInv, ShownIsActive, ItemHasWayOff
<1>5. CASE Advance
  <2>1. next = position /\ position \in Positions
    BY <1>5 DEF Advance, MayAdvance, Unsettled, PlaybackInv
  <2>2. position' = position /\ next' = (position + 1) % MaxPosition
    BY <1>5, <2>1 DEF Advance
  <2>3. (position + 1) % MaxPosition # position
    BY <2>1, NextPositionIsNew
  <2> QED BY <1>5, <2>2, <2>3 DEF Advance, WayOffInv, ShownIsActive, ItemHasWayOff
<1>6. CASE UNCHANGED <<slots, manifest, position, next, settled, recovering>>
  BY <1>6 DEF WayOffInv, ShownIsActive, ItemHasWayOff, Length
<1>7. ASSUME NEW l \in loads, LoadFails(l) \/ Resolved(l) \/ TemplateFetched(l)
      PROVE  WayOffInv'
  BY <1>4, <1>6, <1>7 DEF LoadFails, Resolved, TemplateFetched
<1> QED BY <1>1, <1>2, <1>3, <1>4, <1>5, <1>6, <1>7 DEF PlaybackNext, playbackVars,
       MediaReady, VideoEnded, MediaError, DurationOver, ReadinessTimeout,
       CollectReport, SendReport

\* Whatever loads, media elements, synchronizations and rollbacks do, in any
\* order: an item on the screen has a timer that ends it or a successor, or its
\* release is rolled back, unless both slots hold it (advance, fail, the
\* readiness and duration timers, recoverRelease).
THEOREM ItemAlwaysHasWayOff == PlaybackSpec => []ItemHasWayOff
<1>1. PlaybackInit => WayOffInv /\ OnlyItemsShow
  BY DEF PlaybackInit, WayOffInv, ShownIsActive, ItemHasWayOff, OnlyItemsShow
<1>2. WayOffInv => ItemHasWayOff
  BY DEF WayOffInv
<1> QED BY <1>1, <1>2, InitPlays, PlaybackStep, OnlyItemsStep, WayOffStep, PTL DEF PlaybackSpec

-----------------------------------------------------------------------------
(* SignedDeadline *)

DeadlineSpec == DeadlineInit /\ [][DeadlineNext]_deadlineVars

DeadlineTypes ==
    /\ watch \in {"WATCHING", "ELAPSED", "CANCELLED"}
    /\ initial \in Nat /\ remaining \in Int
    /\ wallTimer \in Nat /\ failTimer \in Nat /\ failSafe \in Nat
    /\ age \in Nat /\ late \in Nat /\ jumps \in Nat

\* The countdown has used up of the lifetime just what has gone by.
CountdownIsExact ==
    /\ failTimer <= Least(failSafe, Chunk)
    /\ age + failSafe = initial + Least(failSafe, Chunk) - failTimer

\* The next look at the wall clock comes in time.
PollIsNear ==
    /\ remaining > 0 => late = 0
    /\ late + wallTimer <= Poll

DeadlineInv ==
    DeadlineTypes /\ (watch = "WATCHING" => CountdownIsExact /\ PollIsNear)

LEMMA InitDeadline == DeadlineInit => DeadlineInv
<1> SUFFICES ASSUME DeadlineInit PROVE DeadlineInv
  OBVIOUS
<1>1. PICK r \in -1 .. MaxRemaining :
        /\ remaining = r
        /\ initial = IF r > 0 THEN r ELSE 0
        /\ watch = IF r <= 0 THEN "ELAPSED" ELSE "WATCHING"
        /\ wallTimer = IF r <= 0 THEN 0 ELSE Least(r, Poll)
  BY DEF DeadlineInit
<1>2. r \in Int
  BY DeadlineAssumption
<1>3. failSafe = initial /\ failTimer = Least(initial, Chunk) /\ age = 0 /\ late = 0
      /\ jumps = 0
  BY DEF DeadlineInit
<1> QED BY <1>1, <1>2, <1>3, DeadlineAssumption
        DEF DeadlineInv, DeadlineTypes, CountdownIsExact, PollIsNear, Least

LEMMA WithinPoll ==
    ASSUME NEW l \in Nat, NEW w \in Nat, l = 0, w <= Poll PROVE l + w <= Poll
BY DeadlineAssumption

LEMMA DeadlineStep == DeadlineInv /\ [DeadlineNext]_deadlineVars => DeadlineInv'
<1> SUFFICES ASSUME DeadlineInv, [DeadlineNext]_deadlineVars PROVE DeadlineInv'
  OBVIOUS
<1> USE DeadlineAssumption
<1> USE DEF DeadlineInv, DeadlineTypes
<1>1. CASE WallTimer \/ LifecycleEvent
  <2>1. /\ watch = "WATCHING" /\ CheckWallClock
        /\ UNCHANGED <<initial, remaining, failSafe, failTimer, age, late, jumps>>
    BY <1>1 DEF WallTimer, LifecycleEvent
  <2>2. CASE remaining <= 0
    BY <2>1, <2>2 DEF CheckWallClock
  <2>3. CASE remaining > 0
    <3>1. watch' = "WATCHING" /\ wallTimer' = Least(remaining, Poll)
      BY <2>1, <2>3 DEF CheckWallClock
    <3>2. wallTimer' \in Nat /\ wallTimer' <= Poll
      BY <2>3, <3>1 DEF Least
    <3>3. PollIsNear'
      <4>1. late = 0
        BY <2>1, <2>3 DEF PollIsNear
      <4>2. late' = 0 /\ remaining' = remaining
        BY <2>1, <4>1
      <4>3. wallTimer' \in Nat /\ wallTimer' <= Poll /\ late' \in Nat /\ late' = 0
        BY <3>2, <4>2
      <4>4. late' + wallTimer' <= Poll
        BY <4>3, WithinPoll
      <4> QED BY <4>2, <4>3, <4>4 DEF PollIsNear
    <3>4. CountdownIsExact'
      BY <2>1 DEF CountdownIsExact, Least
    <3> QED BY <2>1, <3>1, <3>2, <3>3, <3>4
  <2> QED BY <2>2, <2>3
<1>2. CASE FailSafeTimer
  <2>1. /\ watch = "WATCHING" /\ failTimer = 0 /\ failSafe' = Countdown
        /\ UNCHANGED <<initial, remaining, wallTimer, age, late, jumps>>
    BY <1>2 DEF FailSafeTimer
  <2>2. failSafe' \in Nat
    BY <2>1 DEF Countdown, Least
  <2>3. CASE failSafe' <= 0
    BY <1>2, <2>1, <2>2, <2>3 DEF FailSafeTimer
  <2>4. CASE failSafe' > 0
    <3>1. watch' = "WATCHING" /\ failTimer' = Least(failSafe', Chunk)
      BY <1>2, <2>1, <2>2, <2>4 DEF FailSafeTimer
    <3>2. failTimer' \in Nat
      BY <2>2, <3>1 DEF Least
    <3>3. CountdownIsExact'
      BY <2>1, <2>2, <3>1, <3>2 DEF CountdownIsExact, Countdown, Least
    <3>4. PollIsNear'
      BY <2>1 DEF PollIsNear
    <3> QED BY <2>1, <2>2, <3>1, <3>2, <3>3, <3>4
  <2> QED BY <2>2, <2>3, <2>4
<1>3. CASE CancelWatch
  BY <1>3 DEF CancelWatch
<1>4. CASE DeadlineTick
  <2>1. /\ watch = "WATCHING" /\ watch' = watch
        /\ wallTimer' \in Nat /\ failTimer' \in Nat /\ remaining' \in Int
        /\ age' \in Nat /\ late' \in Nat
    BY <1>4 DEF DeadlineTick
  <2>2. CountdownIsExact'
    BY <1>4, <2>1 DEF DeadlineTick, CountdownIsExact, Least
  <2>3. PollIsNear'
    BY <1>4, <2>1 DEF DeadlineTick, PollIsNear
  <2> QED BY <1>4, <2>1, <2>2, <2>3 DEF DeadlineTick
<1>5. ASSUME NEW to \in -1 .. MaxRemaining + 1, ClockJumps(to) PROVE DeadlineInv'
  <2>1. /\ watch = "WATCHING" /\ watch' = watch /\ remaining' = to /\ to \in Int
        /\ late' = IF to <= 0 THEN late ELSE 0
        /\ jumps' \in Nat
        /\ UNCHANGED <<initial, wallTimer, failSafe, failTimer, age>>
    BY <1>5 DEF ClockJumps
  <2>2. CountdownIsExact'
    BY <2>1 DEF CountdownIsExact, Least
  <2>3. PollIsNear'
    BY <2>1 DEF PollIsNear
  <2> QED BY <2>1, <2>2, <2>3
<1>6. CASE UNCHANGED deadlineVars
  BY <1>6 DEF deadlineVars, CountdownIsExact, PollIsNear, Least
<1> QED BY <1>1, <1>2, <1>3, <1>4, <1>5, <1>6 DEF DeadlineNext

\* Signed content is taken off the screen at the latest when the lifetime it
\* had at the start of the watch is over, and one poll after the wall clock has
\* passed the deadline: for any lifetime and intervals, and however often and
\* far the wall clock is corrected within the bounds.
THEOREM DeadlineAlwaysEnforced == DeadlineSpec => []DeadlineIsEnforced
<1>1. DeadlineInv => DeadlineIsEnforced
  BY DeadlineAssumption
     DEF DeadlineInv, DeadlineTypes, CountdownIsExact, PollIsNear, DeadlineIsEnforced,
         Least
<1> QED BY <1>1, InitDeadline, DeadlineStep, PTL DEF DeadlineSpec

-----------------------------------------------------------------------------
(* ScheduleWindow                                                           *)

\* The two offsets of the zone are within what the samples reach.
ZoneOK ==
    /\ zone.at \in Int /\ zone.before \in Int /\ zone.after \in Int
    /\ -Reach <= 2 * zone.before /\ 2 * zone.before <= Reach
    /\ -Reach <= 2 * zone.after /\ 2 * zone.after <= Reach

LEMMA DivMod ==
    ASSUME NEW a \in Int, NEW b \in Nat \ {0}
    PROVE  /\ a \div b \in Int /\ a % b \in 0 .. b - 1
           /\ a = b * (a \div b) + (a % b)
OBVIOUS

\* The samples reach as far as they should.
LEMMA ReachIsSampled ==
    /\ Reach \div Step \in Nat
    /\ (Reach \div Step) * Step = Reach
    /\ (-(Reach \div Step)) * Step = -Reach
<1>1. Reach \in Nat /\ Step \in Nat \ {0} /\ Reach % Step = 0
  BY ScheduleAssumption
<1>2. PICK k \in Int : k = Reach \div Step
  BY <1>1, DivMod
<1>3. Reach = Step * k
  BY <1>1, <1>2, DivMod
<1>4. k >= 0
  <2> SUFFICES ASSUME k <= -1 PROVE FALSE
    BY <1>2
  <2>1. Step * k <= -1
    BY <1>1
  <2> QED BY <1>1, <1>3, <2>1
<1>5. k * Step = Reach /\ (-k) * Step = -Reach
  BY <1>1, <1>3
<1> QED BY <1>2, <1>4, <1>5

LEMMA WallClockType ==
    ASSUME ZoneOK, NEW i \in Int
    PROVE  /\ Offset(i) \in Int /\ WallClock(i) \in Int
           /\ i < zone.at => WallClock(i) = i + zone.before
           /\ ~(i < zone.at) => WallClock(i) = i + zone.after
BY DEF ZoneOK, Offset, WallClock

\* The samples find every instant at which the clocks show a time.
LEMMA ExactIsAll ==
    ASSUME ZoneOK, NEW d \in Int
    PROVE  Exact(d) = {i \in {d - zone.before, d - zone.after} : WallClock(i) = d}
<1> DEFINE K == Reach \div Step
           samples == {d + n * Step : n \in -K .. K}
<1>1. d - Reach \in samples /\ d + Reach \in samples
  <2>1. K \in Nat /\ K * Step = Reach /\ (-K) * Step = -Reach
    BY ReachIsSampled
  <2>2. d + K * Step \in samples /\ d + (-K) * Step \in samples
    <3> HIDE DEF K
    <3>1. K \in -K .. K /\ -K \in -K .. K
      BY <2>1
    <3> QED BY <3>1
  <2>3. d + K * Step = d + Reach /\ d + (-K) * Step = d - Reach
    <3> HIDE DEF K
    <3> QED BY <2>1, ScheduleAssumption
  <2> HIDE DEF K, samples
  <2> QED BY <2>2, <2>3
<1>2. \A s \in samples : Offset(s) \in {zone.before, zone.after}
  BY DEF Offset
<1>3. Exact(d) = {i \in {d - Offset(s) : s \in samples} : WallClock(i) = d}
  BY DEF Exact
<1> HIDE DEF samples, K
<1>4. Reach \in Nat
  BY ScheduleAssumption
<1>5. ASSUME WallClock(d - zone.before) = d PROVE d - zone.before \in Exact(d)
  <2>1. CASE d - zone.before < zone.at
    <3>1. d - Reach < zone.at
      BY <1>4, <2>1 DEF ZoneOK
    <3>2. Offset(d - Reach) = zone.before
      BY <3>1 DEF Offset
    <3> QED BY <1>1, <1>3, <1>5, <3>2
  <2>2. CASE ~(d - zone.before < zone.at)
    <3>1. d - zone.before = d - zone.after
      BY <1>5, <2>2, WallClockType DEF ZoneOK
    <3>2. ~(d + Reach < zone.at)
      BY <1>4, <2>2 DEF ZoneOK
    <3>3. Offset(d + Reach) = zone.after
      BY <3>2 DEF Offset
    <3> QED BY <1>1, <1>3, <1>5, <3>1, <3>3
  <2> QED BY <2>1, <2>2
<1>6. ASSUME WallClock(d - zone.after) = d PROVE d - zone.after \in Exact(d)
  <2>1. CASE ~(d - zone.after < zone.at)
    <3>1. ~(d + Reach < zone.at)
      BY <1>4, <2>1 DEF ZoneOK
    <3>2. Offset(d + Reach) = zone.after
      BY <3>1 DEF Offset
    <3> QED BY <1>1, <1>3, <1>6, <3>2
  <2>2. CASE d - zone.after < zone.at
    <3>1. d - zone.before = d - zone.after
      BY <1>6, <2>2, WallClockType DEF ZoneOK
    <3> QED BY <1>5, <1>6, <3>1
  <2> QED BY <2>1, <2>2
<1> QED BY <1>2, <1>3, <1>5, <1>6

\* A time that the clocks leave out is resolved to their change.
LEMMA GapEndIsChange ==
    ASSUME ZoneOK, NEW d \in Int,
           ~(d - zone.before < zone.at), d - zone.after < zone.at
    PROVE  GapEnd(d) = zone.at
<1> DEFINE range == d - Reach + 1 .. d + Reach
           P(i) == WallClock(i - 1) < d /\ WallClock(i) > d
<1>1. zone.at \in range /\ P(zone.at)
  <2>1. Reach \in Nat
    BY ScheduleAssumption
  <2>2. zone.at \in range
    BY <2>1 DEF ZoneOK
  <2>3. WallClock(zone.at - 1) = zone.at - 1 + zone.before
        /\ WallClock(zone.at) = zone.at + zone.after
    BY WallClockType DEF ZoneOK
  <2> QED BY <2>2, <2>3 DEF ZoneOK
<1>2. ASSUME NEW i \in range, P(i) PROVE i = zone.at
  <2>1. i \in Int /\ i - 1 \in Int
    BY ScheduleAssumption
  <2> SUFFICES ASSUME i # zone.at PROVE FALSE
    OBVIOUS
  <2>2. PICK h \in Int : h = i - 1
    BY <2>1
  <2>3. /\ WallClock(h) \in Int
        /\ h < zone.at => WallClock(h) = h + zone.before
        /\ ~(h < zone.at) => WallClock(h) = h + zone.after
    BY WallClockType
  <2>4. /\ i < zone.at => WallClock(i) = i + zone.before
        /\ ~(i < zone.at) => WallClock(i) = i + zone.after
    BY <2>1, WallClockType
  <2>5. WallClock(i) = WallClock(h) + 1
    <3>1. zone.at \in Int /\ zone.before \in Int /\ zone.after \in Int
      BY DEF ZoneOK
    <3>2. CASE i < zone.at
      <4>1. h < zone.at
        BY <2>1, <2>2, <3>1, <3>2
      <4> QED BY <2>1, <2>2, <2>3, <2>4, <3>1, <3>2, <4>1
    <3>3. CASE ~(i < zone.at)
      <4>1. ~(h < zone.at)
        BY <2>1, <2>2, <3>1, <3>3
      <4> QED BY <2>1, <2>2, <2>3, <2>4, <3>1, <3>3, <4>1
    <3> QED BY <3>2, <3>3
  <2>6. WallClock(h) < d /\ WallClock(i) > d
    BY <1>2, <2>2
  <2> QED BY <2>3, <2>5, <2>6
<1>3. GapEnd(d) = CHOOSE i \in range : P(i)
  BY DEF GapEnd
<1> HIDE DEF range, P
<1> QED BY <1>1, <1>2, <1>3

\* What a boundary comes to, in a closed form.
LEMMA BoundaryIs ==
    ASSUME ZoneOK, NEW d \in Int
    PROVE  /\ BoundaryInstant(d, "start") =
                IF ~(d - zone.after < zone.at) THEN d - zone.after
                ELSE IF d - zone.before < zone.at THEN d - zone.before ELSE zone.at
           /\ BoundaryInstant(d, "end") =
                IF d - zone.before < zone.at THEN d - zone.before
                ELSE IF ~(d - zone.after < zone.at) THEN d - zone.after ELSE zone.at
<1> DEFINE first == d - zone.before
           second == d - zone.after
<1>1. first \in Int /\ second \in Int
  BY DEF ZoneOK
<1>2. /\ first < zone.at => WallClock(first) = d
      /\ ~(second < zone.at) => WallClock(second) = d
      /\ ~(first < zone.at) /\ WallClock(first) = d => first = second
      /\ second < zone.at /\ WallClock(second) = d => first = second
  BY <1>1, WallClockType DEF ZoneOK
<1>3. Exact(d) = {i \in {first, second} : WallClock(i) = d}
  BY ExactIsAll
<1>4. CASE first < zone.at /\ ~(second < zone.at)
  <2>1. Exact(d) = {first, second} /\ first < second
    BY <1>1, <1>2, <1>3, <1>4 DEF ZoneOK
  <2>2. Max(Exact(d)) = second /\ Min(Exact(d)) = first
    BY <1>1, <2>1 DEF Max, Min
  <2> QED BY <1>4, <2>1, <2>2 DEF BoundaryInstant
<1>5. CASE first < zone.at /\ second < zone.at
  <2>1. Exact(d) = {first}
    BY <1>1, <1>2, <1>3, <1>5
  <2>2. Max(Exact(d)) = first /\ Min(Exact(d)) = first
    BY <1>1, <2>1 DEF Max, Min
  <2> QED BY <1>5, <2>1, <2>2 DEF BoundaryInstant
<1>6. CASE ~(first < zone.at) /\ ~(second < zone.at)
  <2>1. Exact(d) = {second}
    BY <1>1, <1>2, <1>3, <1>6
  <2>2. Max(Exact(d)) = second /\ Min(Exact(d)) = second
    BY <1>1, <2>1 DEF Max, Min
  <2> QED BY <1>6, <2>1, <2>2 DEF BoundaryInstant
<1>7. CASE ~(first < zone.at) /\ second < zone.at
  <2>1. Exact(d) = {}
    BY <1>1, <1>2, <1>3, <1>7 DEF ZoneOK
  <2>2. GapEnd(d) = zone.at
    BY <1>7, GapEndIsChange
  <2> QED BY <1>7, <2>1, <2>2 DEF BoundaryInstant
<1> QED BY <1>4, <1>5, <1>6, <1>7

\* From its start a boundary is where the clocks pass the time, for the last
\* time: later the clocks show more, and so it is whenever they show it once.
LEMMA StartFollowsClocks ==
    ASSUME ZoneOK, NEW d \in Int, NEW i \in Int
    PROVE  /\ i >= BoundaryInstant(d, "start") => d <= WallClock(i)
           /\ d <= WallClock(i) /\ ShownOnce(i) => i >= BoundaryInstant(d, "start")
<1>1. BoundaryInstant(d, "start") =
         IF ~(d - zone.after < zone.at) THEN d - zone.after
         ELSE IF d - zone.before < zone.at THEN d - zone.before ELSE zone.at
  BY BoundaryIs
<1>2. /\ WallClock(i) \in Int
      /\ i < zone.at => WallClock(i) = i + zone.before
      /\ ~(i < zone.at) => WallClock(i) = i + zone.after
  BY WallClockType
<1>3. i >= BoundaryInstant(d, "start") => d <= WallClock(i)
  BY <1>1, <1>2 DEF ZoneOK
<1>4. ASSUME d <= WallClock(i), i < BoundaryInstant(d, "start") PROVE ~ShownOnce(i)
  <2> DEFINE j == i + zone.before - zone.after
  <2>1. /\ i < zone.at /\ ~(j < zone.at) /\ j # i /\ j \in Int
        /\ j \in i - Reach .. i + Reach
    <3>1. Reach \in Nat
      BY ScheduleAssumption
    <3>2. i < zone.at /\ ~(j < zone.at)
      BY <1>1, <1>2, <1>4 DEF ZoneOK
    <3> QED BY <3>1, <3>2 DEF ZoneOK
  <2>2. WallClock(j) = WallClock(i)
    BY <2>1, <1>2, WallClockType DEF ZoneOK
  <2> QED BY <2>1, <2>2 DEF ShownOnce
<1>5. BoundaryInstant(d, "start") \in Int
  BY <1>1 DEF ZoneOK
<1> QED BY <1>3, <1>4, <1>5

LEMMA EndFollowsClocks ==
    ASSUME ZoneOK, NEW d \in Int, NEW i \in Int
    PROVE  /\ i < BoundaryInstant(d, "end") => WallClock(i) < d
           /\ WallClock(i) < d /\ ShownOnce(i) => i < BoundaryInstant(d, "end")
<1>1. BoundaryInstant(d, "end") =
         IF d - zone.before < zone.at THEN d - zone.before
         ELSE IF ~(d - zone.after < zone.at) THEN d - zone.after ELSE zone.at
  BY BoundaryIs
<1>2. /\ WallClock(i) \in Int
      /\ i < zone.at => WallClock(i) = i + zone.before
      /\ ~(i < zone.at) => WallClock(i) = i + zone.after
  BY WallClockType
<1>3. i < BoundaryInstant(d, "end") => WallClock(i) < d
  BY <1>1, <1>2 DEF ZoneOK
<1>4. ASSUME WallClock(i) < d, ~(i < BoundaryInstant(d, "end")) PROVE ~ShownOnce(i)
  <2> DEFINE j == i + zone.after - zone.before
  <2>1. /\ ~(i < zone.at) /\ j < zone.at /\ j # i /\ j \in Int
        /\ j \in i - Reach .. i + Reach
    <3>1. Reach \in Nat
      BY ScheduleAssumption
    <3>2. ~(i < zone.at) /\ j < zone.at
      BY <1>1, <1>2, <1>4 DEF ZoneOK
    <3> QED BY <3>1, <3>2 DEF ZoneOK
  <2>2. WallClock(j) = WallClock(i)
    BY <2>1, <1>2, WallClockType DEF ZoneOK
  <2> QED BY <2>1, <2>2 DEF ShownOnce
<1> QED BY <1>3, <1>4

-----------------------------------------------------------------------------

\* A case: what the cfg's schedules and the accepted windows come to.
CaseOK ==
    /\ ZoneOK
    /\ schedule.startsAt = 0 /\ schedule.id = 1 /\ schedule.priority = "campaign"
    /\ schedule.endsAt \in Int \cup {Unset}
    /\ schedule.start # Unset => schedule.start \in 0 .. Day - 1
    /\ schedule.end # Unset => schedule.end \in 1 .. Day
    /\ rival.id \in Nat \ {1} /\ rival.startsAt \in Int
    /\ rival.priority \in DOMAIN Priority

LEMMA InitCase == ScheduleInit => CaseOK
<1> SUFFICES ASSUME ScheduleInit PROVE CaseOK
  OBVIOUS
<1>1. ZoneOK
  BY ZoneAssumption DEF ScheduleInit, ZoneOK
<1>2. /\ rival.id \in Nat \ {1} /\ rival.startsAt \in Int
      /\ rival.priority \in DOMAIN Priority
  BY CaseAssumption DEF ScheduleInit
<1>3. PICK window \in Windows, days \in DayFilters, endsAt \in EndTimes :
          schedule = [id |-> 1, priority |-> "campaign", startsAt |-> 0,
                      endsAt |-> endsAt, days |-> days,
                      start |-> window[1], end |-> window[2]]
  BY DEF ScheduleInit
<1> QED BY <1>1, <1>2, <1>3, CaseAssumption DEF CaseOK

LEMMA DateType ==
    ASSUME ZoneOK, NEW i \in Int
    PROVE  /\ Date(i) \in Int /\ Date(i) * Day \in Int /\ MinuteOfDay(i) \in 0 .. Day - 1
           /\ WallClock(i) = Date(i) * Day + MinuteOfDay(i)
<1>1. WallClock(i) \in Int /\ Day \in Nat \ {0}
  BY WallClockType, ScheduleAssumption
<1>2. PICK w \in Int : w = WallClock(i)
  BY <1>1
<1>3. w \div Day \in Int /\ w % Day \in 0 .. Day - 1
  BY <1>1, DivMod
<1>4. w = (w \div Day) * Day + (w % Day)
  BY <1>1, <1>3, DivMod
<1> QED BY <1>1, <1>2, <1>3, <1>4 DEF Date, MinuteOfDay

\* The start and the end of the window on the date of an instant.
LEMMA WindowFollows ==
    ASSUME ZoneOK, NEW i \in Int, NEW m \in Int
    PROVE  /\ ResolveZonedWallMinute(Date(i), m, "end") \in Int
           /\ i >= ResolveZonedWallMinute(Date(i), m, "start") => m <= MinuteOfDay(i)
           /\ m <= MinuteOfDay(i) /\ ShownOnce(i) =>
                 i >= ResolveZonedWallMinute(Date(i), m, "start")
           /\ i < ResolveZonedWallMinute(Date(i), m, "end") => MinuteOfDay(i) < m
           /\ MinuteOfDay(i) < m /\ ShownOnce(i) =>
                 i < ResolveZonedWallMinute(Date(i), m, "end")
<1>1. PICK b \in Int : b = Date(i) * Day
  BY DateType
<1>2. WallClock(i) = b + MinuteOfDay(i) /\ MinuteOfDay(i) \in Int
  BY <1>1, DateType
<1>3. PICK d \in Int : d = b + m
  OBVIOUS
<1>4. /\ ResolveZonedWallMinute(Date(i), m, "end") = BoundaryInstant(d, "end")
      /\ ResolveZonedWallMinute(Date(i), m, "start") = BoundaryInstant(d, "start")
  BY <1>1, <1>3 DEF ResolveZonedWallMinute
<1>5. /\ d <= WallClock(i) <=> m <= MinuteOfDay(i)
      /\ WallClock(i) < d <=> MinuteOfDay(i) < m
  BY <1>2, <1>3
<1>6. BoundaryInstant(d, "end") \in Int
  BY BoundaryIs DEF ZoneOK
<1> QED BY <1>4, <1>5, <1>6, StartFollowsClocks, EndFollowsClocks

LEMMA InsideOnly == CaseOK => OnInWindowOnly
<1> SUFFICES ASSUME CaseOK, NEW i \in Instants
             PROVE  /\ On(schedule, i) => InWindow(schedule, i)
                    /\ InWindow(schedule, i) /\ ShownOnce(i) => On(schedule, i)
  BY DEF OnInWindowOnly
<1>1. i \in Int /\ ZoneOK
  BY ScheduleAssumption DEF CaseOK
<1>2. /\ schedule.start # Unset => schedule.start \in Int
      /\ schedule.end # Unset => schedule.end \in Int
  BY DEF CaseOK
<1> QED BY <1>1, <1>2, WindowFollows DEF On, InWindow, MatchesScheduleWindow

\* The end that is told is the sooner one of the day's and the schedule's.
LEMMA ToldIs ==
    ASSUME CaseOK, schedule.end # Unset, NEW i \in Int, On(schedule, i),
           NEW boundary, boundary = ResolveZonedWallMinute(Date(i), schedule.end, "end")
    PROVE  /\ boundary \in Int /\ boundary > i
           /\ SchedulePlaybackEndsAt(schedule, i) =
                IF schedule.endsAt # Unset /\ schedule.endsAt < boundary
                THEN schedule.endsAt ELSE boundary
<1>1. boundary \in Int
  <2>1. schedule.end \in Int /\ ZoneOK
    BY DEF CaseOK
  <2> QED BY <2>1, WindowFollows
<1>2. i < boundary /\ (schedule.endsAt # Unset => i < schedule.endsAt)
  BY DEF On, MatchesScheduleWindow
<1> DEFINE candidates == {e \in {schedule.endsAt} : e # Unset}
                           \cup {e \in {boundary} : schedule.end # Unset /\ e > i}
<1>3. SchedulePlaybackEndsAt(schedule, i) =
         IF candidates = {} THEN Unset ELSE Min(candidates)
  BY DEF SchedulePlaybackEndsAt
<1>4. CASE schedule.endsAt = Unset
  <2>1. candidates = {boundary}
    BY <1>1, <1>2, <1>4
  <2>2. Min(candidates) = boundary
    BY <1>1, <2>1 DEF Min
  <2> HIDE DEF candidates
  <2> QED BY <1>1, <1>2, <1>3, <1>4, <2>1, <2>2
<1>5. CASE schedule.endsAt # Unset
  <2>1. candidates = {schedule.endsAt, boundary} /\ schedule.endsAt \in Int
    BY <1>1, <1>2, <1>5 DEF CaseOK
  <2>2. Min(candidates) = IF schedule.endsAt < boundary
                          THEN schedule.endsAt ELSE boundary
    BY <1>1, <2>1 DEF Min
  <2> HIDE DEF candidates
  <2> QED BY <1>1, <1>2, <1>3, <1>5, <2>1, <2>2
<1> QED BY <1>4, <1>5

LEMMA KeepsToTold == CaseOK => OnUntilTold
<1> SUFFICES ASSUME CaseOK, schedule.end # Unset, NEW i \in Instants, On(schedule, i)
             PROVE  /\ SchedulePlaybackEndsAt(schedule, i) > i
                    /\ \A j \in Instants : i <= j /\ Date(j) = Date(i) =>
                          (On(schedule, j) <=> j < SchedulePlaybackEndsAt(schedule, i))
  BY DEF OnUntilTold
<1>1. i \in Int
  BY ScheduleAssumption
<1>2. PICK boundary : boundary = ResolveZonedWallMinute(Date(i), schedule.end, "end")
  OBVIOUS
<1>3. PICK told : told = SchedulePlaybackEndsAt(schedule, i)
  OBVIOUS
<1>4. /\ boundary \in Int /\ boundary > i
      /\ told = IF schedule.endsAt # Unset /\ schedule.endsAt < boundary
                THEN schedule.endsAt ELSE boundary
  BY <1>1, <1>2, <1>3, ToldIs
<1>5. /\ schedule.startsAt \in Int /\ schedule.startsAt <= i
      /\ schedule.endsAt # Unset => schedule.endsAt \in Int /\ i < schedule.endsAt
  BY DEF CaseOK, On
<1>6. told > i
  BY <1>1, <1>4, <1>5
<1>7. ASSUME NEW j \in Instants, i <= j, Date(j) = Date(i)
      PROVE  On(schedule, j) <=> j < told
  <2>1. j \in Int
    BY ScheduleAssumption
  <2>2. j < told <=> j < boundary /\ (schedule.endsAt # Unset => j < schedule.endsAt)
    BY <1>4, <1>5, <2>1
  <2>3. schedule.startsAt <= j
    BY <1>1, <1>5, <1>7, <2>1
  <2>4. schedule.days # {} => Weekday(j) \in schedule.days
    BY <1>7 DEF On, MatchesScheduleWindow, Weekday
  <2>5. schedule.start # Unset =>
            j >= ResolveZonedWallMinute(Date(j), schedule.start, "start")
    <3> SUFFICES ASSUME schedule.start # Unset
                 PROVE  j >= ResolveZonedWallMinute(Date(j), schedule.start, "start")
      OBVIOUS
    <3>1. PICK s \in Int : s = ResolveZonedWallMinute(Date(i), schedule.start, "start")
      <4>1. ZoneOK /\ schedule.start \in Int
        BY DEF CaseOK
      <4>2. PICK d \in Int : d = Date(i) * Day + schedule.start
        BY <1>1, <4>1, DateType
      <4>3. BoundaryInstant(d, "start") \in Int
        BY <4>1, BoundaryIs DEF ZoneOK
      <4> QED BY <4>2, <4>3 DEF ResolveZonedWallMinute
    <3>2. i >= s
      BY <3>1 DEF On, MatchesScheduleWindow
    <3> QED BY <1>1, <1>7, <2>1, <3>1, <3>2
  <2> QED BY <1>2, <1>7, <2>2, <2>3, <2>4, <2>5 DEF On, MatchesScheduleWindow
<1> QED BY <1>3, <1>6, <1>7

\* Any two schedules are in an order.
LEMMA InOrder ==
    ASSUME CaseOK
    PROVE  /\ rival # schedule
           /\ ComesBefore(schedule, rival) <=> ~ComesBefore(rival, schedule)
<1>1. /\ schedule.id = 1 /\ rival.id \in Nat /\ rival.id # 1
      /\ schedule.startsAt \in Int /\ rival.startsAt \in Int
  BY DEF CaseOK
<1>2. /\ Priority[schedule.priority] \in Int /\ Priority[rival.priority] \in Int
      /\ Priority[schedule.priority] = Priority[rival.priority]
            <=> schedule.priority = rival.priority
  BY DEF CaseOK, Priority
<1> QED BY <1>1, <1>2 DEF ComesBefore

LEMMA SelectedIs ==
    ASSUME CaseOK, NEW i
    PROVE  Selected(i) =
              IF On(schedule, i) /\ (On(rival, i) => ComesBefore(schedule, rival))
              THEN {schedule}
              ELSE IF On(rival, i) THEN {rival} ELSE {}
<1>1. Selected(i) = {s \in {schedule, rival} :
          On(s, i) /\ \A t \in {schedule, rival} \ {s} : On(t, i) => ComesBefore(s, t)}
  BY DEF Selected
<1>2. /\ schedule \in Selected(i) <=>
            On(schedule, i) /\ (On(rival, i) => ComesBefore(schedule, rival))
      /\ rival \in Selected(i) <=>
            On(rival, i) /\ (On(schedule, i) => ComesBefore(rival, schedule))
      /\ Selected(i) \subseteq {schedule, rival}
  BY <1>1, InOrder
<1> QED BY <1>2, InOrder

LEMMA OnlyOneSelected == CaseOK => OneIsSelected
<1> SUFFICES ASSUME CaseOK PROVE OneIsSelected
  OBVIOUS
<1>1. ASSUME NEW i \in Instants
      PROVE  Selected(i) = {} <=> ~On(schedule, i) /\ ~On(rival, i)
  BY SelectedIs
<1>2. ASSUME NEW i \in Instants, schedule.end # Unset, On(schedule, i),
             NEW j \in LaterBefore(i, SchedulePlaybackEndsAt(schedule, i))
      PROVE  \/ Selected(j) = {schedule}
             \/ Selected(j) = {rival} /\ ComesBefore(rival, schedule)
  <2>1. On(schedule, j)
    BY <1>2, KeepsToTold DEF OnUntilTold, LaterBefore
  <2> QED BY <2>1, SelectedIs, InOrder
<1> QED BY <1>1, <1>2 DEF OneIsSelected

ScheduleSpec == ScheduleInit /\ [][FALSE]_scheduleVars

\* For any zone whose clocks change once, any window, end and second schedule:
\* a schedule is on in its window as the clocks of its zone show it, and until
\* the end that a player was told (resolveZonedWallMinute, matchesScheduleWindow,
\* schedulePlaybackEndsAt, compareSchedulePrecedence).
THEOREM WindowAlwaysFollowsClocks == ScheduleSpec => []WindowFollowsWallClock
<1>1. CaseOK => WindowFollowsWallClock
  BY InsideOnly, KeepsToTold, OnlyOneSelected DEF WindowFollowsWallClock
<1>2. CaseOK /\ [FALSE]_scheduleVars => CaseOK'
  BY DEF scheduleVars, CaseOK, ZoneOK
<1> QED BY <1>1, <1>2, InitCase, PTL DEF ScheduleSpec

=============================================================================
