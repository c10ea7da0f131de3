-------------------------- MODULE HeartbeatScheduler --------------------------
(***************************************************************************)
(* The player's HeartbeatScheduler: one timer, at most one request, and any  *)
(* number of connectivity and visibility events that ask for a wake-up.      *)
(*                                                                         *)
(* Time is relative: the cooldown (notBefore) and the timer hold the ticks   *)
(* that remain.  Jitter is below the resolution of a tick; the chunks of a   *)
(* long timer are abstracted.  A new credential makes a new scheduler; what  *)
(* the aborted request of the old one still does touches only the old one.   *)
(***************************************************************************)
EXTENDS Naturals

CONSTANTS
    Cadences,     \* intervals the server may ask for, in ticks
    RetryBase, RetryMax,
    RetryAfters,  \* floors the server may set
    MaxFailures,  \* failures after which the backoff no longer grows
    NoTimer

ASSUME SchedulerAssumption ==
    /\ Cadences # {} /\ Cadences \subseteq Nat \ {0}
    /\ RetryBase \in Nat \ {0} /\ RetryMax \in Nat /\ RetryBase <= RetryMax
    /\ RetryAfters \subseteq Nat /\ MaxFailures \in Nat \ {0}
    /\ \A n \in 0 .. MaxFailures : 2 ^ n \in Nat   \* no prover knows powers
    /\ NoTimer \notin Nat

VARIABLES
    started, suspended,
    request,     \* running: NO, SENDING, or REPORTING a failure to onError
    delay,       \* run's local: the wait after this request
    wakePending,
    immediate,   \* immediateOnResume
    failures,    \* consecutiveFailures
    cadence,     \* cadenceSeconds
    cooldown,    \* ticks until notBefore
    timer,       \* a timer is armed
    due          \* ticks until timerDueAt, or NoTimer

schedulerVars == <<started, suspended, request, delay, wakePending, immediate,
                   failures, cadence, cooldown, timer, due>>

SchedulerTypeOK ==
    /\ started \in BOOLEAN /\ suspended \in BOOLEAN
    /\ request \in {"NO", "SENDING", "REPORTING"}
    /\ delay \in Nat
    /\ wakePending \in BOOLEAN /\ immediate \in BOOLEAN
    /\ failures \in 0 .. MaxFailures
    /\ cadence \in Cadences
    /\ cooldown \in Nat
    /\ timer \in BOOLEAN
    /\ due \in Nat \union {NoTimer}

-----------------------------------------------------------------------------
Larger(a, b) == IF a >= b THEN a ELSE b
Smaller(a, b) == IF a <= b THEN a ELSE b

ClearScheduledTimer == timer' = FALSE /\ due' = IF timer THEN NoTimer ELSE due

ScheduleAt(dueAt) == timer' = TRUE /\ due' = dueAt

(* Mutant of DueAt: the cooldown is forgotten. *)
DueAtUnbounded(wait) == wait

(* schedule: never before the cooldown has passed. *)
DueAt(wait) == Larger(wait, cooldown')

(* Mutant of PullForward: a wake-up replaces the timer, also by a later one. *)
PullForwardOrBack(wait) == ScheduleAt(DueAt(wait))

(* scheduleCatchUp only ever pulls the next run forward. *)
PullForward(wait) ==
    \/ due # NoTimer /\ due <= DueAt(wait) /\ UNCHANGED <<timer, due>>
    \/ (due # NoTimer => due > DueAt(wait)) /\ ScheduleAt(DueAt(wait))

CatchUp == \E wait \in 0 .. cadence' : PullForward(wait)

(* failureDelay *)
Backoff(n) == Smaller(RetryMax, RetryBase * 2 ^ (n - 1))

-----------------------------------------------------------------------------
SchedulerInit ==
    /\ started = FALSE /\ suspended = FALSE
    /\ request = "NO" /\ delay = 0
    /\ wakePending = FALSE /\ immediate = FALSE
    /\ failures = 0 /\ cadence \in Cadences /\ cooldown = 0
    /\ timer = FALSE /\ due = NoTimer

(* start of a new scheduler. *)
Start(active, now) ==
    /\ ~started
    /\ started' = TRUE /\ suspended' = ~active
    /\ wakePending' = FALSE /\ failures' = 0 /\ cooldown' = 0 /\ delay' = 0
    /\ cadence' \in Cadences
    /\ immediate' = (now /\ ~active)
    /\ request' = IF active /\ now THEN "SENDING" ELSE "NO"
    /\ IF active /\ ~now THEN CatchUp ELSE UNCHANGED <<timer, due>>

(* offline or hidden *)
Suspend ==
    /\ started
    /\ suspended' = TRUE /\ wakePending' = FALSE
    /\ ClearScheduledTimer
    /\ UNCHANGED <<started, request, delay, immediate, failures, cadence, cooldown>>

(* online, visible or a restored page: resume and trigger *)
Resume ==
    /\ started
    /\ suspended' = FALSE
    /\ \/ /\ immediate /\ cooldown = 0
          /\ immediate' = FALSE
          /\ request' = IF request = "NO" THEN "SENDING" ELSE request
          /\ UNCHANGED <<wakePending, timer, due, cadence, cooldown>>
       \/ /\ immediate => cooldown > 0
          /\ IF request # "NO"
             THEN wakePending' = TRUE /\ UNCHANGED <<timer, due, cadence, cooldown>>
             ELSE UNCHANGED <<wakePending, cadence, cooldown>> /\ CatchUp
          /\ UNCHANGED <<immediate, request>>
    /\ UNCHANGED <<started, delay, failures>>

(* The credentials are gone, and the scheduler with them. *)
Stop ==
    /\ started
    /\ started' = FALSE /\ suspended' = TRUE /\ wakePending' = FALSE
    /\ immediate' = FALSE /\ request' = "NO" /\ delay' = 0
    /\ timer' = FALSE /\ due' = NoTimer
    /\ failures' = 0 /\ cooldown' = 0
    /\ UNCHANGED cadence

TimerFires ==
    /\ timer /\ due = 0
    /\ timer' = FALSE /\ due' = NoTimer
    /\ request' = IF ~suspended /\ request = "NO" THEN "SENDING" ELSE request
    /\ UNCHANGED <<started, suspended, delay, wakePending, immediate, failures,
                   cadence, cooldown>>

(* run, once send has settled *)
Succeed ==
    /\ request = "SENDING"
    /\ failures' = 0 /\ cooldown' = 0
    /\ cadence' \in Cadences /\ delay' = cadence'
    /\ request' = "NO"
    /\ wakePending' = FALSE
    /\ IF suspended THEN UNCHANGED <<timer, due>>
       ELSE IF wakePending THEN CatchUp ELSE ScheduleAt(DueAt(delay'))
    /\ UNCHANGED <<started, suspended, immediate>>

(* A failure sets the cooldown before the owner hears of it. *)
FailRequest ==
    /\ request = "SENDING"
    /\ request' = "REPORTING"
    /\ \/ failures' = 0 /\ delay' = cadence
       \/ /\ failures' = Smaller(failures + 1, MaxFailures)
          /\ delay' \in {Larger(floor, Backoff(failures')) : floor \in RetryAfters \union {0}}
    /\ cooldown' = delay'
    /\ UNCHANGED <<started, suspended, wakePending, immediate, cadence, timer, due>>

FailureReported ==
    /\ request = "REPORTING"
    /\ request' = "NO"
    /\ wakePending' = FALSE
    /\ UNCHANGED <<started, suspended, immediate, failures, cadence, cooldown, delay>>
    /\ IF suspended THEN UNCHANGED <<timer, due>>
       ELSE IF wakePending THEN CatchUp ELSE ScheduleAt(DueAt(delay))

Earlier(ticks) == IF ticks = NoTimer \/ ticks = 0 THEN ticks ELSE ticks - 1

Tick ==
    /\ cooldown' = Earlier(cooldown) /\ due' = Earlier(due)
    /\ <<cooldown, due>> # <<cooldown', due'>>
    /\ UNCHANGED <<started, suspended, request, delay, wakePending, immediate,
                   failures, cadence, timer>>

SchedulerNext ==
    \/ \E active, now \in BOOLEAN : Start(active, now)
    \/ Suspend \/ Resume \/ Stop
    \/ TimerFires \/ Succeed \/ FailRequest \/ FailureReported
    \/ Tick

(* Time passes, an armed timer fires, a request is answered or times out, and
   its owner returns; nothing is assumed of the events. *)
SchedulerFairness ==
    /\ WF_schedulerVars(Tick)
    /\ WF_schedulerVars(TimerFires)
    /\ WF_schedulerVars(Succeed \/ FailRequest)
    /\ WF_schedulerVars(FailureReported)

-----------------------------------------------------------------------------
(* Whatever wakes the player, no request starts before the backoff or the
   Retry-After of the last failure is over. *)
CooldownIsKept == [][request = "NO" /\ request' # "NO" => cooldown = 0]_schedulerVars

(* While the player is online and visible heartbeats go on for ever: no burst of
   events postpones them again and again, and no order of suspensions, failures
   and wake-ups leaves the scheduler without a timer. *)
HeartbeatsContinue == []<>(request # "NO" \/ suspended \/ ~started)

=============================================================================
