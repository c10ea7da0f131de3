---------------------------- MODULE SignedDeadline ----------------------------
(***************************************************************************)
(* watchSignedDeadline: content is taken off the screen at a signed time,    *)
(* although the wall clock may be corrected in either direction.             *)
(*                                                                         *)
(* Two timers run on the clock that only goes forward: one polls the wall    *)
(* clock, the other counts down, in chunks, what the wall clock promised     *)
(* when the watch began.  A device that sleeps sees the wall clock jump.     *)
(* Timers are served before time goes on: the event loop is not blocked.     *)
(***************************************************************************)
EXTENDS Integers

CONSTANTS
    MaxRemaining, \* bound on the lifetime when the watch begins
    Poll,         \* MAX_WALL_CLOCK_CHECK_MS
    Chunk,        \* MAX_TIMER_DELAY_MS
    MaxJumps      \* bound on corrections of the clock

ASSUME DeadlineAssumption ==
    /\ MaxRemaining \in Nat /\ MaxJumps \in Nat
    /\ Poll \in Nat \ {0} /\ Chunk \in Nat \ {0}

VARIABLES
    watch,     \* WATCHING, ELAPSED or CANCELLED
    initial,   \* initialRemaining
    remaining, \* deadline - Date.now()
    wallTimer, \* ticks until the next poll of the wall clock
    failSafe,  \* failSafeRemaining
    failTimer, \* ticks until the end of the chunk
    age,       \* ticks since the watch began
    late,      \* ticks since the wall clock has been past the deadline
    jumps

deadlineVars == <<watch, initial, remaining, wallTimer, failSafe, failTimer, age, late, jumps>>

DeadlineTypeOK ==
    /\ watch \in {"WATCHING", "ELAPSED", "CANCELLED"}
    /\ initial \in 0 .. MaxRemaining
    /\ remaining \in Int
    /\ wallTimer \in 0 .. Poll /\ failTimer \in 0 .. Chunk
    /\ failSafe \in 0 .. MaxRemaining
    /\ age \in Nat /\ late \in Nat /\ jumps \in 0 .. MaxJumps

-----------------------------------------------------------------------------
Least(a, b) == IF a <= b THEN a ELSE b

(* checkWallClock: elapse, or look again later. *)
CheckWallClock ==
    /\ watch' = IF remaining <= 0 THEN "ELAPSED" ELSE "WATCHING"
    /\ wallTimer' = IF remaining <= 0 THEN 0 ELSE Least(remaining, Poll)

DeadlineInit ==
    /\ \E r \in -1 .. MaxRemaining :
        /\ remaining = r
        /\ initial = IF r > 0 THEN r ELSE 0
        /\ watch = IF r <= 0 THEN "ELAPSED" ELSE "WATCHING"
        /\ wallTimer = IF r <= 0 THEN 0 ELSE Least(r, Poll)
    /\ failSafe = initial /\ failTimer = Least(initial, Chunk)
    /\ age = 0 /\ late = 0 /\ jumps = 0

WallTimer ==
    /\ watch = "WATCHING" /\ wallTimer = 0
    /\ CheckWallClock
    /\ UNCHANGED <<initial, remaining, failSafe, failTimer, age, late, jumps>>

(* visibilitychange and pageshow *)
LifecycleEvent ==
    /\ watch = "WATCHING"
    /\ CheckWallClock
    /\ UNCHANGED <<initial, remaining, failSafe, failTimer, age, late, jumps>>

(* Mutant of Countdown: what is left is computed from the wall clock again. *)
CountdownFromWall == IF remaining > 0 THEN Least(remaining, MaxRemaining) ELSE 0

(* One chunk of the countdown is over. *)
Countdown == failSafe - Least(failSafe, Chunk)

FailSafeTimer ==
    /\ watch = "WATCHING" /\ failTimer = 0
    /\ failSafe' = Countdown
    /\ IF failSafe' <= 0
       THEN watch' = "ELAPSED" /\ UNCHANGED failTimer
       ELSE failTimer' = Least(failSafe', Chunk) /\ UNCHANGED watch
    /\ UNCHANGED <<initial, remaining, wallTimer, age, late, jumps>>

(* The content is replaced before its deadline. *)
CancelWatch ==
    /\ watch = "WATCHING"
    /\ watch' = "CANCELLED"
    /\ UNCHANGED <<initial, remaining, wallTimer, failSafe, failTimer, age, late, jumps>>

(* The wall clock is set, or the device slept. *)
ClockJumps(to) ==
    /\ watch = "WATCHING" /\ jumps < MaxJumps
    /\ jumps' = jumps + 1
    /\ remaining' = to
    /\ late' = IF to <= 0 THEN late ELSE 0
    /\ UNCHANGED <<watch, initial, wallTimer, failSafe, failTimer, age>>

DeadlineTick ==
    /\ watch = "WATCHING" /\ wallTimer > 0 /\ failTimer > 0
    /\ remaining' = remaining - 1
    /\ wallTimer' = wallTimer - 1 /\ failTimer' = failTimer - 1
    /\ age' = age + 1
    /\ late' = IF remaining <= 0 THEN late + 1 ELSE 0
    /\ UNCHANGED <<watch, initial, failSafe, jumps>>

DeadlineNext ==
    \/ WallTimer \/ LifecycleEvent \/ FailSafeTimer \/ CancelWatch \/ DeadlineTick
    \/ \E to \in -1 .. MaxRemaining + 1 : ClockJumps(to)

-----------------------------------------------------------------------------
(* Content with a signed deadline is watched no longer than the lifetime it had
   when the watch began, however the clock is set back, and no longer than one
   poll after a wall clock that is past the deadline. *)
DeadlineIsEnforced == watch = "WATCHING" => age <= initial /\ late <= Poll

=============================================================================
