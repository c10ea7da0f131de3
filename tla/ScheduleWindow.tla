---------------------------- MODULE ScheduleWindow ----------------------------
(***************************************************************************)
(* When a schedule is on: its daily window in its own time zone, whose     *)
(* clocks may be put forward or back, the end that a player is told, and   *)
(* which of several schedules comes first.                                 *)
(*                                                                         *)
(* Instants and wall clocks count the same unit, of which a day has Day.   *)
(* A time zone is what Intl.DateTimeFormat knows of it: an offset before   *)
(* and an offset after a change.  Each state is one case: a time zone, a   *)
(* schedule, and a second one without a window for the same screen.        *)
(***************************************************************************)
EXTENDS Integers, FiniteSetsExt

CONSTANTS
    Day,       \* units of a day
    Step,      \* 6 hours, the distance of two samples of the offset
    Reach,     \* 36 hours, the distance of the last sample
    Instants,  \* the instants at which a manifest may be asked for
    Zones,     \* [at, before, after]
    Windows,   \* <<dailyStartMinutes, dailyEndMinutes>>, either one may be Unset
    DayFilters, EndTimes, Rivals, Unset

Priority == [normal |-> 0, campaign |-> 1, priority |-> 2]

ASSUME ScheduleAssumption ==
    /\ Day \in Nat \ {0} /\ Step \in Nat \ {0}
    /\ Reach \in Nat /\ Reach % Step = 0
    /\ Instants \subseteq Int /\ Unset \notin Int

\* No zone is further from UTC than half of the reach, 18 hours.
ASSUME ZoneAssumption == \A z \in Zones :
    /\ z.at \in Int /\ z.before \in Int /\ z.after \in Int
    /\ -Reach <= 2 * z.before /\ 2 * z.before <= Reach
    /\ -Reach <= 2 * z.after /\ 2 * z.after <= Reach

\* What the route accepts: minutes of the day, Day for the midnight after it.
ASSUME CaseAssumption ==
    /\ \A w \in Windows : /\ w[1] # Unset => w[1] \in 0 .. Day - 1
                          /\ w[2] # Unset => w[2] \in 1 .. Day
    /\ EndTimes \subseteq Int \cup {Unset}
    /\ \A r \in Rivals : /\ r.id \in Nat \ {1} /\ r.startsAt \in Int
                         /\ r.priority \in DOMAIN Priority

VARIABLES zone, schedule, rival   \* the case, Unset when nothing is scheduled

scheduleVars == <<zone, schedule, rival>>

(* The route accepts a window only if it ends later than it starts. *)
Accepted(window) ==
    window[1] # Unset /\ window[2] # Unset => window[1] < window[2]

ScheduleInit ==
    /\ zone \in Zones
    /\ rival \in Rivals
    /\ \E window \in Windows, days \in DayFilters, endsAt \in EndTimes :
        /\ Accepted(window)
        /\ schedule = [id |-> 1, priority |-> "campaign", startsAt |-> 0,
                       endsAt |-> endsAt, days |-> days,
                       start |-> window[1], end |-> window[2]]

-----------------------------------------------------------------------------
(* zonedParts *)
Offset(i) == IF i < zone.at THEN zone.before ELSE zone.after

WallClock(i) == i + Offset(i)

Date(i) == WallClock(i) \div Day

MinuteOfDay(i) == WallClock(i) % Day

Weekday(i) == Date(i) % 7

(* The instants, found from sampled offsets, at which the clock shows this. *)
Exact(desired) ==
    LET samples == {desired + d * Step : d \in -(Reach \div Step) .. Reach \div Step}
    IN {i \in {desired - Offset(s) : s \in samples} : WallClock(i) = desired}

(* The change of the clocks that leaves the time out. *)
GapEnd(desired) ==
    CHOOSE i \in desired - Reach + 1 .. desired + Reach :
        WallClock(i - 1) < desired /\ WallClock(i) > desired

(* Mutant of BoundaryInstant: of two occurrences the first is taken, too, for
   the start. *)
FirstOccurrence(desired, boundary) ==
    IF Exact(desired) # {} THEN Min(Exact(desired)) ELSE GapEnd(desired)

(* A repeated start is the later occurrence, a repeated end the earlier one. *)
BoundaryInstant(desired, boundary) ==
    IF Exact(desired) = {} THEN GapEnd(desired)
    ELSE IF boundary = "start" THEN Max(Exact(desired)) ELSE Min(Exact(desired))

(* resolveZonedWallMinute; minute Day is midnight of the next date. *)
ResolveZonedWallMinute(date, minute, boundary) ==
    BoundaryInstant(date * Day + minute, boundary)

MatchesScheduleWindow(s, i) ==
    /\ s.days # {} => Weekday(i) \in s.days
    /\ s.start # Unset => i >= ResolveZonedWallMinute(Date(i), s.start, "start")
    /\ s.end # Unset => i < ResolveZonedWallMinute(Date(i), s.end, "end")

(* What the stores select a schedule by. *)
On(s, i) ==
    /\ s.startsAt <= i
    /\ s.endsAt # Unset => i < s.endsAt
    /\ MatchesScheduleWindow(s, i)

SchedulePlaybackEndsAt(s, i) ==
    LET boundary == ResolveZonedWallMinute(Date(i), s.end, "end")
        candidates == {e \in {s.endsAt} : e # Unset}
                        \cup {e \in {boundary} : s.end # Unset /\ e > i}
    IN IF candidates = {} THEN Unset ELSE Min(candidates)

(* compareSchedulePrecedence: negative when left comes first. *)
ComesBefore(left, right) ==
    \/ Priority[left.priority] > Priority[right.priority]
    \/ /\ left.priority = right.priority
       /\ \/ left.startsAt > right.startsAt
          \/ left.startsAt = right.startsAt /\ left.id < right.id

(* The schedule that the manifest for the screen shows, if there is one. *)
Selected(i) ==
    {s \in {schedule, rival} :
        On(s, i) /\ \A t \in {schedule, rival} \ {s} : On(t, i) => ComesBefore(s, t)}

-----------------------------------------------------------------------------
\* The clocks show this time once.
ShownOnce(i) == \A j \in i - Reach .. i + Reach : j # i => WallClock(j) # WallClock(i)

\* The clocks are in the schedule's window.
InWindow(s, i) ==
    /\ s.startsAt <= i
    /\ s.endsAt # Unset => i < s.endsAt
    /\ s.days # {} => Weekday(i) \in s.days
    /\ s.start # Unset => s.start <= MinuteOfDay(i)
    /\ s.end # Unset => MinuteOfDay(i) < s.end

OnInWindowOnly ==
    \A i \in Instants :
        /\ On(schedule, i) => InWindow(schedule, i)
        /\ InWindow(schedule, i) /\ ShownOnce(i) => On(schedule, i)

\* Later on the same date, before a time.
LaterBefore(i, end) == {j \in Instants : i <= j /\ j < end /\ Date(j) = Date(i)}

OnUntilTold ==
    schedule.end # Unset =>
        \A i \in Instants : On(schedule, i) =>
            LET told == SchedulePlaybackEndsAt(schedule, i) IN
            /\ told > i
            /\ \A j \in Instants : i <= j /\ Date(j) = Date(i) =>
                  (On(schedule, j) <=> j < told)

OneIsSelected ==
    \A i \in Instants :
        /\ Selected(i) = {} <=> ~On(schedule, i) /\ ~On(rival, i)
        /\ schedule.end # Unset /\ On(schedule, i) /\ schedule \in Selected(i) =>
              \A j \in LaterBefore(i, SchedulePlaybackEndsAt(schedule, i)) :
                  \/ Selected(j) = {schedule}
                  \/ Selected(j) = {rival} /\ ComesBefore(rival, schedule)

(* What people read in a daily window is what its zone's clocks show:

   - it is never on outside of it ("preventing early activation"), and it is on
     in it at every time that the clocks show once;
   - once the end that the player was told has passed it is not on again on that
     date ("preventing a schedule from reactivating when clocks move backward"),
     and until then it is on.

   With a second schedule on the screen: always at most one is selected, one if
   any is on, and the selected one is replaced before its end only by one that
   comes before it, so that a player which keeps to the end it was told shows
   what the screen should show but for what was published as more urgent. *)
WindowFollowsWallClock == schedule # Unset =>
    /\ OnInWindowOnly
    /\ OnUntilTold
    /\ OneIsSelected
=============================================================================
