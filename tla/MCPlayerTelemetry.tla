-------------------------- MODULE MCPlayerTelemetry --------------------------
(* Instance for TLC of what the player does while a release is on: its
   heartbeats, the items and what is reported of them, the watch on a signed
   deadline, and the schedule windows that the deadline comes from.  The parts
   share no state that any of them writes, so a behaviour is one of one part
   while the others stand still; a case of ScheduleWindow has no steps. *)
EXTENDS HeartbeatScheduler, Playback, SignedDeadline, ScheduleWindow

CONSTANT Parts

VARIABLE part

vars == <<part, schedulerVars, playbackVars, deadlineVars, scheduleVars>>

(* A release whose last item the player does not show, one of a single
   template, and one without items. *)
MCKinds == [v \in Versions |->
    CASE v = "A" -> <<"image", "video", "web">>
      [] v = "B" -> <<"template">>
      [] OTHER -> <<>>]

(* Days of 8 units.  The clocks change at any time of the second of three days,
   forward or back by up to a fourth of a day, or not at all. *)
MCZones ==
    {[at |-> 16 + t, before |-> 0, after |-> d] : t \in 0 .. 7, d \in {-2, -1, 1, 2}}
    \cup {[at |-> 16, before |-> 0, after |-> 0]}

MCWindows == {<<s, e>> : s \in {Unset, 0, 1, 3, 5, 7}, e \in {Unset, 1, 2, 4, 6, 8}}

MCInstants == 8 .. 34

(* A longer schedule on the same screen that is less, equally or more urgent. *)
MCRivals ==
    {[id |-> 2, priority |-> p, startsAt |-> 20, endsAt |-> Unset, days |-> {},
      start |-> Unset, end |-> Unset] : p \in {"normal", "campaign", "priority"}}

ScheduleIsOff == zone = Unset /\ schedule = Unset /\ rival = Unset

MCInit ==
    /\ part \in Parts
    /\ SchedulerInit /\ PlaybackInit /\ DeadlineInit
    /\ part # "HEARTBEAT" => cadence = 1
    /\ part # "DEADLINE" => remaining = 1
    /\ IF part = "SCHEDULE" THEN ScheduleInit ELSE ScheduleIsOff

HeartbeatStep == part = "HEARTBEAT" /\ SchedulerNext /\ UNCHANGED <<part, playbackVars, deadlineVars, scheduleVars>>
PlaybackStep == part = "PLAYBACK" /\ PlaybackNext /\ UNCHANGED <<part, schedulerVars, deadlineVars, scheduleVars>>
DeadlineStep == part = "DEADLINE" /\ DeadlineNext /\ UNCHANGED <<part, schedulerVars, playbackVars, scheduleVars>>

MCSpec ==
    /\ MCInit /\ [][HeartbeatStep \/ PlaybackStep \/ DeadlineStep]_vars
    /\ part = "HEARTBEAT" => SchedulerFairness
    /\ part = "PLAYBACK" => PlaybackFairness
=============================================================================
