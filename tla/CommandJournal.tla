---------------------------- MODULE CommandJournal ----------------------------
(***************************************************************************)
(* DeviceCommandJournal: the durable record of the one remote command an     *)
(* Android player works on, and DeviceCommandJournalPlugin, which restarts   *)
(* the renderer for it.                                                      *)
(*                                                                         *)
(* Orders arrive in any order and any number of times, and the outcome of an *)
(* execution may be reported late, twice or not at all.  A commit of the     *)
(* preferences may fail without saying what it did: memory and disk then are *)
(* old or new independently of each other, and the journal refuses every     *)
(* further operation until the process starts again.                         *)
(*                                                                         *)
(* Abstractions: an order is a record of a finite set; its identifier, UUIDs *)
(* and the canonical forms of numbers are not spelled out.  The identifier   *)
(* of a renderer lifecycle is the number of lifecycles before it.  The file  *)
(* behind the preferences is replaced as a whole.                            *)
(***************************************************************************)
EXTENDS Naturals

CONSTANTS
    Orders,         \* [generation, sequence, command, action]
    MaxLifecycles,  \* bound on renderer lifecycles
    Nothing         \* no snapshot

Actions == {"REFRESH_CONTENT", "RESTART_RENDERER"}

ASSUME JournalAssumption ==
    /\ Orders # {}
    /\ \A o \in Orders : o.generation \in Nat /\ o.sequence \in Nat /\ o.action \in Actions
    /\ \A o, p \in Orders : o.command = p.command => o = p
    /\ MaxLifecycles \in Nat

VARIABLES
    disk,       \* the snapshot in the preferences file
    memory,     \* the snapshot in the preferences of this process
    uncertain,  \* UNCERTAIN_STORAGE_KEYS holds the journal's key
    lifecycle,  \* rendererLifecycleId
    recreating, \* the activity was asked to recreate itself
    told        \* the last snapshot an operation returned

journalVars == <<disk, memory, uncertain, lifecycle, recreating, told>>

-----------------------------------------------------------------------------
Pending == {"REFRESH_REQUIRED", "RESTART_REQUIRED"}
Terminal == {"SUCCEEDED", "FAILED"}
States == Pending \union Terminal

Snapshot == [order : Orders, lifecycle : Nat, state : States,
             pendingTerminalAck : BOOLEAN, restartRequired : BOOLEAN]

ASSUME NothingAssumption == Nothing \notin Snapshot

JournalTypeOK ==
    /\ disk \in Snapshot \union {Nothing}
    /\ memory \in Snapshot \union {Nothing}
    /\ uncertain \in BOOLEAN
    /\ lifecycle \in Nat
    /\ recreating \in BOOLEAN
    /\ told \in Snapshot \union {Nothing}

JournalInit ==
    /\ disk = Nothing /\ memory = Nothing
    /\ uncertain = FALSE
    /\ lifecycle = 0
    /\ recreating = FALSE
    /\ told = Nothing

-----------------------------------------------------------------------------
(* Snapshot.parse: what a process that starts is able to read. *)
Parses(s) ==
    /\ s.pendingTerminalAck => s.state \in Terminal
    /\ s.restartRequired <=> s.state = "RESTART_REQUIRED"
    /\ IF s.order.action = "REFRESH_CONTENT"
       THEN s.state \in Terminal \union {"REFRESH_REQUIRED"}
       ELSE s.state \in {"RESTART_REQUIRED", "SUCCEEDED"}

(* load and required: the snapshot, unless the journal is uncertain. *)
Readable == ~uncertain /\ (memory # Nothing => Parses(memory))
Required(order) ==
    /\ Readable /\ memory # Nothing
    /\ memory.order.sequence = order.sequence
    /\ memory.order.command = order.command

(* Mutant of Persist: a commit that fails does not poison the journal. *)
PersistOptimistic(s) ==
    \/ disk' = s /\ memory' = s /\ told' = s /\ UNCHANGED uncertain
    \/ disk' \in {disk, s} /\ memory' \in {memory, s} /\ UNCHANGED <<told, uncertain>>

(* persist: the preferences are replaced and the result is returned, or the
   commit fails in an unknown way. *)
Persist(s) ==
    \/ disk' = s /\ memory' = s /\ told' = s /\ UNCHANGED uncertain
    \/ /\ disk' \in {disk, s} /\ memory' \in {memory, s}
       /\ uncertain' = TRUE
       /\ UNCHANGED told

Accepted(order) ==
    [order |-> order, lifecycle |-> lifecycle,
     state |-> IF order.action = "RESTART_RENDERER" THEN "RESTART_REQUIRED" ELSE "REFRESH_REQUIRED",
     pendingTerminalAck |-> FALSE, restartRequired |-> order.action = "RESTART_RENDERER"]

(* Mutant of Terminated: the restart is still required afterwards. *)
TerminatedKeepingRestart(s, succeeded) ==
    [s EXCEPT !.state = IF succeeded THEN "SUCCEEDED" ELSE "FAILED",
              !.pendingTerminalAck = TRUE]

(* terminal *)
Terminated(s, succeeded) ==
    [s EXCEPT !.state = IF succeeded THEN "SUCCEEDED" ELSE "FAILED",
              !.pendingTerminalAck = TRUE, !.restartRequired = FALSE]

(* The plugin recreates the activity for a restart that this lifecycle accepted. *)
RecreateFor(s) == recreating' = (recreating \/ (s.restartRequired /\ s.lifecycle = lifecycle))

-----------------------------------------------------------------------------
(* Mutant of Busy: a result that was not acknowledged does not hold the journal. *)
BusyUntilTerminal == memory.state \in Pending

(* The command in the journal is not finished, or its result not delivered. *)
Busy == memory.restartRequired \/ memory.pendingTerminalAck \/ memory.state = "REFRESH_REQUIRED"

(* acceptLocked: an order of a later generation supersedes whatever the journal
   holds; within a generation sequences go up and only after the last result was
   acknowledged. *)
Supersedes(order) ==
    memory # Nothing =>
        \/ order.generation > memory.order.generation
        \/ /\ order.generation = memory.order.generation
           /\ order.sequence > memory.order.sequence
           /\ ~Busy

Accept(order) ==
    /\ Readable /\ Supersedes(order)
    /\ Persist(Accepted(order))
    /\ IF uncertain' THEN UNCHANGED recreating ELSE RecreateFor(Accepted(order))
    /\ UNCHANGED lifecycle

(* An order that is delivered again gets the stored result. *)
AcceptDuplicate(order) ==
    /\ Readable /\ memory # Nothing
    /\ order.generation = memory.order.generation
    /\ order.sequence = memory.order.sequence
    /\ order.command = memory.order.command /\ order.action = memory.order.action
    /\ told' = memory
    /\ RecreateFor(memory)
    /\ UNCHANGED <<disk, memory, uncertain, lifecycle>>

CompleteRefresh(order, succeeded) ==
    /\ Required(order)
    /\ memory.order.action = "REFRESH_CONTENT" /\ memory.state = "REFRESH_REQUIRED"
    /\ Persist(Terminated(memory, succeeded))
    /\ UNCHANGED <<lifecycle, recreating>>

(* confirmRendererReady: only another lifecycle proves the restart. *)
ConfirmRendererRestarted(order) ==
    /\ Required(order)
    /\ memory.order.action = "RESTART_RENDERER" /\ memory.state = "RESTART_REQUIRED"
    /\ memory.restartRequired
    /\ lifecycle # memory.lifecycle
    /\ Persist(Terminated(memory, TRUE))
    /\ UNCHANGED <<lifecycle, recreating>>

PendingAcknowledgement ==
    /\ Readable /\ memory # Nothing /\ memory.pendingTerminalAck
    /\ told' = memory
    /\ UNCHANGED <<disk, memory, uncertain, lifecycle, recreating>>

MarkAcknowledgementDelivered(order) ==
    /\ Required(order)
    /\ memory.pendingTerminalAck /\ memory.state \in Terminal
    /\ Persist([memory EXCEPT !.pendingTerminalAck = FALSE, !.restartRequired = FALSE])
    /\ UNCHANGED <<lifecycle, recreating>>

-----------------------------------------------------------------------------
(* The activity and its plugin are recreated, for a restart or by the system;
   the process and its uncertainty stay. *)
Recreate ==
    /\ lifecycle < MaxLifecycles
    /\ lifecycle' = lifecycle + 1
    /\ recreating' = FALSE
    /\ UNCHANGED <<disk, memory, uncertain, told>>

(* The process dies and starts again from the disk. *)
ProcessRestart ==
    /\ lifecycle < MaxLifecycles
    /\ lifecycle' = lifecycle + 1
    /\ memory' = disk
    /\ uncertain' = FALSE /\ recreating' = FALSE
    /\ UNCHANGED <<disk, told>>

JournalNext ==
    \/ \E o \in Orders :
        \/ Accept(o) \/ AcceptDuplicate(o)
        \/ \E succeeded \in BOOLEAN : CompleteRefresh(o, succeeded)
        \/ ConfirmRendererRestarted(o)
        \/ MarkAcknowledgementDelivered(o)
    \/ PendingAcknowledgement
    \/ Recreate
    \/ ProcessRestart

JournalSpec == JournalInit /\ [][JournalNext]_journalVars

-----------------------------------------------------------------------------
(* Whatever commit failed or process died, what is on disk can be read back: a
   snapshot that Snapshot.parse refuses would leave the journal corrupt for ever. *)
WrittenCanBeRead == disk # Nothing => Parses(disk)

(* How far a snapshot is behind another one. *)
Before(s, t) ==
    \/ s.order.generation < t.order.generation
    \/ s.order.generation = t.order.generation /\ s.order.sequence < t.order.sequence

(* Of the same command, t is s or a later state of it. *)
Follows(s, t) ==
    /\ t.order = s.order /\ t.lifecycle = s.lifecycle
    /\ s.state \in Terminal => t.state = s.state
    /\ s.state \in Terminal /\ ~s.pendingTerminalAck => ~t.pendingTerminalAck

(* A result that was returned is on disk or was overtaken there: no crash and no
   failed commit takes back an accepted order, an outcome or an acknowledgement,
   and no order gets two outcomes. *)
AnsweredIsDurable ==
    told # Nothing => disk # Nothing /\ (Before(told, disk) \/ Follows(told, disk))

(* A step of the journal on disk either works on the same command or goes on to a
   later one, and within a generation only when the outcome of the last one was
   acknowledged; nothing is replayed and nothing is dropped. *)
JournalOnlyAdvances ==
    [][disk # Nothing =>
        /\ disk' # Nothing
        /\ \/ Follows(disk, disk')
           \/ /\ Before(disk, disk')
              /\ \/ disk.order.generation < disk'.order.generation
                 \/ disk.state \in Terminal /\ ~disk.pendingTerminalAck]_journalVars

=============================================================================
