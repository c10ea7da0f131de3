------------------------- MODULE AndroidPlayer_proofs -------------------------
(***************************************************************************)
(* Proofs about the native parts of the Android player: CommandJournal, for *)
(* any set of orders and any number of renderer lifecycles, failed commits  *)
(* and deaths of the process; and MediaCache, for any number of executor    *)
(* threads, of files and of locks, any capacity and any number of crashes.  *)
(***************************************************************************)
EXTENDS CommandJournal, MediaCache, FiniteSetTheorems, TLAPS

(***************************************************************************)
(* The command journal.                                                    *)
(***************************************************************************)

Reaches(s, t) == Before(s, t) \/ Follows(s, t)

\* A journal that is not uncertain has in memory what is on disk; every commit
\* writes a snapshot that parses and that the last answer leads to.
JournalInv ==
    /\ disk \in Snapshot \union {Nothing}
    /\ memory \in Snapshot \union {Nothing}
    /\ told \in Snapshot \union {Nothing}
    /\ uncertain \in BOOLEAN
    /\ lifecycle \in Nat
    /\ ~uncertain => memory = disk
    /\ WrittenCanBeRead
    /\ told # Nothing => disk # Nothing /\ Reaches(told, disk)

\* What one step may do to the snapshot on disk.
Advances(s, t) ==
    \/ Follows(s, t)
    \/ /\ Before(s, t)
       /\ \/ s.order.generation < t.order.generation
          \/ s.state \in Terminal /\ ~s.pendingTerminalAck

-----------------------------------------------------------------------------
LEMMA OrderNumbers ==
    ASSUME NEW s \in Snapshot
    PROVE  s.order.generation \in Nat /\ s.order.sequence \in Nat
<1>1. s.order \in Orders
  BY DEF Snapshot
<1> QED BY <1>1, JournalAssumption

LEMMA FollowsItself == ASSUME NEW s \in Snapshot PROVE Follows(s, s)
BY DEF Follows

LEMMA ReachesIsTransitive ==
    ASSUME NEW s \in Snapshot, NEW t \in Snapshot, NEW u \in Snapshot,
           Reaches(s, t), Reaches(t, u)
    PROVE  Reaches(s, u)
<1>1. /\ s.order.generation \in Nat /\ s.order.sequence \in Nat
      /\ t.order.generation \in Nat /\ t.order.sequence \in Nat
      /\ u.order.generation \in Nat /\ u.order.sequence \in Nat
  BY OrderNumbers
<1>2. CASE Follows(s, t) /\ Follows(t, u)
  BY <1>2 DEF Follows, Reaches
<1>3. CASE Follows(s, t) /\ Before(t, u)
  BY <1>3 DEF Follows, Before, Reaches
<1>4. CASE Before(s, t) /\ Follows(t, u)
  BY <1>4 DEF Follows, Before, Reaches
<1>5. CASE Before(s, t) /\ Before(t, u)
  BY <1>1, <1>5 DEF Before, Reaches
<1> QED BY <1>2, <1>3, <1>4, <1>5 DEF Reaches

\* A commit, whether it succeeds or fails.
LEMMA PersistKeeps ==
    ASSUME JournalInv, ~uncertain, lifecycle' \in Nat,
           NEW s \in Snapshot, Parses(s), disk # Nothing => Advances(disk, s), Persist(s)
    PROVE  JournalInv' /\ (disk # Nothing => disk' # Nothing /\ Advances(disk, disk'))
<1>1. s # Nothing
  BY NothingAssumption
<1>2. disk' \in {disk, s} /\ memory' \in {memory, s} /\ told' \in {told, s}
      /\ uncertain' \in BOOLEAN /\ (~uncertain' => memory' = disk')
      /\ (told' = s /\ told' # told => disk' = s)
  BY DEF Persist, JournalInv
<1>3. disk # Nothing => disk \in Snapshot /\ Advances(disk, disk) /\ Advances(disk, disk')
  BY <1>2, FollowsItself DEF JournalInv, Advances
<1>4. disk # Nothing => disk' # Nothing
  BY <1>1, <1>2
<1>5. WrittenCanBeRead'
  BY <1>2 DEF JournalInv, WrittenCanBeRead, Parses
<1>6. ASSUME told' # Nothing PROVE disk' # Nothing /\ Reaches(told', disk')
  <2>1. CASE told' = told
    <3>1. told \in Snapshot /\ disk \in Snapshot /\ disk # Nothing /\ Reaches(told, disk)
      BY <1>6, <2>1 DEF JournalInv
    <3>2. Reaches(disk, disk') /\ disk' \in Snapshot
      BY <1>2, <1>3, <3>1 DEF Advances, Reaches
    <3> QED BY <1>4, <2>1, <3>1, <3>2, ReachesIsTransitive
  <2>2. CASE told' # told
    BY <1>1, <1>2, <2>2, FollowsItself DEF Reaches
  <2> QED BY <2>1, <2>2
<1>7. /\ disk' \in Snapshot \union {Nothing} /\ memory' \in Snapshot \union {Nothing}
      /\ told' \in Snapshot \union {Nothing}
  BY <1>2 DEF JournalInv
<1> QED BY <1>2, <1>3, <1>4, <1>5, <1>6, <1>7 DEF JournalInv

\* A step that answers with what is on disk, or with nothing.
LEMMA AnswerKeeps ==
    ASSUME JournalInv, disk' = disk, memory' = memory, lifecycle' \in Nat,
           uncertain' = uncertain,
           told' = told \/ (~uncertain /\ memory # Nothing /\ told' = memory)
    PROVE  JournalInv' /\ (disk # Nothing => disk' # Nothing /\ Advances(disk, disk'))
<1>1. disk # Nothing => disk \in Snapshot /\ Follows(disk, disk)
  BY FollowsItself DEF JournalInv
<1>2. disk # Nothing => disk' # Nothing /\ Advances(disk, disk')
  BY <1>1 DEF Advances
<1>3. WrittenCanBeRead'
  BY DEF JournalInv, WrittenCanBeRead, Parses
<1>4. told' # Nothing => disk' # Nothing /\ Reaches(told', disk')
  BY <1>1 DEF JournalInv, Reaches
<1>5. told' \in Snapshot \union {Nothing}
  BY DEF JournalInv
<1> QED BY <1>2, <1>3, <1>4, <1>5 DEF JournalInv

-----------------------------------------------------------------------------
LEMMA InitJournal == JournalInit => JournalInv
<1> SUFFICES ASSUME JournalInit PROVE JournalInv
  OBVIOUS
<1>1. disk = Nothing /\ memory = Nothing /\ told = Nothing /\ uncertain = FALSE
      /\ lifecycle \in Nat
  BY DEF JournalInit
<1> QED BY <1>1 DEF JournalInv, WrittenCanBeRead

\* What the actions hand to the commit.
LEMMA AcceptedSnapshot ==
    ASSUME lifecycle \in Nat, NEW o \in Orders
    PROVE  Accepted(o) \in Snapshot /\ Parses(Accepted(o)) /\ Accepted(o).order = o
<1>1. o.action \in Actions
  BY JournalAssumption
<1>2. Accepted(o) \in Snapshot /\ Accepted(o).order = o
  BY DEF Accepted, Snapshot, States, Pending, Terminal
<1> QED BY <1>1, <1>2 DEF Accepted, Parses, Actions, Terminal

LEMMA TerminatedSnapshot ==
    ASSUME NEW s \in Snapshot, NEW succeeded \in BOOLEAN, Parses(s), s.state \in Pending,
           s.order.action = "REFRESH_CONTENT" \/ succeeded
    PROVE  /\ Terminated(s, succeeded) \in Snapshot
           /\ Parses(Terminated(s, succeeded))
           /\ Follows(s, Terminated(s, succeeded))
<1>1. Terminated(s, succeeded) \in Snapshot
  BY DEF Terminated, Snapshot, States, Terminal
<1>2. /\ Terminated(s, succeeded).order = s.order
      /\ Terminated(s, succeeded).lifecycle = s.lifecycle
      /\ Terminated(s, succeeded).state = IF succeeded THEN "SUCCEEDED" ELSE "FAILED"
      /\ Terminated(s, succeeded).pendingTerminalAck
      /\ ~Terminated(s, succeeded).restartRequired
  BY DEF Terminated, Snapshot
<1>3. Parses(Terminated(s, succeeded))
  BY <1>2 DEF Parses, Terminal
<1>4. Follows(s, Terminated(s, succeeded))
  BY <1>2 DEF Follows, Pending, Terminal
<1> QED BY <1>1, <1>3, <1>4

LEMMA AcknowledgedSnapshot ==
    ASSUME NEW s \in Snapshot, Parses(s), s.state \in Terminal
    PROVE  LET t == [s EXCEPT !.pendingTerminalAck = FALSE, !.restartRequired = FALSE]
           IN  t \in Snapshot /\ Parses(t) /\ Follows(s, t)
<1> DEFINE t == [s EXCEPT !.pendingTerminalAck = FALSE, !.restartRequired = FALSE]
<1>1. t \in Snapshot
  BY DEF Snapshot
<1>2. /\ t.order = s.order /\ t.lifecycle = s.lifecycle /\ t.state = s.state
      /\ ~t.pendingTerminalAck /\ ~t.restartRequired
  BY DEF Snapshot
<1> HIDE DEF t
<1>3. Parses(t)
  BY <1>2 DEF Parses, Terminal
<1>4. Follows(s, t)
  BY <1>2 DEF Follows
<1> QED BY <1>1, <1>3, <1>4 DEF t

-----------------------------------------------------------------------------
LEMMA AcceptAdvances ==
    ASSUME JournalInv, NEW o \in Orders, Accept(o)
    PROVE  JournalInv' /\ (disk # Nothing => disk' # Nothing /\ Advances(disk, disk'))
<1>1. ~uncertain /\ memory = disk /\ lifecycle' \in Nat
  BY DEF Accept, Readable, JournalInv
<1>2. Accepted(o) \in Snapshot /\ Parses(Accepted(o)) /\ Accepted(o).order = o
  BY AcceptedSnapshot DEF JournalInv
<1>3. ASSUME disk # Nothing PROVE Advances(disk, Accepted(o))
  <2>1. Parses(disk) /\ disk \in Snapshot /\ disk.state \in States
    BY <1>3 DEF JournalInv, WrittenCanBeRead, Snapshot
  <2>2. CASE o.generation > disk.order.generation
    <3>1. disk.order.generation \in Nat /\ o.generation \in Nat
      BY <2>1, OrderNumbers, JournalAssumption
    <3>2. disk.order.generation < o.generation
      BY <2>2, <3>1
    <3>3. disk.order.generation < Accepted(o).order.generation
      BY <1>2, <3>2
    <3> QED BY <3>3 DEF Advances, Before
  <2>3. CASE /\ o.generation = disk.order.generation
             /\ o.sequence > disk.order.sequence /\ ~Busy
    <3>1. disk.order.sequence \in Nat /\ o.sequence \in Nat
      BY <2>1, OrderNumbers, JournalAssumption
    <3>2. disk.state \in Terminal /\ ~disk.pendingTerminalAck
      BY <1>1, <2>1, <2>3 DEF Busy, Parses, States, Pending, Terminal
    <3> QED BY <1>2, <2>3, <3>1, <3>2 DEF Advances, Before
  <2> QED BY <1>1, <1>3, <2>2, <2>3 DEF Accept, Supersedes
<1> QED BY <1>1, <1>2, <1>3, PersistKeeps DEF Accept

LEMMA FinishAdvances ==
    ASSUME JournalInv, NEW o \in Orders, NEW succeeded \in BOOLEAN,
           CompleteRefresh(o, succeeded) \/ ConfirmRendererRestarted(o)
               \/ MarkAcknowledgementDelivered(o)
    PROVE  JournalInv' /\ (disk # Nothing => disk' # Nothing /\ Advances(disk, disk'))
<1>1. /\ ~uncertain /\ memory = disk /\ disk # Nothing /\ lifecycle' \in Nat
      /\ disk \in Snapshot /\ Parses(disk)
  BY DEF CompleteRefresh, ConfirmRendererRestarted, MarkAcknowledgementDelivered,
         Required, Readable, JournalInv, WrittenCanBeRead
<1>2. \E s \in Snapshot : Parses(s) /\ Follows(disk, s) /\ Persist(s)
  <2>1. CASE CompleteRefresh(o, succeeded)
    BY <1>1, <2>1, TerminatedSnapshot DEF CompleteRefresh, Pending
  <2>2. CASE ConfirmRendererRestarted(o)
    BY <1>1, <2>2, TerminatedSnapshot DEF ConfirmRendererRestarted, Pending
  <2>3. CASE MarkAcknowledgementDelivered(o)
    BY <1>1, <2>3, AcknowledgedSnapshot DEF MarkAcknowledgementDelivered
  <2> QED BY <2>1, <2>2, <2>3
<1> QED BY <1>1, <1>2, PersistKeeps DEF Advances

LEMMA JournalStep ==
    JournalInv /\ [JournalNext]_journalVars
        => JournalInv' /\ (disk # Nothing => disk' # Nothing /\ Advances(disk, disk'))
<1> SUFFICES ASSUME JournalInv, [JournalNext]_journalVars
             PROVE  JournalInv' /\ (disk # Nothing => disk' # Nothing /\ Advances(disk, disk'))
  OBVIOUS
<1>1. ASSUME NEW o \in Orders, Accept(o)
      PROVE  JournalInv' /\ (disk # Nothing => disk' # Nothing /\ Advances(disk, disk'))
  BY <1>1, AcceptAdvances
<1>2. ASSUME NEW o \in Orders, NEW succeeded \in BOOLEAN,
             CompleteRefresh(o, succeeded) \/ ConfirmRendererRestarted(o)
                 \/ MarkAcknowledgementDelivered(o)
      PROVE  JournalInv' /\ (disk # Nothing => disk' # Nothing /\ Advances(disk, disk'))
  BY <1>2, FinishAdvances
<1>3. CASE (\E o \in Orders : AcceptDuplicate(o)) \/ PendingAcknowledgement \/ Recreate
           \/ UNCHANGED journalVars
  <2>1. /\ disk' = disk /\ memory' = memory /\ uncertain' = uncertain /\ lifecycle' \in Nat
        /\ told' = told \/ (~uncertain /\ memory # Nothing /\ told' = memory)
    BY <1>3 DEF AcceptDuplicate, PendingAcknowledgement, Recreate, journalVars, Readable,
                JournalInv
  <2> QED BY <2>1, AnswerKeeps
<1>4. CASE ProcessRestart
  <2>1. /\ disk' = disk /\ memory' = disk /\ told' = told /\ uncertain' = FALSE
        /\ lifecycle' \in Nat
    BY <1>4 DEF ProcessRestart, JournalInv
  <2>2. disk # Nothing => disk' # Nothing /\ Advances(disk, disk')
    BY <2>1, FollowsItself DEF JournalInv, Advances
  <2> QED BY <2>1, <2>2 DEF JournalInv, WrittenCanBeRead
<1>5. (\E o \in Orders : ConfirmRendererRestarted(o) \/ MarkAcknowledgementDelivered(o))
      => \E o \in Orders, succeeded \in BOOLEAN :
             ConfirmRendererRestarted(o) \/ MarkAcknowledgementDelivered(o)
  OBVIOUS
<1> QED BY <1>1, <1>2, <1>3, <1>4, <1>5 DEF JournalNext

LEMMA JournalAlways == JournalSpec => []JournalInv
<1> QED BY InitJournal, JournalStep, PTL DEF JournalSpec

-----------------------------------------------------------------------------
\* Whatever commit fails in whatever way and whenever the process dies, a new
\* process reads what is on disk: the journal is never corrupt for ever.
THEOREM JournalStaysReadable == JournalSpec => []WrittenCanBeRead
<1>1. JournalInv => WrittenCanBeRead
  BY DEF JournalInv
<1> QED BY <1>1, JournalAlways, PTL

\* What an operation returned is never taken back: the disk has it, or a later
\* state of the same command, or a later command.
THEOREM AnswersStayDurable == JournalSpec => []AnsweredIsDurable
<1>1. JournalInv => AnsweredIsDurable
  BY DEF JournalInv, AnsweredIsDurable, Reaches
<1> QED BY <1>1, JournalAlways, PTL

\* The snapshot on disk goes forward only: no command is replayed, and none of
\* the same generation is dropped before its outcome was acknowledged.
THEOREM JournalGoesForward == JournalSpec => JournalOnlyAdvances
<1>1. JournalInv /\ [JournalNext]_journalVars =>
        [disk # Nothing =>
          /\ disk' # Nothing
          /\ \/ Follows(disk, disk')
             \/ /\ Before(disk, disk')
                /\ \/ disk.order.generation < disk'.order.generation
                   \/ disk.state \in Terminal /\ ~disk.pendingTerminalAck]_journalVars
  BY JournalStep DEF Advances
<1> QED BY <1>1, JournalAlways, PTL DEF JournalSpec, JournalOnlyAdvances

-----------------------------------------------------------------------------
(***************************************************************************)
(* The media cache.                                                        *)
(***************************************************************************)

Operations ==
    [kind : Readers \union Writers \union {"NONE"}, file : Files \union {None},
     step : Steps, keep : SUBSET Files, left : SUBSET Files]

\* Of a thread's operation, and nothing else of op, comes a step's new one.
Moves(t, steps) ==
    \E o \in Operations : o.step \in steps /\ op' = [op EXCEPT ![t] = o]

OperationsOK == op \in [Threads -> Operations]

LEMMA IdleIsOperation == Idle \in Operations /\ Idle.step = "WAIT"
BY DEF Idle, Operations, Steps

LEMMA EndsMoves ==
    ASSUME NEW t \in Threads, Ends(t) PROVE Moves(t, {"WAIT"})
BY IdleIsOperation DEF Ends, Moves

LEMMA ProgressMoves ==
    ASSUME OperationsOK, NEW t \in Threads, NEW step \in Steps, Progress(t, step)
    PROVE  Moves(t, {step})
<1>1. op' = [op EXCEPT ![t] = [op[t] EXCEPT !.step = step]]
  BY DEF Progress
<1>2. [op[t] EXCEPT !.step = step] \in Operations
      /\ [op[t] EXCEPT !.step = step].step = step
  BY DEF OperationsOK, Operations
<1> QED BY <1>1, <1>2 DEF Moves

LEMMA BeginMoves ==
    ASSUME NEW t \in Threads, Begin(t)
    PROVE  Moves(t, {"WAIT"}) /\ op[t].step = "WAIT"
<1>0. op[t].step = "WAIT"
  BY IdleIsOperation DEF Begin
<1>1. CASE \E f \in Files, kind \in Readers :
             op' = [op EXCEPT ![t] = [Idle EXCEPT !.kind = kind, !.file = f]]
  <2>1. PICK f \in Files, kind \in Readers :
             op' = [op EXCEPT ![t] = [Idle EXCEPT !.kind = kind, !.file = f]]
    BY <1>1
  <2>2. [Idle EXCEPT !.kind = kind, !.file = f] \in Operations
        /\ [Idle EXCEPT !.kind = kind, !.file = f].step = "WAIT"
    BY DEF Idle, Operations, Steps
  <2> QED BY <1>0, <2>1, <2>2 DEF Moves
<1>2. CASE \E keep \in SUBSET Files :
             op' = [op EXCEPT ![t] = [Idle EXCEPT !.kind = "PRUNE", !.keep = keep]]
  <2>1. PICK keep \in SUBSET Files :
             op' = [op EXCEPT ![t] = [Idle EXCEPT !.kind = "PRUNE", !.keep = keep]]
    BY <1>2
  <2>2. [Idle EXCEPT !.kind = "PRUNE", !.keep = keep] \in Operations
        /\ [Idle EXCEPT !.kind = "PRUNE", !.keep = keep].step = "WAIT"
    BY DEF Idle, Operations, Steps, Writers
  <2> QED BY <1>0, <2>1, <2>2 DEF Moves
<1>3. CASE op' = [op EXCEPT ![t] = [Idle EXCEPT !.kind = "REMOVE"]]
  <2>1. [Idle EXCEPT !.kind = "REMOVE"] \in Operations
        /\ [Idle EXCEPT !.kind = "REMOVE"].step = "WAIT"
    BY DEF Idle, Operations, Steps, Writers
  <2> QED BY <1>0, <1>3, <2>1 DEF Moves
<1> QED BY <1>1, <1>2, <1>3 DEF Begin

LEMMA EnterMoves ==
    ASSUME OperationsOK, NEW t \in Threads, Enter(t)
    PROVE  Moves(t, {"LOCKED", "DELETING"})
<1>1. CASE Progress(t, "LOCKED")
  BY <1>1, ProgressMoves DEF Steps, Moves
<1>2. CASE op' = [op EXCEPT ![t].step = "DELETING",
                            ![t].left = {f \in Files : final[f] # "NONE"} \ op[t].keep]
  <2> DEFINE left == {f \in Files : final[f] # "NONE"} \ op[t].keep
  <2>1. op' = [op EXCEPT ![t] = [op[t] EXCEPT !.step = "DELETING", !.left = left]]
    BY <1>2 DEF OperationsOK, Operations
  <2>2. left \in SUBSET Files /\ "DELETING" \in Steps
    BY DEF Steps
  <2> HIDE DEF left
  <2>3. [op[t] EXCEPT !.step = "DELETING", !.left = left] \in Operations
        /\ [op[t] EXCEPT !.step = "DELETING", !.left = left].step = "DELETING"
    BY <2>2 DEF OperationsOK, Operations
  <2> QED BY <2>1, <2>3 DEF Moves
<1> QED BY <1>1, <1>2 DEF Enter

\* A deletion changes one file, to nothing, or ends.
LEMMA DeleteMoves ==
    ASSUME OperationsOK, NEW t \in Threads, Delete(t)
    PROVE  /\ Moves(t, {"DELETING", "WAIT"})
           /\ UNCHANGED final \/ \E f \in Files : final' = [final EXCEPT ![f] = "NONE"]
<1>1. CASE Ends(t) /\ UNCHANGED final
  BY <1>1, EndsMoves DEF Moves
<1>2. ASSUME NEW f \in op[t].left, final' = [final EXCEPT ![f] = "NONE"],
             op' = [op EXCEPT ![t].left = @ \ {f}]
      PROVE  /\ Moves(t, {"DELETING", "WAIT"})
             /\ \E g \in Files : final' = [final EXCEPT ![g] = "NONE"]
  <2> DEFINE left == op[t].left \ {f}
  <2>1. left \in SUBSET Files /\ op[t].step = "DELETING" /\ f \in Files
    BY DEF OperationsOK, Operations, Delete
  <2>2. op' = [op EXCEPT ![t] = [op[t] EXCEPT !.left = left]]
    BY <1>2 DEF OperationsOK
  <2> HIDE DEF left
  <2>3. [op[t] EXCEPT !.left = left] \in Operations
        /\ [op[t] EXCEPT !.left = left].step = op[t].step
    BY <2>1 DEF OperationsOK, Operations
  <2> QED BY <1>2, <2>1, <2>2, <2>3 DEF Moves
<1> QED BY <1>1, <1>2 DEF Delete

-----------------------------------------------------------------------------
(* What is renamed was synced. *)

SyncedBeforeRename ==
    /\ OperationsOK
    /\ final \in [Files -> Contents \ {"TORN"}]
    /\ parts \in [Threads -> Contents]
    /\ \A t \in Threads : op[t].step = "SYNCED" => parts[t] = "GOOD"

\* A step that only moves the operation of one thread on, to anything but SYNCED.
LEMMA OperationMoves ==
    ASSUME SyncedBeforeRename, NEW t \in Threads, Moves(t, Steps \ {"SYNCED"}),
           final' \in [Files -> Contents \ {"TORN"}], UNCHANGED parts
    PROVE  SyncedBeforeRename'
BY DEF SyncedBeforeRename, OperationsOK, Moves

LEMMA MovesMore ==
    ASSUME NEW t, NEW S, NEW R, S \subseteq R, Moves(t, S) PROVE Moves(t, R)
BY DEF Moves

LEMMA WorkSynced ==
    ASSUME SyncedBeforeRename, NEW t \in Threads, Begin(t) \/ Work(t)
    PROVE  SyncedBeforeRename'
<1> DEFINE Others == Steps \ {"SYNCED"}
<1>0. OperationsOK /\ final \in [Files -> Contents \ {"TORN"}]
  BY DEF SyncedBeforeRename
<1>1. /\ {"WAIT"} \subseteq Others /\ {"LOCKED", "DELETING"} \subseteq Others
      /\ {"DELETING", "WAIT"} \subseteq Others
      /\ \A step \in {"LOCKED", "VERIFIED", "RESERVED", "DOWNLOADED", "CLEANING"} :
            step \in Steps /\ {step} \subseteq Others
  BY DEF Steps
<1>2. ASSUME Moves(t, Others), UNCHANGED <<final, parts>> PROVE SyncedBeforeRename'
  BY <1>0, <1>2, OperationMoves
<1>3. Ends(t) => Moves(t, Others)
  BY <1>1, EndsMoves, MovesMore
<1>4. \A step \in {"LOCKED", "VERIFIED", "RESERVED", "DOWNLOADED", "CLEANING"} :
         Progress(t, step) => Moves(t, Others)
  <2> SUFFICES ASSUME NEW step \in {"LOCKED", "VERIFIED", "RESERVED", "DOWNLOADED", "CLEANING"},
                      Progress(t, step)
               PROVE  Moves(t, Others)
    OBVIOUS
  <2>1. step \in Steps /\ {step} \subseteq Others
    BY <1>1
  <2>2. Moves(t, {step})
    BY <1>0, <2>1, ProgressMoves
  <2> QED BY <2>1, <2>2, MovesMore
<1> HIDE DEF Others
<1>5. CASE Begin(t)
  BY <1>1, <1>2, <1>5, BeginMoves, MovesMore DEF Begin
<1>6. CASE Enter(t)
  BY <1>0, <1>1, <1>2, <1>6, EnterMoves, MovesMore DEF Enter
<1>7. CASE Resolve(t) \/ Check(t) \/ Reserve(t) \/ Fail(t) \/ Deleted(t)
  BY <1>2, <1>3, <1>4, <1>7 DEF Resolve, Check, Reserve, Fail, Deleted
<1>8. CASE Download(t)
  <2>1. Moves(t, Others) /\ parts' = [parts EXCEPT ![t] = "TORN"] /\ UNCHANGED final
    BY <1>4, <1>8 DEF Download
  <2> QED BY <2>1 DEF SyncedBeforeRename, OperationsOK, Contents, Moves, Others
<1>9. CASE Sync(t)
  <2>1. parts' = [parts EXCEPT ![t] = "GOOD"] /\ UNCHANGED final
    BY <1>9 DEF Sync
  <2>2. Moves(t, {"SYNCED"})
    BY <1>0, <1>9, ProgressMoves DEF Sync, Steps
  <2> QED BY <2>1, <2>2 DEF SyncedBeforeRename, OperationsOK, Contents, Moves
<1>10. CASE Activate(t)
  <2>1. /\ parts[t] = "GOOD"
        /\ final' = [final EXCEPT ![op[t].file] = parts[t]]
        /\ parts' = [parts EXCEPT ![t] = "NONE"]
    BY <1>10 DEF Activate, SyncedBeforeRename
  <2>2. Moves(t, Others)
    BY <1>4, <1>10 DEF Activate
  <2> QED BY <2>1, <2>2 DEF SyncedBeforeRename, OperationsOK, Contents, Moves, Others
<1>11. CASE Clean(t)
  <2>1. Moves(t, Others) /\ parts' = [parts EXCEPT ![t] = "NONE"] /\ UNCHANGED final
    BY <1>3, <1>11 DEF Clean
  <2> QED BY <2>1 DEF SyncedBeforeRename, OperationsOK, Contents, Moves, Others
<1>12. CASE Delete(t)
  <2>1. Moves(t, Others)
    BY <1>0, <1>1, <1>12, DeleteMoves, MovesMore
  <2>2. final' \in [Files -> Contents \ {"TORN"}]
    BY <1>0, <1>12, DeleteMoves DEF Contents
  <2> QED BY <1>12, <2>1, <2>2, OperationMoves DEF Delete, Others
<1> QED BY <1>5, <1>6, <1>7, <1>8, <1>9, <1>10, <1>11, <1>12 DEF Work

LEMMA InitSynced == CacheInit => SyncedBeforeRename
BY IdleIsOperation DEF CacheInit, SyncedBeforeRename, OperationsOK, Contents

LEMMA SyncedStep == SyncedBeforeRename /\ [CacheNext]_cacheVars => SyncedBeforeRename'
<1> SUFFICES ASSUME SyncedBeforeRename, [CacheNext]_cacheVars PROVE SyncedBeforeRename'
  OBVIOUS
<1>1. ASSUME NEW t \in Threads, Begin(t) \/ Work(t) PROVE SyncedBeforeRename'
  BY <1>1, WorkSynced
<1>2. ASSUME NEW powerLoss \in BOOLEAN, Die(powerLoss) PROVE SyncedBeforeRename'
  BY <1>2, IdleIsOperation DEF Die, SyncedBeforeRename, OperationsOK, Contents
<1>3. ASSUME NEW f \in Files, Rot(f) PROVE SyncedBeforeRename'
  BY <1>3 DEF Rot, SyncedBeforeRename, OperationsOK, Contents
<1>4. CASE UNCHANGED cacheVars
  BY <1>4 DEF cacheVars, SyncedBeforeRename, OperationsOK
<1> QED BY <1>1, <1>2, <1>3, <1>4 DEF CacheNext

\* No crash and no loss of power, at whatever step of however many concurrent
\* operations, leaves a torn file under a final name.
THEOREM FinalsAlwaysSynced == CacheSpec => []FinalsAreSynced
<1>1. SyncedBeforeRename => FinalsAreSynced
  BY DEF SyncedBeforeRename, FinalsAreSynced
<1> QED BY <1>1, InitSynced, SyncedStep, PTL DEF CacheSpec

-----------------------------------------------------------------------------
(* The lifecycle lock and the asset locks. *)

\* The kind of an operation that has come as far as its step.
Fits(o) ==
    /\ o \in Operations
    /\ o.kind = "NONE" => o = Idle
    /\ o.step = "LOCKED" => o.kind \in Readers
    /\ o.step \in {"VERIFIED", "RESERVED", "DOWNLOADED", "SYNCED", "CLEANING"}
          => o.kind = "PREFETCH"
    /\ o.step = "DELETING" => o.kind \in Writers

Waits(o) == o # Idle /\ o.step = "WAIT"
InQueue(t) == \E i \in DOMAIN waiting : waiting[i] = t

\* The queue holds the threads that wait, each once.
QueueInv ==
    /\ op \in [Threads -> Operations]
    /\ waiting \in Seq(Threads)
    /\ \A t \in Threads : Fits(op[t]) /\ (InQueue(t) <=> Waits(op[t]))
    /\ \A i, j \in DOMAIN waiting : waiting[i] = waiting[j] => i = j

\* What lets each step of a thread's operation go on.
CanGoOn(t) ==
    \/ Waits(op[t]) /\ Turn(t) /\ Grantable(t)
    \/ op[t].kind \in Readers /\ op[t].step = "LOCKED" /\ AssetFree(t)
    \/ op[t].kind = "PREFETCH" /\ op[t].step = "VERIFIED"
    \/ op[t].step \in {"RESERVED", "DOWNLOADED", "SYNCED", "CLEANING", "DELETING"}

\* Threads never all wait for each other.
SomeThreadGoesOn ==
    (\E t \in Threads : op[t] # Idle) => \E t \in Threads : CanGoOn(t)

\* A thread that waits never moves back.
NeverOvertaken ==
    [][\A i \in DOMAIN waiting, j \in DOMAIN waiting' :
          waiting'[j] = waiting[i] => j <= i]_cacheVars

LEMMA IdleFits == Fits(Idle) /\ ~Waits(Idle)
BY IdleIsOperation DEF Fits, Waits, Idle, Readers, Writers

\* A step of a thread that holds the lock, or lets it go.
LEMMA HolderMoves ==
    ASSUME QueueInv, NEW t \in Threads, op[t].step # "WAIT", NEW o, Fits(o), ~Waits(o),
           op' = [op EXCEPT ![t] = o], UNCHANGED waiting
    PROVE  QueueInv'
<1>1. op' \in [Threads -> Operations] /\ op'[t] = o /\ (\A u \in Threads \ {t} : op'[u] = op[u])
  BY DEF QueueInv, Fits
<1>2. ~InQueue(t)
  BY DEF QueueInv, Waits
<1>3. ASSUME NEW u \in Threads
      PROVE  Fits(op'[u]) /\ (InQueue(u)' <=> Waits(op'[u]))
  <2>1. InQueue(u)' <=> InQueue(u)
    BY DEF InQueue
  <2>2. CASE u = t
    BY <1>1, <1>2, <2>1, <2>2
  <2>3. CASE u # t
    BY <1>1, <2>1, <2>3 DEF QueueInv
  <2> QED BY <2>2, <2>3
<1>4. waiting' = waiting
  OBVIOUS
<1>5. (\A u \in Threads : Fits(op[u]) /\ (InQueue(u) <=> Waits(op[u])))'
  BY <1>3 DEF Fits, Waits
<1> QED BY <1>1, <1>4, <1>5 DEF QueueInv

LEMMA StepFits ==
    ASSUME QueueInv, NEW t \in Threads, NEW step \in Steps \ {"WAIT"}, op[t].kind # "NONE",
           step = "LOCKED" => op[t].kind \in Readers,
           step = "DELETING" => op[t].kind \in Writers,
           step \in {"VERIFIED", "RESERVED", "DOWNLOADED", "SYNCED", "CLEANING"}
              => op[t].kind = "PREFETCH"
    PROVE  LET o == [op[t] EXCEPT !.step = step] IN Fits(o) /\ ~Waits(o)
<1> DEFINE o == [op[t] EXCEPT !.step = step]
<1>1. o \in Operations /\ o.step = step /\ o.kind = op[t].kind
  BY DEF QueueInv, Operations
<1> HIDE DEF o
<1>2. Fits(o) /\ ~Waits(o)
  BY <1>1 DEF Fits, Waits
<1> QED BY <1>2 DEF o

LEMMA HolderQueues ==
    ASSUME QueueInv, NEW t \in Threads,
           Resolve(t) \/ Check(t) \/ Reserve(t) \/ Download(t) \/ Sync(t) \/ Fail(t)
              \/ Activate(t) \/ Clean(t) \/ Delete(t) \/ Deleted(t)
    PROVE  QueueInv' /\ UNCHANGED waiting
<1>1. op[t].step # "WAIT" /\ UNCHANGED waiting /\ Fits(op[t])
  BY DEF Resolve, Check, Reserve, Download, Sync, Fail, Activate, Clean, Delete, Deleted,
         QueueInv
<1>2. op[t].kind # "NONE"
  BY <1>1, IdleIsOperation DEF Fits
<1>3. CASE Ends(t)
  BY <1>1, <1>3, HolderMoves, IdleFits DEF Ends
<1>4. ASSUME NEW step \in {"VERIFIED", "RESERVED", "DOWNLOADED", "SYNCED", "CLEANING"},
             Progress(t, step), op[t].kind = "PREFETCH"
      PROVE  QueueInv'
  <2>1. step \in Steps \ {"WAIT"} /\ step # "LOCKED" /\ step # "DELETING"
    BY DEF Steps
  <2> DEFINE o == [op[t] EXCEPT !.step = step]
  <2>2. Fits(o) /\ ~Waits(o)
    BY <1>2, <1>4, <2>1, StepFits
  <2>3. op' = [op EXCEPT ![t] = o]
    BY <1>4 DEF Progress
  <2> HIDE DEF o
  <2> QED BY <1>1, <2>2, <2>3, HolderMoves
<1>5. ASSUME NEW f \in op[t].left, op[t].step = "DELETING",
             op' = [op EXCEPT ![t].left = @ \ {f}]
      PROVE  QueueInv'
  <2> DEFINE o == [op[t] EXCEPT !.left = op[t].left \ {f}]
  <2>1. op' = [op EXCEPT ![t] = o]
    BY <1>5 DEF QueueInv
  <2>2. o \in Operations /\ o.step = op[t].step /\ o.kind = op[t].kind
    BY DEF QueueInv, Operations
  <2> HIDE DEF o
  <2>3. Fits(o) /\ ~Waits(o)
    BY <1>1, <1>2, <1>5, <2>2 DEF Fits, Waits
  <2> QED BY <1>1, <2>1, <2>3, HolderMoves
<1>6. CASE Resolve(t) \/ Clean(t) \/ Deleted(t)
  BY <1>1, <1>3, <1>6 DEF Resolve, Clean, Deleted
<1>7. CASE Check(t) \/ Reserve(t)
  BY <1>1, <1>3, <1>4, <1>7 DEF Check, Reserve
<1>8. CASE Download(t) \/ Sync(t) \/ Fail(t) \/ Activate(t)
  <2>1. op[t].kind = "PREFETCH"
    BY <1>1, <1>8 DEF Download, Sync, Fail, Activate, Fits
  <2> QED BY <1>1, <1>4, <1>8, <2>1 DEF Download, Sync, Fail, Activate
<1>9. CASE Delete(t)
  BY <1>1, <1>3, <1>5, <1>9 DEF Delete
<1> QED BY <1>1, <1>6, <1>7, <1>8, <1>9

\* A thread that begins goes to the end of the queue.
LEMMA BeginQueues ==
    ASSUME QueueInv, NEW t \in Threads, Begin(t)
    PROVE  /\ QueueInv'
           /\ \A i \in DOMAIN waiting, j \in DOMAIN waiting' :
                 waiting'[j] = waiting[i] => j <= i
<1>1. PICK o \in Operations : op' = [op EXCEPT ![t] = o] /\ o.step = "WAIT" /\ o.kind # "NONE"
  <2>1. CASE \E f \in Files, kind \in Readers :
               op' = [op EXCEPT ![t] = [Idle EXCEPT !.kind = kind, !.file = f]]
    <3>1. PICK f \in Files, kind \in Readers :
               op' = [op EXCEPT ![t] = [Idle EXCEPT !.kind = kind, !.file = f]]
      BY <2>1
    <3> DEFINE o == [Idle EXCEPT !.kind = kind, !.file = f]
    <3>2. o \in Operations /\ o.step = "WAIT" /\ o.kind # "NONE"
      BY DEF Idle, Operations, Steps, Readers
    <3> QED BY <3>1, <3>2
  <2>2. CASE \E keep \in SUBSET Files :
               op' = [op EXCEPT ![t] = [Idle EXCEPT !.kind = "PRUNE", !.keep = keep]]
    <3>1. PICK keep \in SUBSET Files :
               op' = [op EXCEPT ![t] = [Idle EXCEPT !.kind = "PRUNE", !.keep = keep]]
      BY <2>2
    <3> DEFINE o == [Idle EXCEPT !.kind = "PRUNE", !.keep = keep]
    <3>2. o \in Operations /\ o.step = "WAIT" /\ o.kind # "NONE"
      BY DEF Idle, Operations, Steps, Writers
    <3> QED BY <3>1, <3>2
  <2>3. CASE op' = [op EXCEPT ![t] = [Idle EXCEPT !.kind = "REMOVE"]]
    <3> DEFINE o == [Idle EXCEPT !.kind = "REMOVE"]
    <3>1. o \in Operations /\ o.step = "WAIT" /\ o.kind # "NONE"
      BY DEF Idle, Operations, Steps, Writers
    <3> QED BY <2>3, <3>1
  <2> QED BY <2>1, <2>2, <2>3 DEF Begin
<1>2. Fits(o) /\ Waits(o)
  BY <1>1 DEF Fits, Waits, Idle
<1>3. /\ op' \in [Threads -> Operations] /\ op'[t] = o
      /\ \A u \in Threads \ {t} : op'[u] = op[u]
  BY <1>1 DEF QueueInv
<1> DEFINE n == Len(waiting)
<1>4. /\ waiting' = Append(waiting, t) /\ waiting \in Seq(Threads) /\ n \in Nat
      /\ DOMAIN waiting = 1 .. n
  <2>1. waiting' = Append(waiting, t)
    BY Zenon DEF Begin, Queue
  <2>2. waiting \in Seq(Threads)
    BY DEF QueueInv
  <2> QED BY <2>1, <2>2
<1>5. /\ waiting' \in Seq(Threads) /\ DOMAIN waiting' = 1 .. n + 1
      /\ waiting'[n + 1] = t /\ \A i \in 1 .. n : waiting'[i] = waiting[i]
  BY <1>4
<1> HIDE DEF n
<1>6. \A i \in 1 .. n : waiting[i] \in Threads /\ waiting[i] # t
  <2>1. ~InQueue(t)
    BY IdleFits DEF Begin, QueueInv
  <2> QED BY <1>4, <2>1 DEF InQueue
<1>7. (\A u \in Threads : Fits(op[u]) /\ (InQueue(u) <=> Waits(op[u])))'
  <2> SUFFICES ASSUME NEW u \in Threads
               PROVE  Fits(op'[u]) /\ ((\E i \in DOMAIN waiting' : waiting'[i] = u) <=> Waits(op'[u]))
    BY DEF Fits, Waits, InQueue
  <2>1. CASE u = t
    BY <1>2, <1>3, <1>4, <1>5, <2>1
  <2>2. CASE u # t
    <3>1. (\E i \in DOMAIN waiting' : waiting'[i] = u) <=> \E i \in 1 .. n : waiting[i] = u
      BY <1>4, <1>5, <2>2
    <3> QED BY <1>3, <1>4, <2>2, <3>1 DEF QueueInv, InQueue
  <2> QED BY <2>1, <2>2
<1>8. ASSUME NEW i \in 1 .. n + 1, NEW j \in 1 .. n + 1, waiting'[i] = waiting'[j] PROVE i = j
  <2>1. \A k \in 1 .. n + 1 : k = n + 1 \/ k \in 1 .. n
    BY <1>4
  <2> QED BY <1>4, <1>5, <1>6, <1>8, <2>1 DEF QueueInv
<1>9. ASSUME NEW i \in 1 .. n, NEW j \in 1 .. n + 1, waiting'[j] = waiting[i] PROVE j <= i
  <2>1. i \in 1 .. n + 1 /\ waiting'[i] = waiting[i]
    BY <1>4, <1>5
  <2>2. i = j
    BY <1>8, <1>9, <2>1
  <2> QED BY <1>4, <2>2
<1> QED BY <1>3, <1>4, <1>5, <1>7, <1>8, <1>9 DEF QueueInv

\* The head of the queue leaves it, and everybody else moves up.
LEMMA EnterQueues ==
    ASSUME QueueInv, NEW t \in Threads, Enter(t)
    PROVE  /\ QueueInv'
           /\ \A i \in DOMAIN waiting, j \in DOMAIN waiting' :
                 waiting'[j] = waiting[i] => j <= i
<1> DEFINE n == Len(waiting)
<1>1. /\ waiting \in Seq(Threads) /\ n \in Nat /\ DOMAIN waiting = 1 .. n
      /\ n > 0 /\ waiting[1] = t /\ waiting' = Tail(waiting)
  BY DEF Enter, Turn, QueueInv
<1>2. /\ waiting' \in Seq(Threads) /\ DOMAIN waiting' = 1 .. n - 1
      /\ \A i \in 1 .. n - 1 : waiting'[i] = waiting[i + 1] /\ i + 1 \in 1 .. n
  BY <1>1
<1> HIDE DEF n
<1>3. PICK o : op' = [op EXCEPT ![t] = o] /\ Fits(o) /\ ~Waits(o)
  <2>1. Waits(op[t]) /\ Fits(op[t])
    <3>1. InQueue(t)
      BY <1>1 DEF InQueue
    <3> QED BY <3>1 DEF QueueInv
  <2>2. op[t].kind # "NONE" /\ op[t].kind \in Readers \union Writers
    BY <2>1 DEF Waits, Fits, Operations
  <2>3. CASE op[t].kind \in Readers /\ Progress(t, "LOCKED")
    <3> DEFINE o == [op[t] EXCEPT !.step = "LOCKED"]
    <3>1. Fits(o) /\ ~Waits(o)
      BY <2>2, <2>3, StepFits DEF Steps
    <3> QED BY <2>3, <3>1 DEF Progress
  <2>4. CASE /\ op[t].kind \in Writers
             /\ op' = [op EXCEPT ![t].step = "DELETING",
                                 ![t].left = {f \in Files : final[f] # "NONE"} \ op[t].keep]
    <3> DEFINE left == {f \in Files : final[f] # "NONE"} \ op[t].keep
               o == [op[t] EXCEPT !.step = "DELETING", !.left = left]
    <3>1. left \in SUBSET Files /\ op[t] \in Operations
      BY <2>1 DEF Fits
    <3>2. op' = [op EXCEPT ![t] = o]
      BY <2>4 DEF QueueInv, Operations
    <3> HIDE DEF left
    <3>3. o \in Operations /\ o.step = "DELETING" /\ o.kind = op[t].kind
      BY <3>1 DEF Operations, Steps
    <3>4. Fits(o) /\ ~Waits(o)
      BY <2>2, <2>4, <3>3 DEF Fits, Waits
    <3> QED BY <3>2, <3>4
  <2> QED BY <2>2, <2>3, <2>4 DEF Enter
<1>4. /\ op' \in [Threads -> Operations] /\ op'[t] = o
      /\ \A u \in Threads \ {t} : op'[u] = op[u]
  BY <1>3 DEF QueueInv, Fits
<1>5. \A i, j \in 1 .. n : waiting[i] = waiting[j] => i = j
  BY <1>1 DEF QueueInv
<1>6. (\A u \in Threads : Fits(op[u]) /\ (InQueue(u) <=> Waits(op[u])))'
  <2> SUFFICES ASSUME NEW u \in Threads
               PROVE  Fits(op'[u]) /\ ((\E i \in DOMAIN waiting' : waiting'[i] = u) <=> Waits(op'[u]))
    BY DEF Fits, Waits, InQueue
  <2>1. CASE u = t
    <3>1. \A i \in 1 .. n - 1 : waiting'[i] # t
      <4> SUFFICES ASSUME NEW i \in 1 .. n - 1, waiting[i + 1] = t PROVE FALSE
        BY <1>2
      <4>1. i + 1 \in 1 .. n /\ 1 \in 1 .. n /\ i + 1 # 1
        BY <1>1
      <4> QED BY <1>1, <1>5, <4>1
    <3> QED BY <1>2, <1>3, <1>4, <2>1, <3>1
  <2>2. CASE u # t
    <3>1. (\E i \in DOMAIN waiting' : waiting'[i] = u) <=> \E i \in 1 .. n : waiting[i] = u
      <4>1. ASSUME NEW i \in 1 .. n, waiting[i] = u
            PROVE  \E k \in DOMAIN waiting' : waiting'[k] = u
        <5>1. i # 1
          BY <1>1, <2>2, <4>1
        <5>2. i - 1 \in 1 .. n - 1 /\ (i - 1) + 1 = i
          BY <1>1, <5>1
        <5> QED BY <1>2, <4>1, <5>2
      <4> QED BY <1>2, <4>1
    <3> QED BY <1>1, <1>4, <2>2, <3>1 DEF QueueInv, InQueue
  <2> QED BY <2>1, <2>2
<1>7. ASSUME NEW i \in 1 .. n - 1, NEW j \in 1 .. n - 1, waiting'[i] = waiting'[j] PROVE i = j
  <2>1. i + 1 = j + 1
    BY <1>2, <1>5, <1>7
  <2> QED BY <1>1, <2>1
<1>8. ASSUME NEW i \in 1 .. n, NEW j \in 1 .. n - 1, waiting'[j] = waiting[i] PROVE j <= i
  <2>1. j + 1 = i
    BY <1>2, <1>5, <1>8
  <2> QED BY <1>1, <2>1
<1> QED BY <1>1, <1>2, <1>4, <1>6, <1>7, <1>8 DEF QueueInv

LEMMA NothingQueued ==
    ASSUME op = [t \in Threads |-> Idle], waiting = <<>> PROVE QueueInv
BY IdleFits, IdleIsOperation DEF QueueInv, InQueue

LEMMA QueueStep ==
    QueueInv /\ [CacheNext]_cacheVars
        => /\ QueueInv'
           /\ \A i \in DOMAIN waiting, j \in DOMAIN waiting' :
                 waiting'[j] = waiting[i] => j <= i
<1> SUFFICES ASSUME QueueInv, [CacheNext]_cacheVars
             PROVE  /\ QueueInv'
                    /\ \A i \in DOMAIN waiting, j \in DOMAIN waiting' :
                          waiting'[j] = waiting[i] => j <= i
  OBVIOUS
<1>1. ASSUME UNCHANGED waiting, NEW i \in DOMAIN waiting, NEW j \in DOMAIN waiting',
             waiting'[j] = waiting[i]
      PROVE  j <= i
  <2>1. i = j /\ i \in Nat
    BY <1>1 DEF QueueInv
  <2> QED BY <2>1
<1>2. ASSUME NEW t \in Threads, Begin(t) \/ Enter(t)
      PROVE  /\ QueueInv'
             /\ \A i \in DOMAIN waiting, j \in DOMAIN waiting' :
                   waiting'[j] = waiting[i] => j <= i
  BY <1>2, BeginQueues, EnterQueues
<1>3. ASSUME NEW t \in Threads, Work(t) PROVE Enter(t) \/ (QueueInv' /\ UNCHANGED waiting)
  BY <1>3, HolderQueues DEF Work
<1>4. ASSUME NEW powerLoss \in BOOLEAN, Die(powerLoss) PROVE QueueInv' /\ DOMAIN waiting' = {}
  <2>1. op' = [t \in Threads |-> Idle] /\ waiting' = <<>>
    BY <1>4 DEF Die
  <2> QED BY <2>1, IdleFits, IdleIsOperation DEF QueueInv, InQueue, Fits, Waits
<1>5. ASSUME UNCHANGED <<op, waiting>> PROVE QueueInv'
  BY <1>5 DEF QueueInv, InQueue, Fits, Waits
<1>6. ASSUME NEW f \in Files, Rot(f) PROVE UNCHANGED <<op, waiting>>
  BY <1>6 DEF Rot
<1> QED BY <1>1, <1>2, <1>3, <1>4, <1>5, <1>6 DEF CacheNext, cacheVars

LEMMA QueueAlways == CacheSpec => []QueueInv
<1>1. CacheInit => QueueInv
  BY NothingQueued DEF CacheInit
<1>2. QueueInv /\ [CacheNext]_cacheVars => QueueInv'
  BY QueueStep
<1> QED BY <1>1, <1>2, PTL DEF CacheSpec

\* Who holds the lifecycle lock waits for an asset lock at most, and who holds
\* that does not wait; if nobody holds the lifecycle lock, the head of the queue
\* gets it.
LEMMA QueueGoesOn == QueueInv => SomeThreadGoesOn
<1> SUFFICES ASSUME QueueInv, NEW t \in Threads, op[t] # Idle
             PROVE  \E u \in Threads : CanGoOn(u)
  BY DEF SomeThreadGoesOn
<1>0. \A u \in Threads : Fits(op[u]) /\ op[u].step \in Steps
  BY DEF QueueInv, Operations
<1>1. CASE \E u \in Threads : Active(u) /\ op[u].step # "LOCKED"
  <2>1. PICK u \in Threads : Active(u) /\ op[u].step # "LOCKED"
    BY <1>1
  <2> QED BY <1>0, <2>1 DEF CanGoOn, Active, Fits, Steps
<1>2. CASE /\ \A u \in Threads : Active(u) => op[u].step = "LOCKED"
           /\ \E u \in Threads : Active(u)
  <2>1. PICK u \in Threads : Active(u)
    BY <1>2
  <2>2. op[u].step = "LOCKED" /\ op[u].kind \in Readers
    BY <1>0, <1>2, <2>1 DEF Fits
  <2>3. AssetFree(u)
    BY <1>2 DEF AssetFree
  <2> QED BY <2>2, <2>3 DEF CanGoOn
<1>3. CASE \A u \in Threads : ~Active(u)
  <2>1. Waits(op[t])
    BY <1>3 DEF Active, Waits
  <2>2. InQueue(t)
    BY <2>1 DEF QueueInv
  <2>3. waiting \in Seq(Threads) /\ waiting # <<>> /\ 1 \in DOMAIN waiting
    BY <2>2 DEF QueueInv, InQueue
  <2>4. PICK u \in Threads : u = waiting[1]
    BY <2>3
  <2>5. Turn(u) /\ Waits(op[u])
    BY <2>3, <2>4 DEF Turn, QueueInv, InQueue
  <2>6. Grantable(u)
    BY <1>3 DEF Grantable
  <2> QED BY <2>5, <2>6 DEF CanGoOn
<1> QED BY <1>1, <1>2, <1>3

\* However many downloads, resolves, prunes and removals run together, for any
\* sharing of the asset locks: some thread holds every lock it needs, so that
\* they never wait for each other (lifecycleLock, then assetLocks).
THEOREM SomeThreadAlwaysGoesOn == CacheSpec => []SomeThreadGoesOn
BY QueueAlways, QueueGoesOn, PTL

\* Nobody who comes later enters before a thread that waits for the lifecycle
\* lock: a prune is not put off by downloads (lifecycleLock, which is fair).
THEOREM WaitersNeverOvertaken == CacheSpec => NeverOvertaken
<1>1. QueueInv /\ [CacheNext]_cacheVars
         => [\A i \in DOMAIN waiting, j \in DOMAIN waiting' :
                waiting'[j] = waiting[i] => j <= i]_cacheVars
  BY QueueStep
<1> QED BY <1>1, QueueAlways, PTL DEF CacheSpec, NeverOvertaken

-----------------------------------------------------------------------------
(* Reservations and space. *)

Owing == {"RESERVED", "DOWNLOADED", "SYNCED", "CLEANING"}
Doing(o, S) == {u \in Threads : o[u].step \in S}
Filled(X, c) == {x \in X : c[x] # "NONE"}

\* A thread has a temporary file from its download to its clean-up.
Written(o, c) ==
    \A t \in Threads :
       /\ o[t].step \in {"DOWNLOADED", "SYNCED"} => c[t] # "NONE"
       /\ o[t].step \notin {"DOWNLOADED", "SYNCED", "CLEANING"} => c[t] = "NONE"

\* Every download that was let in has its unit: reserved, being written, or full.
Balanced ==
    /\ litter \in Nat
    /\ Written(op, parts)
    /\ reserved = Cardinality(Doing(op, Owing))
    /\ Cardinality(Filled(Files, final)) + Cardinality(Filled(Threads, parts)) + litter
       + Cardinality(Doing(op, {"RESERVED"})) <= Capacity

\* The sizes of two finite sets that differ in x at most.
LEMMA DifferInOne ==
    ASSUME NEW A, NEW B, NEW x, IsFiniteSet(A), A \ {x} = B \ {x}
    PROVE  /\ Cardinality(A) \in Nat /\ Cardinality(B) \in Nat
           /\ (x \in A <=> x \in B) => Cardinality(B) = Cardinality(A)
           /\ (x \notin A /\ x \in B) => Cardinality(B) = Cardinality(A) + 1
           /\ (x \in A /\ x \notin B) => Cardinality(B) = Cardinality(A) - 1
<1>1. CASE x \in A <=> x \in B
  <2>1. A = B
    BY <1>1
  <2> QED BY <1>1, <2>1, FS_CardinalityType
<1>2. CASE x \notin A /\ x \in B
  <2>1. B = A \union {x}
    BY <1>2
  <2>2. IsFiniteSet(B) /\ Cardinality(B) = Cardinality(A) + 1
    BY <1>2, <2>1, FS_AddElement
  <2> QED BY <1>2, <2>2, FS_CardinalityType
<1>3. CASE x \in A /\ x \notin B
  <2>1. B = A \ {x}
    BY <1>3
  <2>2. IsFiniteSet(B) /\ Cardinality(B) = Cardinality(A) - 1
    BY <1>3, <2>1, FS_RemoveElement
  <2> QED BY <1>3, <2>2, FS_CardinalityType
<1> QED BY <1>1, <1>2, <1>3

AgreeBut(X, p, q, x) == x \in X /\ \A y \in X \ {x} : q[y] = p[y]

LEMMA FilledMoves ==
    ASSUME NEW X, NEW c, NEW d, NEW x, IsFiniteSet(X), AgreeBut(X, c, d, x)
    PROVE  /\ Cardinality(Filled(X, c)) \in Nat /\ Cardinality(Filled(X, d)) \in Nat
           /\ (c[x] # "NONE" <=> d[x] # "NONE")
                 => Cardinality(Filled(X, d)) = Cardinality(Filled(X, c))
           /\ (c[x] = "NONE" /\ d[x] # "NONE")
                 => Cardinality(Filled(X, d)) = Cardinality(Filled(X, c)) + 1
           /\ (c[x] # "NONE" /\ d[x] = "NONE")
                 => Cardinality(Filled(X, d)) = Cardinality(Filled(X, c)) - 1
<1>1. Filled(X, c) \subseteq X /\ Filled(X, c) \ {x} = Filled(X, d) \ {x}
  BY DEF Filled, AgreeBut
<1>2. (x \in Filled(X, c) <=> c[x] # "NONE") /\ (x \in Filled(X, d) <=> d[x] # "NONE")
  BY DEF Filled, AgreeBut
<1>3. IsFiniteSet(Filled(X, c))
  BY <1>1, FS_Subset
<1> QED BY <1>1, <1>2, <1>3, DifferInOne

LEMMA DoingMoves ==
    ASSUME NEW p, NEW q, NEW t, NEW S, AgreeBut(Threads, p, q, t)
    PROVE  /\ Cardinality(Doing(p, S)) \in Nat /\ Cardinality(Doing(q, S)) \in Nat
           /\ (t \in Doing(p, S) <=> t \in Doing(q, S))
                 => Cardinality(Doing(q, S)) = Cardinality(Doing(p, S))
           /\ (t \notin Doing(p, S) /\ t \in Doing(q, S))
                 => Cardinality(Doing(q, S)) = Cardinality(Doing(p, S)) + 1
           /\ (t \in Doing(p, S) /\ t \notin Doing(q, S))
                 => Cardinality(Doing(q, S)) = Cardinality(Doing(p, S)) - 1
<1>1. Doing(p, S) \subseteq Threads /\ Doing(p, S) \ {t} = Doing(q, S) \ {t}
  BY DEF Doing, AgreeBut
<1>2. IsFiniteSet(Doing(p, S))
  BY <1>1, CacheAssumption, FS_Subset DEF CacheAssumption
<1> QED BY <1>1, <1>2, DifferInOne

LEMMA MovesOne ==
    ASSUME OperationsOK, NEW t \in Threads, NEW steps, Moves(t, steps)
    PROVE  AgreeBut(Threads, op, op', t) /\ op'[t].step \in steps
BY DEF OperationsOK, Moves, AgreeBut

\* The counts of any state are numbers.
LEMMA Counts ==
    ASSUME SyncedBeforeRename
    PROVE  /\ IsFiniteSet(Filled(Files, final)) /\ Cardinality(Filled(Files, final)) \in Nat
           /\ Cardinality(Filled(Threads, parts)) \in Nat
           /\ Cardinality(Doing(op, Owing)) \in Nat /\ Cardinality(Doing(op, {"RESERVED"})) \in Nat
           /\ Cardinality(Doing(op, {"RESERVED"})) <= Cardinality(Doing(op, Owing))
<1>0. IsFiniteSet(Threads) /\ IsFiniteSet(Files)
  BY CacheAssumption DEF CacheAssumption
<1>1. /\ Filled(Files, final) \subseteq Files /\ Filled(Threads, parts) \subseteq Threads
      /\ Doing(op, Owing) \subseteq Threads /\ Doing(op, {"RESERVED"}) \subseteq Doing(op, Owing)
  BY DEF Filled, Doing, Owing
<1>2. /\ IsFiniteSet(Filled(Files, final)) /\ IsFiniteSet(Filled(Threads, parts))
      /\ IsFiniteSet(Doing(op, Owing))
  BY <1>0, <1>1, FS_Subset
<1>3. /\ IsFiniteSet(Doing(op, {"RESERVED"}))
      /\ Cardinality(Doing(op, {"RESERVED"})) <= Cardinality(Doing(op, Owing))
  BY <1>1, <1>2, FS_Subset
<1> QED BY <1>2, <1>3, FS_CardinalityType

LEMMA SyncedTypes ==
    ASSUME SyncedBeforeRename
    PROVE  /\ OperationsOK
           /\ final \in [Files -> Contents] /\ parts \in [Threads -> Contents]
           /\ IsFiniteSet(Threads) /\ IsFiniteSet(Files) /\ Capacity \in Nat
BY CacheAssumption DEF SyncedBeforeRename, CacheAssumption

\* Of the steps that neither enter nor leave a download: nothing but files and
\* litter may become fewer.
LEMMA NothingOwed ==
    ASSUME SyncedBeforeRename, Balanced, NEW t \in Threads, op[t].step \notin Owing,
           Moves(t, Steps \ Owing), UNCHANGED <<parts, reserved>>,
           Filled(Files, final') \subseteq Filled(Files, final),
           litter' \in Nat, litter' <= litter
    PROVE  Balanced'
<1>1. AgreeBut(Threads, op, op', t) /\ op'[t].step \notin Owing
  BY SyncedTypes, MovesOne
<1>2. Written(op', parts')
  BY <1>1 DEF Balanced, Written, AgreeBut, Owing
<1>3. /\ t \notin Doing(op, Owing) /\ t \notin Doing(op', Owing)
      /\ t \notin Doing(op, {"RESERVED"}) /\ t \notin Doing(op', {"RESERVED"})
  BY <1>1 DEF Doing, Owing
<1>4. Cardinality(Doing(op', Owing)) = Cardinality(Doing(op, Owing))
  BY <1>1, <1>3, DoingMoves
<1>5. Cardinality(Doing(op', {"RESERVED"})) = Cardinality(Doing(op, {"RESERVED"}))
  BY <1>1, <1>3, DoingMoves
<1>6. /\ Cardinality(Filled(Files, final')) \in Nat
      /\ Cardinality(Filled(Files, final')) <= Cardinality(Filled(Files, final))
  BY Counts, FS_Subset, FS_CardinalityType
<1> QED BY <1>2, <1>4, <1>5, <1>6, Counts, SyncedTypes DEF Balanced

LEMMA ReserveBalances ==
    ASSUME SyncedBeforeRename, Balanced, NEW t \in Threads, Reserve(t) PROVE Balanced'
<1>0. op[t].step = "VERIFIED" /\ {"WAIT"} \subseteq Steps \ Owing
  BY DEF Reserve, Owing, Steps
<1>1. CASE Ends(t) /\ UNCHANGED reserved
  <2>1. Moves(t, Steps \ Owing)
    BY <1>0, <1>1, EndsMoves, MovesMore
  <2>2. op[t].step \notin Owing /\ UNCHANGED <<final, parts, litter>>
    BY <1>0 DEF Owing, Reserve
  <2>3. UNCHANGED reserved /\ litter \in Nat
    BY <1>1 DEF Balanced
  <2>4. Filled(Files, final') \subseteq Filled(Files, final) /\ litter' \in Nat /\ litter' <= litter
    BY <2>2, <2>3
  <2> QED BY <2>1, <2>2, <2>3, <2>4, NothingOwed
<1>2. CASE Used + reserved < Capacity /\ reserved' = reserved + 1 /\ Progress(t, "RESERVED")
  <2>1. AgreeBut(Threads, op, op', t) /\ op'[t].step = "RESERVED"
    BY <1>2, ProgressMoves, MovesOne, SyncedTypes DEF Steps
  <2>2. /\ t \notin Doing(op, Owing) /\ t \in Doing(op', Owing)
        /\ t \notin Doing(op, {"RESERVED"}) /\ t \in Doing(op', {"RESERVED"})
    BY <1>0, <2>1 DEF Doing, Owing
  <2>3. /\ Cardinality(Doing(op', Owing)) = Cardinality(Doing(op, Owing)) + 1
        /\ Cardinality(Doing(op', {"RESERVED"})) = Cardinality(Doing(op, {"RESERVED"})) + 1
    BY <2>1, <2>2, DoingMoves
  <2>4. Used = Cardinality(Filled(Files, final)) + Cardinality(Filled(Threads, parts)) + litter
    BY DEF Used, Filled
  <2>5. UNCHANGED <<final, parts, litter>>
    BY DEF Reserve
  <2>6. Written(op', parts')
    BY <1>0, <2>1, <2>5 DEF Balanced, Written, AgreeBut
  <2> QED BY <1>2, <2>3, <2>4, <2>5, <2>6, Counts, SyncedTypes DEF Balanced
<1> QED BY <1>1, <1>2 DEF Reserve

LEMMA DownloadBalances ==
    ASSUME SyncedBeforeRename, Balanced, NEW t \in Threads, Download(t) PROVE Balanced'
<1>0. op[t].step = "RESERVED" /\ parts[t] = "NONE"
  BY DEF Download, Balanced, Written
<1>1. AgreeBut(Threads, op, op', t) /\ op'[t].step = "DOWNLOADED"
  BY ProgressMoves, MovesOne, SyncedTypes DEF Download, Steps
<1>2. t \in Doing(op, Owing) /\ t \in Doing(op', Owing)
      /\ t \in Doing(op, {"RESERVED"}) /\ t \notin Doing(op', {"RESERVED"})
  BY <1>0, <1>1 DEF Doing, Owing
<1>3. /\ Cardinality(Doing(op', Owing)) = Cardinality(Doing(op, Owing))
      /\ Cardinality(Doing(op', {"RESERVED"})) = Cardinality(Doing(op, {"RESERVED"})) - 1
  BY <1>1, <1>2, DoingMoves
<1>4. parts' = [parts EXCEPT ![t] = "TORN"] /\ UNCHANGED <<final, litter, reserved>>
  BY DEF Download
<1>5. AgreeBut(Threads, parts, parts', t) /\ parts'[t] # "NONE"
  BY <1>4, SyncedTypes DEF AgreeBut
<1>6. Cardinality(Filled(Threads, parts')) = Cardinality(Filled(Threads, parts)) + 1
  BY <1>0, <1>5, SyncedTypes, FilledMoves
<1>7. Written(op', parts')
  BY <1>1, <1>5 DEF Balanced, Written, AgreeBut
<1> QED BY <1>3, <1>4, <1>6, <1>7, Counts, SyncedTypes DEF Balanced

LEMMA SyncBalances ==
    ASSUME SyncedBeforeRename, Balanced, NEW t \in Threads, Sync(t) PROVE Balanced'
<1>0. op[t].step = "DOWNLOADED" /\ parts[t] # "NONE"
  BY DEF Sync, Balanced, Written
<1>1. AgreeBut(Threads, op, op', t) /\ op'[t].step = "SYNCED"
  BY ProgressMoves, MovesOne, SyncedTypes DEF Sync, Steps
<1>2. t \in Doing(op, Owing) /\ t \in Doing(op', Owing)
      /\ t \notin Doing(op, {"RESERVED"}) /\ t \notin Doing(op', {"RESERVED"})
  BY <1>0, <1>1 DEF Doing, Owing
<1>3. /\ Cardinality(Doing(op', Owing)) = Cardinality(Doing(op, Owing))
      /\ Cardinality(Doing(op', {"RESERVED"})) = Cardinality(Doing(op, {"RESERVED"}))
  BY <1>1, <1>2, DoingMoves
<1>4. parts' = [parts EXCEPT ![t] = "GOOD"] /\ UNCHANGED <<final, litter, reserved>>
  BY DEF Sync
<1>5. AgreeBut(Threads, parts, parts', t) /\ parts'[t] # "NONE"
  BY <1>4, SyncedTypes DEF AgreeBut
<1>6. Cardinality(Filled(Threads, parts')) = Cardinality(Filled(Threads, parts))
  BY <1>0, <1>5, SyncedTypes, FilledMoves
<1>7. Written(op', parts')
  BY <1>1, <1>5 DEF Balanced, Written, AgreeBut
<1> QED BY <1>3, <1>4, <1>6, <1>7, Counts, SyncedTypes DEF Balanced

\* A failure gives up at most the place the download had reserved.
LEMMA FailBalances ==
    ASSUME SyncedBeforeRename, Balanced, NEW t \in Threads, Fail(t) PROVE Balanced'
<1>1. AgreeBut(Threads, op, op', t) /\ op'[t].step = "CLEANING"
  BY ProgressMoves, MovesOne, SyncedTypes DEF Fail, Steps
<1>2. t \in Doing(op, Owing) /\ t \in Doing(op', Owing) /\ t \notin Doing(op', {"RESERVED"})
  BY <1>1 DEF Doing, Owing, Fail
<1>3. Cardinality(Doing(op', Owing)) = Cardinality(Doing(op, Owing))
  BY <1>1, <1>2, DoingMoves
<1>4. /\ Cardinality(Doing(op', {"RESERVED"})) \in Nat
      /\ \/ Cardinality(Doing(op', {"RESERVED"})) = Cardinality(Doing(op, {"RESERVED"}))
         \/ Cardinality(Doing(op', {"RESERVED"})) = Cardinality(Doing(op, {"RESERVED"})) - 1
  <2>1. CASE t \in Doing(op, {"RESERVED"})
    BY <1>1, <1>2, <2>1, DoingMoves
  <2>2. CASE t \notin Doing(op, {"RESERVED"})
    BY <1>1, <1>2, <2>2, DoingMoves
  <2> QED BY <2>1, <2>2
<1>5. UNCHANGED <<final, parts, litter, reserved>>
  BY DEF Fail
<1>6. Written(op', parts')
  BY <1>1, <1>5 DEF Balanced, Written, AgreeBut
<1> QED BY <1>3, <1>4, <1>5, <1>6, Counts, SyncedTypes DEF Balanced

\* The unit moves from the temporary file to the final name, or replaces what was there.
LEMMA ActivateBalances ==
    ASSUME SyncedBeforeRename, Balanced, NEW t \in Threads, Activate(t) PROVE Balanced'
<1>0. op[t].step = "SYNCED" /\ parts[t] # "NONE"
  BY DEF Activate, Balanced, Written
<1>1. AgreeBut(Threads, op, op', t) /\ op'[t].step = "CLEANING"
  BY ProgressMoves, MovesOne, SyncedTypes DEF Activate, Steps
<1>2. t \in Doing(op, Owing) /\ t \in Doing(op', Owing)
      /\ t \notin Doing(op, {"RESERVED"}) /\ t \notin Doing(op', {"RESERVED"})
  BY <1>0, <1>1 DEF Doing, Owing
<1>3. /\ Cardinality(Doing(op', Owing)) = Cardinality(Doing(op, Owing))
      /\ Cardinality(Doing(op', {"RESERVED"})) = Cardinality(Doing(op, {"RESERVED"}))
  BY <1>1, <1>2, DoingMoves
<1>4. /\ parts' = [parts EXCEPT ![t] = "NONE"] /\ UNCHANGED <<litter, reserved>>
      /\ final' = [final EXCEPT ![op[t].file] = parts[t]]
  BY DEF Activate
<1>5. AgreeBut(Threads, parts, parts', t) /\ parts'[t] = "NONE"
  BY <1>4, SyncedTypes DEF AgreeBut
<1>6. Cardinality(Filled(Threads, parts')) = Cardinality(Filled(Threads, parts)) - 1
  BY <1>0, <1>5, SyncedTypes, FilledMoves
<1>7. /\ Cardinality(Filled(Files, final')) \in Nat
      /\ Cardinality(Filled(Files, final')) <= Cardinality(Filled(Files, final)) + 1
  <2>1. CASE op[t].file \in Files
    <3>1. AgreeBut(Files, final, final', op[t].file) /\ final'[op[t].file] # "NONE"
      BY <1>0, <1>4, <2>1, SyncedTypes DEF AgreeBut
    <3> QED BY <3>1, SyncedTypes, FilledMoves
  <2>2. CASE op[t].file \notin Files
    <3>1. final' = final
      BY <1>4, <2>2, SyncedTypes
    <3> QED BY <3>1, Counts
  <2> QED BY <2>1, <2>2
<1>8. Written(op', parts')
  BY <1>1, <1>5 DEF Balanced, Written, AgreeBut
<1> QED BY <1>3, <1>4, <1>6, <1>7, <1>8, Counts, SyncedTypes DEF Balanced

\* The file is deleted or becomes litter, and the reservation is given back.
LEMMA CleanBalances ==
    ASSUME SyncedBeforeRename, Balanced, NEW t \in Threads, Clean(t) PROVE Balanced'
<1>0. op[t].step = "CLEANING"
  BY DEF Clean
<1>1. AgreeBut(Threads, op, op', t) /\ op'[t].step = "WAIT"
  BY EndsMoves, MovesOne, SyncedTypes DEF Clean
<1>2. t \in Doing(op, Owing) /\ t \notin Doing(op', Owing)
      /\ t \notin Doing(op, {"RESERVED"}) /\ t \notin Doing(op', {"RESERVED"})
  BY <1>0, <1>1 DEF Doing, Owing
<1>3. /\ Cardinality(Doing(op', Owing)) \in Nat
      /\ Cardinality(Doing(op', Owing)) = Cardinality(Doing(op, Owing)) - 1
      /\ Cardinality(Doing(op', {"RESERVED"})) = Cardinality(Doing(op, {"RESERVED"}))
  BY <1>1, <1>2, DoingMoves
<1>4. parts' = [parts EXCEPT ![t] = "NONE"] /\ UNCHANGED final
  BY DEF Clean
<1>5. AgreeBut(Threads, parts, parts', t) /\ parts'[t] = "NONE"
  BY <1>4, SyncedTypes DEF AgreeBut
<1>6. Written(op', parts')
  BY <1>1, <1>5 DEF Balanced, Written, AgreeBut
<1>7. reserved' = Cardinality(Doing(op', Owing))
  BY <1>3, Counts DEF Clean, Release, Balanced
<1>8. CASE parts[t] = "NONE"
  <2>1. Cardinality(Filled(Threads, parts')) = Cardinality(Filled(Threads, parts))
    BY <1>5, <1>8, SyncedTypes, FilledMoves
  <2>2. litter' = litter
    BY <1>8 DEF Clean
  <2> QED BY <1>3, <1>4, <1>6, <1>7, <2>1, <2>2, Counts, SyncedTypes DEF Balanced
<1>9. CASE parts[t] # "NONE"
  <2>1. Cardinality(Filled(Threads, parts')) = Cardinality(Filled(Threads, parts)) - 1
    BY <1>5, <1>9, SyncedTypes, FilledMoves
  <2>2. litter' \in {litter, litter + 1}
    BY <1>9 DEF Clean
  <2> QED BY <1>3, <1>4, <1>6, <1>7, <2>1, <2>2, Counts, SyncedTypes DEF Balanced
<1> QED BY <1>8, <1>9

\* A deletion leaves fewer files, and a removal no litter.
LEMMA DeletionBalances ==
    ASSUME SyncedBeforeRename, Balanced, NEW t \in Threads, Delete(t) \/ Deleted(t)
    PROVE  Balanced'
<1>0. op[t].step = "DELETING" /\ op[t].step \notin Owing
      /\ {"WAIT"} \subseteq Steps \ Owing /\ {"DELETING", "WAIT"} \subseteq Steps \ Owing
  BY DEF Delete, Deleted, Owing, Steps
<1>1. litter \in Nat
  BY DEF Balanced
<1>2. CASE Delete(t)
  <2>1. UNCHANGED <<parts, reserved, litter>>
    BY <1>2 DEF Delete
  <2>2. Moves(t, Steps \ Owing)
    BY <1>0, <1>2, SyncedTypes, DeleteMoves, MovesMore
  <2>3. UNCHANGED final \/ \E f \in Files : final' = [final EXCEPT ![f] = "NONE"]
    BY <1>2, SyncedTypes, DeleteMoves
  <2>4. Filled(Files, final') \subseteq Filled(Files, final)
    BY <2>3, SyncedTypes DEF Filled
  <2>5. litter' \in Nat /\ litter' <= litter
    BY <1>1, <2>1
  <2> QED BY <1>0, <2>1, <2>2, <2>4, <2>5, NothingOwed
<1>3. CASE Deleted(t)
  <2>1. UNCHANGED <<parts, reserved>> /\ Filled(Files, final') \subseteq Filled(Files, final)
    BY <1>3 DEF Deleted
  <2>2. Moves(t, Steps \ Owing)
    BY <1>0, <1>3, EndsMoves, MovesMore DEF Deleted
  <2>3. litter' \in {0, litter}
    BY <1>3 DEF Deleted
  <2>4. litter' \in Nat /\ litter' <= litter
    BY <1>1, <2>3
  <2> QED BY <1>0, <2>1, <2>2, <2>4, NothingOwed
<1> QED BY <1>2, <1>3

\* An operation that begins, waits, enters, hands a file out or needs no download.
LEMMA QuietBalances ==
    ASSUME SyncedBeforeRename, Balanced, NEW t \in Threads,
           Begin(t) \/ Enter(t) \/ Resolve(t) \/ Check(t)
    PROVE  Balanced'
<1>0. /\ {"WAIT"} \subseteq Steps \ Owing /\ {"LOCKED", "DELETING"} \subseteq Steps \ Owing
      /\ "VERIFIED" \in Steps /\ {"VERIFIED"} \subseteq Steps \ Owing
  BY DEF Owing, Steps
<1>1. UNCHANGED <<final, parts, litter, reserved>>
  BY DEF Begin, Enter, Resolve, Check
<1>2. op[t].step \in {"WAIT", "LOCKED"}
  BY BeginMoves DEF Enter, Resolve, Check
<1>3. op[t].step \notin Owing
  BY <1>2 DEF Owing
<1>4. Moves(t, Steps \ Owing)
  <2>1. CASE Begin(t)
    BY <1>0, <2>1, BeginMoves, MovesMore
  <2>2. CASE Enter(t)
    BY <1>0, <2>2, SyncedTypes, EnterMoves, MovesMore
  <2>3. CASE Ends(t)
    BY <1>0, <2>3, EndsMoves, MovesMore
  <2>4. CASE Progress(t, "VERIFIED")
    <3>1. Moves(t, {"VERIFIED"})
      BY <1>0, <2>4, SyncedTypes, ProgressMoves
    <3> QED BY <1>0, <3>1, MovesMore
  <2> QED BY <2>1, <2>2, <2>3, <2>4 DEF Resolve, Check
<1>5. litter' \in Nat /\ litter' <= litter
      /\ Filled(Files, final') \subseteq Filled(Files, final)
  BY <1>1 DEF Balanced
<1> QED BY <1>1, <1>3, <1>4, <1>5, NothingOwed

\* Where no thread is at work, nothing is reserved or half written.
LEMMA NobodyDoing ==
    ASSUME NEW p, NEW c, p = [t \in Threads |-> Idle], c = [t \in Threads |-> "NONE"]
    PROVE  /\ Written(p, c)
           /\ Cardinality(Doing(p, Owing)) = 0 /\ Cardinality(Doing(p, {"RESERVED"})) = 0
           /\ Cardinality(Filled(Threads, c)) = 0
<1>1. Written(p, c)
  BY IdleIsOperation DEF Written
<1>2. Doing(p, Owing) = {} /\ Doing(p, {"RESERVED"}) = {} /\ Filled(Threads, c) = {}
  BY IdleIsOperation DEF Doing, Owing, Filled
<1> QED BY <1>1, <1>2, FS_EmptySet

LEMMA InitBalanced == CacheInit => Balanced
<1> SUFFICES ASSUME CacheInit PROVE Balanced
  OBVIOUS
<1>1. op = [t \in Threads |-> Idle] /\ parts = [t \in Threads |-> "NONE"]
      /\ litter = 0 /\ reserved = 0
  BY DEF CacheInit
<1>2. Filled(Files, final) = {}
  BY DEF CacheInit, Filled
<1>3. Cardinality(Filled(Files, final)) = 0
  BY <1>2, FS_EmptySet
<1>4. Capacity \in Nat
  BY CacheAssumption DEF CacheAssumption
<1> QED BY <1>1, <1>3, <1>4, NobodyDoing DEF Balanced

LEMMA DieBalances ==
    ASSUME SyncedBeforeRename, Balanced, NEW powerLoss \in BOOLEAN, Die(powerLoss)
    PROVE  Balanced'
<1>1. op' = [t \in Threads |-> Idle] /\ parts' = [t \in Threads |-> "NONE"]
      /\ litter' = 0 /\ reserved' = 0
  BY DEF Die
<1>2. Filled(Files, final') = Filled(Files, final)
  BY DEF Die, Filled
<1> QED BY <1>1, <1>2, NobodyDoing, Counts, SyncedTypes DEF Balanced

LEMMA RotBalances ==
    ASSUME SyncedBeforeRename, Balanced, NEW f \in Files, Rot(f) PROVE Balanced'
<1>1. UNCHANGED <<parts, litter, op, reserved>>
  BY DEF Rot
<1>2. Filled(Files, final') = Filled(Files, final)
  BY SyncedTypes DEF Rot, Filled
<1> QED BY <1>1, <1>2 DEF Balanced

LEMMA BalanceStep ==
    SyncedBeforeRename /\ Balanced /\ [CacheNext]_cacheVars => Balanced'
<1> SUFFICES ASSUME SyncedBeforeRename, Balanced, [CacheNext]_cacheVars PROVE Balanced'
  OBVIOUS
<1>1. ASSUME NEW t \in Threads, Begin(t) \/ Work(t) PROVE Balanced'
  BY <1>1, QuietBalances, ReserveBalances, DownloadBalances, SyncBalances, FailBalances,
     ActivateBalances, CleanBalances, DeletionBalances DEF Work
<1>2. ASSUME NEW powerLoss \in BOOLEAN, Die(powerLoss) PROVE Balanced'
  BY <1>2, DieBalances
<1>3. ASSUME NEW f \in Files, Rot(f) PROVE Balanced'
  BY <1>3, RotBalances
<1>4. CASE UNCHANGED cacheVars
  BY <1>4 DEF cacheVars, Balanced
<1> QED BY <1>1, <1>2, <1>3, <1>4 DEF CacheNext

LEMMA BalancedReservations ==
    SyncedBeforeRename /\ Balanced => ReservationsBalance
<1> SUFFICES ASSUME SyncedBeforeRename, Balanced PROVE ReservationsBalance
  OBVIOUS
<1>1. reserved = Cardinality({t \in Threads :
          op[t].step \in {"RESERVED", "DOWNLOADED", "SYNCED", "CLEANING"}})
  BY DEF Balanced, Doing, Owing
<1>2. Used = Cardinality(Filled(Files, final)) + Cardinality(Filled(Threads, parts)) + litter
  BY DEF Used, Filled
<1>3. Used <= Capacity
  BY <1>2, Counts, SyncedTypes DEF Balanced
<1> QED BY <1>1, <1>3 DEF ReservationsBalance

\* Whatever fails, is refused, decays or dies, in any interleaving of any number of
\* threads: what is reserved is what downloads under way hold, and the storage they
\* were let into is never overrun.
THEOREM ReservationsAlwaysBalance == CacheSpec => []ReservationsBalance
<1>1. CacheInit => SyncedBeforeRename /\ Balanced
  BY InitSynced, InitBalanced
<1>2. (SyncedBeforeRename /\ Balanced) /\ [CacheNext]_cacheVars
         => (SyncedBeforeRename /\ Balanced)'
  BY SyncedStep, BalanceStep
<1> QED BY <1>1, <1>2, BalancedReservations, PTL DEF CacheSpec
=============================================================================
