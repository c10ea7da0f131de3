------------------------------ MODULE MediaCache ------------------------------
(***************************************************************************)
(* MediaCacheStore: content-addressed media files, downloaded, verified,     *)
(* resolved, pruned and removed by the two threads of the plugin's executor. *)
(*                                                                         *)
(* A fair read-write lock separates prefetch and resolve (readers) from      *)
(* prune and removal (writers); readers of one file also take turns on one   *)
(* of a fixed number of locks, which two files may share.  The process may   *)
(* die between any two steps, and the device may lose power: what was not    *)
(* synced is then torn.                                                      *)
(*                                                                         *)
(* Abstractions: every file has the size of one unit; the bytes of a file    *)
(* are good, torn (not synced yet) or bad; a file that was good may rot.     *)
(* Network errors, deadlines, wrong sizes, types and digests are one failure *)
(* of a download.  The rename is atomic and ordered after the sync.          *)
(***************************************************************************)
EXTENDS Naturals, Sequences, FiniteSets

CONSTANTS
    Threads,      \* executor threads
    Files,        \* names: digest and type
    LockOf,       \* [Files -> lock], the striped asset locks
    Capacity,     \* units of storage above the safety reserve
    MaxCrashes,   \* bound on process deaths, and on decayed files
    None

ASSUME CacheAssumption ==
    /\ Capacity \in Nat /\ MaxCrashes \in Nat
    /\ DOMAIN LockOf = Files
    /\ None \notin Files
    /\ IsFiniteSet(Threads) /\ IsFiniteSet(Files)

VARIABLES
    final,    \* [Files -> content under the final name]
    parts,    \* [Threads -> content of the thread's ".part" file]
    litter,   \* number of ".part" files nobody owns
    op,       \* [Threads -> operation and its progress]
    waiting,  \* threads in the queue of the lifecycle lock
    reserved, \* reservedBytes
    crashes   \* bound

cacheVars == <<final, parts, litter, op, waiting, reserved, crashes>>

-----------------------------------------------------------------------------
Contents == {"NONE", "GOOD", "TORN", "BAD"}
Readers == {"PREFETCH", "RESOLVE"}
Writers == {"PRUNE", "REMOVE"}
Steps == {"WAIT", "LOCKED", "VERIFIED", "RESERVED", "DOWNLOADED", "SYNCED", "CLEANING", "DELETING"}

Idle == [kind |-> "NONE", file |-> None, step |-> "WAIT", keep |-> {}, left |-> {}]
Operation == [kind : Readers \union Writers, file : Files \union {None}, step : Steps,
              keep : SUBSET Files, left : SUBSET Files] \union {Idle}

CacheTypeOK ==
    /\ final \in [Files -> Contents]
    /\ parts \in [Threads -> Contents]
    /\ litter \in Nat
    /\ op \in [Threads -> Operation]
    /\ waiting \in Seq(Threads)
    /\ reserved \in Nat
    /\ crashes \in Nat

CacheInit ==
    /\ final = [f \in Files |-> "NONE"]
    /\ parts = [t \in Threads |-> "NONE"]
    /\ litter = 0
    /\ op = [t \in Threads |-> Idle]
    /\ waiting = <<>>
    /\ reserved = 0
    /\ crashes = 0

-----------------------------------------------------------------------------
(* The lifecycle lock. *)
Active(t) == op[t] # Idle /\ op[t].step # "WAIT"
Grantable(t) ==
    LET holders == {u \in Threads : Active(u)} IN
    IF op[t].kind \in Writers THEN holders = {}
    ELSE \A u \in holders : op[u].kind \in Readers

(* The asset lock of the file is free. *)
AssetFree(t) ==
    \A u \in Threads \ {t} :
        Active(u) /\ op[u].step # "LOCKED" /\ op[u].kind \in Readers
            => LockOf[op[u].file] # LockOf[op[t].file]

Progress(t, step) == op' = [op EXCEPT ![t].step = step]
Ends(t) == op' = [op EXCEPT ![t] = Idle]

Used == Cardinality({f \in Files : final[f] # "NONE"})
        + Cardinality({t \in Threads : parts[t] # "NONE"}) + litter

(* isVerified: the digest of what is under the final name. *)
IsVerified(f) == final[f] = "GOOD"

-----------------------------------------------------------------------------
(* Mutant of Queue: an unfair lock lets a reader in before a waiting writer. *)
QueueBarging(t) ==
    waiting' = IF op'[t].kind \in Readers THEN <<t>> \o waiting ELSE Append(waiting, t)

(* The lock is fair: threads enter in the order in which they asked. *)
Queue(t) == waiting' = Append(waiting, t)

Turn(t) == waiting # <<>> /\ Head(waiting) = t

(* A thread takes the next operation and queues for the lifecycle lock. *)
Begin(t) ==
    /\ op[t] = Idle
    /\ \/ \E f \in Files, kind \in Readers :
            op' = [op EXCEPT ![t] = [Idle EXCEPT !.kind = kind, !.file = f]]
       \/ \E keep \in SUBSET Files :
            op' = [op EXCEPT ![t] = [Idle EXCEPT !.kind = "PRUNE", !.keep = keep]]
       \/ op' = [op EXCEPT ![t] = [Idle EXCEPT !.kind = "REMOVE"]]
    /\ Queue(t)
    /\ UNCHANGED <<final, parts, litter, reserved, crashes>>

Enter(t) ==
    /\ op[t].step = "WAIT" /\ Turn(t) /\ Grantable(t)
    /\ waiting' = Tail(waiting)
    /\ IF op[t].kind \in Readers THEN Progress(t, "LOCKED")
       ELSE op' = [op EXCEPT ![t].step = "DELETING",
                             ![t].left = {f \in Files : final[f] # "NONE"} \ op[t].keep]
    /\ UNCHANGED <<final, parts, litter, reserved, crashes>>

(* resolve only reads: it answers with the file, or, when the file is missing
   or its bytes do not verify, without one.  The answer changes nothing here. *)
Resolve(t) ==
    /\ op[t].kind = "RESOLVE" /\ op[t].step = "LOCKED" /\ AssetFree(t)
    /\ Ends(t)
    /\ UNCHANGED <<final, parts, litter, waiting, reserved, crashes>>

(* prefetchLocked: a verified file needs no download. *)
Check(t) ==
    /\ op[t].kind = "PREFETCH" /\ op[t].step = "LOCKED" /\ AssetFree(t)
    /\ IF IsVerified(op[t].file) THEN Ends(t) ELSE Progress(t, "VERIFIED")
    /\ UNCHANGED <<final, parts, litter, waiting, reserved, crashes>>

(* reserve: the available bytes, less what other downloads have reserved; the
   space that a running download has used is subtracted a second time. *)
Reserve(t) ==
    /\ op[t].kind = "PREFETCH" /\ op[t].step = "VERIFIED"
    /\ IF Used + reserved < Capacity
       THEN reserved' = reserved + 1 /\ Progress(t, "RESERVED")
       ELSE Ends(t) /\ UNCHANGED reserved
    /\ UNCHANGED <<final, parts, litter, waiting, crashes>>

(* download: the bytes reach the temporary file, not yet the disk. *)
Download(t) ==
    /\ op[t].step = "RESERVED"
    /\ parts' = [parts EXCEPT ![t] = "TORN"]
    /\ Progress(t, "DOWNLOADED")
    /\ UNCHANGED <<final, litter, waiting, reserved, crashes>>

(* Mutant of Sync: the temporary file is not synced before it is renamed. *)
SyncLater(t) ==
    /\ op[t].step = "DOWNLOADED"
    /\ Progress(t, "SYNCED")
    /\ UNCHANGED <<final, parts, litter, waiting, reserved, crashes>>

(* The file is synced, and its size and digest are right. *)
Sync(t) ==
    /\ op[t].step = "DOWNLOADED"
    /\ parts' = [parts EXCEPT ![t] = "GOOD"]
    /\ Progress(t, "SYNCED")
    /\ UNCHANGED <<final, litter, waiting, reserved, crashes>>

(* The download, its verification or the rename fails. *)
Fail(t) ==
    /\ op[t].step \in {"RESERVED", "DOWNLOADED", "SYNCED"}
    /\ Progress(t, "CLEANING")
    /\ UNCHANGED <<final, parts, litter, waiting, reserved, crashes>>

(* The rename replaces what was under the final name. *)
Activate(t) ==
    /\ op[t].step = "SYNCED"
    /\ final' = [final EXCEPT ![op[t].file] = parts[t]]
    /\ parts' = [parts EXCEPT ![t] = "NONE"]
    /\ Progress(t, "CLEANING")
    /\ UNCHANGED <<litter, waiting, reserved, crashes>>

(* Mutant of Release: only a download that left a file behind gives its
   reservation back. *)
ReleaseWithFile(t) == reserved' = IF parts[t] = "NONE" THEN reserved ELSE reserved - 1

Release(t) == reserved' = IF reserved = 0 THEN 0 ELSE reserved - 1

(* finally: the temporary file is deleted, or left for the next process, and
   the reservation is given back. *)
Clean(t) ==
    /\ op[t].step = "CLEANING"
    /\ litter' \in IF parts[t] = "NONE" THEN {litter} ELSE {litter, litter + 1}
    /\ parts' = [parts EXCEPT ![t] = "NONE"]
    /\ Release(t)
    /\ Ends(t)
    /\ UNCHANGED <<final, waiting, crashes>>

(* prune and removeAll delete one file after the other, and stop when one
   cannot be deleted. *)
Delete(t) ==
    /\ op[t].step = "DELETING" /\ op[t].left # {}
    /\ \/ \E f \in op[t].left :
            /\ final' = [final EXCEPT ![f] = "NONE"]
            /\ op' = [op EXCEPT ![t].left = @ \ {f}]
       \/ Ends(t) /\ UNCHANGED final
    /\ UNCHANGED <<parts, litter, waiting, reserved, crashes>>

Deleted(t) ==
    /\ op[t].step = "DELETING" /\ op[t].left = {}
    /\ litter' = IF op[t].kind = "REMOVE" THEN 0 ELSE litter
    /\ Ends(t)
    /\ UNCHANGED <<final, parts, waiting, reserved, crashes>>

-----------------------------------------------------------------------------
(* The process dies, or the device with it: then what was not synced is lost.
   A new store deletes the temporary files before its first operation. *)
Die(powerLoss) ==
    /\ crashes < MaxCrashes
    /\ crashes' = crashes + 1
    /\ final' = [f \in Files |-> IF powerLoss /\ final[f] = "TORN" THEN "BAD" ELSE final[f]]
    /\ parts' = [t \in Threads |-> "NONE"]
    /\ litter' = 0
    /\ op' = [t \in Threads |-> Idle]
    /\ waiting' = <<>>
    /\ reserved' = 0

(* The storage decays; verification finds out. *)
Rot(f) ==
    /\ crashes < MaxCrashes
    /\ crashes' = crashes + 1
    /\ final[f] = "GOOD"
    /\ final' = [final EXCEPT ![f] = "BAD"]
    /\ UNCHANGED <<parts, litter, op, waiting, reserved>>

Work(t) ==
    \/ Enter(t) \/ Resolve(t) \/ Check(t) \/ Reserve(t) \/ Download(t) \/ Sync(t)
    \/ Fail(t) \/ Activate(t) \/ Clean(t) \/ Delete(t) \/ Deleted(t)

CacheNext ==
    \/ \E t \in Threads : Begin(t) \/ Work(t)
    \/ \E powerLoss \in BOOLEAN : Die(powerLoss)
    \/ \E f \in Files : Rot(f)

(* The executor runs its threads, and every download has a deadline.  Nothing
   is assumed of the asset locks, which are not fair. *)
CacheFairness == \A t \in Threads : WF_cacheVars(Work(t))

CacheSpec == CacheInit /\ [][CacheNext]_cacheVars /\ CacheFairness

-----------------------------------------------------------------------------
(* A file under its final name was completely downloaded, verified and synced,
   also after a crash in the middle of any operation: it is never torn. *)
FinalsAreSynced == \A f \in Files : final[f] # "TORN"

(* The reserved bytes are those of the downloads under way: nothing that fails,
   is refused or was not needed leaks a reservation, which would refuse every
   download until the process dies, and the downloads that were let in together
   stay out of the safety reserve. *)
ReservationsBalance ==
    /\ reserved = Cardinality({t \in Threads :
           op[t].step \in {"RESERVED", "DOWNLOADED", "SYNCED", "CLEANING"}})
    /\ Used <= Capacity

(* A prune or a removal that was asked for ends, however many files are
   downloaded and resolved meanwhile: readers that come later wait behind it.
   (One download may wait for ever for the lock of its file; see the README.) *)
WritersFinish ==
    \A t \in Threads : op[t].kind \in Writers ~> op[t].kind \notin Writers

=============================================================================
