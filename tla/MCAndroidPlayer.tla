--------------------------- MODULE MCAndroidPlayer ---------------------------
(* Instance for TLC of the native parts of the Android player, the command
   journal and the media cache.  They share no state, so a behaviour is one of
   either part while the other stands still. *)
EXTENDS CommandJournal, MediaCache

CONSTANTS Sharing

VARIABLE part

vars == <<part, journalVars, cacheVars>>

MCOrders ==
    {[generation |-> 1, sequence |-> 1, command |-> "c1", action |-> "REFRESH_CONTENT"],
     [generation |-> 1, sequence |-> 2, command |-> "c2", action |-> "RESTART_RENDERER"],
     [generation |-> 1, sequence |-> 2, command |-> "c3", action |-> "REFRESH_CONTENT"],
     [generation |-> 2, sequence |-> 1, command |-> "c4", action |-> "RESTART_RENDERER"]}

(* The first two files share a lock. *)
MCLockOf == [f \in Files |-> IF f \in Sharing THEN "shared" ELSE "own"]

MCInit == part \in {"JOURNAL", "CACHE"} /\ JournalInit /\ CacheInit

JournalStep == part = "JOURNAL" /\ JournalNext /\ UNCHANGED <<part, cacheVars>>
CacheStep == part = "CACHE" /\ CacheNext /\ UNCHANGED <<part, journalVars>>

MCSpec == MCInit /\ [][JournalStep \/ CacheStep]_vars /\ CacheFairness
=============================================================================
