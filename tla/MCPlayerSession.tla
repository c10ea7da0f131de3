--------------------------- MODULE MCPlayerSession ---------------------------
(* Instance of PlayerSession for TLC: an ordinary release A, a release B that
   ends, an emergency E and a withdrawal W, on a device that has played. *)
EXTENDS PlayerSession

CONSTANTS k1, k2, k3, a1, a2

MCVersions == {"A", "B", "E", "W"}
MCDeadline == [v \in MCVersions |-> IF v \in {"B", "E"} THEN 1 ELSE 9]
MCItems == [v \in MCVersions |-> CASE v = "A" -> {a1} [] v = "B" -> {a1, a2}
                                   [] v = "E" -> {a2} [] OTHER -> {}]

(* The first two identities are of the same Screen. *)
MCScreenOf == [k \in Keys |-> IF k = k3 THEN "s2" ELSE "s1"]

(* A device that plays A after B as k1 starts again.  One of the other identities
   it had before, the other is left for the next pairing: one for another Screen, or
   one for the same Screen after B and E have ended. *)
MCInit ==
    /\ \/ revoked = {k2} /\ now = 0
       \/ revoked = {k3} /\ now = MaxNow
    /\ published = [version |-> "A", generatedAt |-> 2]
    /\ active = [version |-> "A", generatedAt |-> 2, owner |-> k1]
    /\ previous = [version |-> "B", generatedAt |-> 1, owner |-> k1]
    /\ cached = {a1, a2}
    /\ generation = 0 /\ stage = NoStage /\ sweep = NoSweep
    /\ stagingQueue = <<>> /\ stateQueue = <<>>
    /\ live = {k1} /\ proven = live \union revoked
    /\ stored = k1 /\ pending = None /\ alias = k1 /\ keystore = {k1}
    /\ screen = "BOOT" /\ creds = None /\ shown = None /\ epoch = 0
    /\ sync = NoSync /\ erasing = [e \in Erasers |-> {}]
    /\ deprovision = "NO" /\ pairing = NoPairing
    /\ HistoryInit

MCSpec == MCInit /\ [][SessionNext]_sessionVars
=============================================================================
