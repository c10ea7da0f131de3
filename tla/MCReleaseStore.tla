--------------------------- MODULE MCReleaseStore ---------------------------
(***************************************************************************)
(* A small instance of ReleaseStore: an owner and an administrator, who    *)
(* may each author and, but for their own, approve; two candidates of one  *)
(* playlist, so that they share a frozen release and fill the limits; two  *)
(* screens, one of which may be deleted under a release that has both.     *)
(***************************************************************************)
EXTENDS ReleaseStore, TLC

CONSTANTS owner, admin, s1, s2, c1, c2

MCItems == [p \in Playlists |-> Media]
MCMediaExpiresAt == [m \in Media |-> 3]
MCInitialRole == [u \in Users |-> IF u = owner THEN "OWNER" ELSE "ADMIN"]
MCSymmetry == Permutations({c1, c2}) \cup Permutations({s1, s2})
=============================================================================
