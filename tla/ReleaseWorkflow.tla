--------------------------- MODULE ReleaseWorkflow ---------------------------
(***************************************************************************)
(* What the release workflow promises, as the in-memory store states it:   *)
(* one value per object and one atomic step per operation.  A candidate    *)
(* freezes a playlist and a set of screens; it is drafted, submitted by    *)
(* its author, approved by somebody else and published, once, and what was *)
(* published may be withdrawn, once.  Whoever acts must still hold the     *)
(* capability, and an approval counts only while the approver's password,  *)
(* role and membership are the ones it was given with.                     *)
(*                                                                         *)
(* A digest binds what never changes once written, so that a stale digest  *)
(* is a request that changes nothing; an operation that is refused changes *)
(* nothing either, but for the pruning that precedes a creation.  The key  *)
(* of a creation names the candidate it makes, and each later operation on *)
(* a candidate has a key of its own, so that records[op][c] is the         *)
(* idempotency record of that operation: while there is one, the same      *)
(* request is answered from it.                                            *)
(***************************************************************************)
EXTENDS Integers, FiniteSets, FiniteSetsExt

CONSTANTS Users, Screens, Media, Playlists, Candidates, None,
          Items,           \* the media of each playlist
          MediaExpiresAt,  \* when each medium expires
          InitialRole,     \* the role each user starts with
          OfferedRoles,    \* the roles a membership may be changed to
          Retention,       \* how long the response of an operation is kept
          MaxLifetime,     \* the longest life of a candidate (seven days)
          PruneBatch,      \* candidates pruned by one creation (20)
          MaxOutstanding,  \* unexpired unpublished candidates (100)
          MaxRetained,     \* unpublished candidates (1000)
          MaxTime,         \* bound of the clock
          MaxAuthorityChanges \* bound of the authority changes

VARIABLES now, users, screens, media, playlists, releases, candidates,
          assignments, records

workflowVars == <<now, users, screens, media, playlists, releases,
                  candidates, assignments, records>>

Roles == {"OWNER", "ADMIN", "PUBLISHER", "VIEWER", "NONE"}

Operations == {"create", "submit", "approve", "publish"}

Editors == {"OWNER", "ADMIN", "PUBLISHER"}

Administrators == {"OWNER", "ADMIN"}

\* The roles that hold the capability of each operation.
Grants == [create |-> Editors, submit |-> Editors, publish |-> Editors,
           withdraw |-> Editors, approve |-> Administrators]

Holds(u, roles) == ~users[u].disabled /\ users[u].role \in roles

Can(u, operation) == Holds(u, Grants[operation])

Unpublished(c) == candidates[c] # None /\ candidates[c].state # "PUBLISHED"

Expired(c) == candidates[c].expiresAt <= now

PlayableAt(p, t) ==
    /\ Items[p] # {}
    /\ \A m \in Items[p] : MediaExpiresAt[m] > t

WorkflowInit ==
    /\ now = 0
    /\ users = [u \in Users |-> [role |-> InitialRole[u], disabled |-> FALSE,
                                 authn |-> 0, authz |-> 0]]
    /\ screens = [s \in Screens |-> "unknown"]
    /\ media = [m \in Media |-> "unknown"]
    /\ playlists = [p \in Playlists |-> "unknown"]
    /\ releases = {}
    /\ candidates = [c \in Candidates |-> None]
    /\ assignments = [c \in Candidates |-> "NONE"]
    /\ records = [o \in Operations |-> [c \in Candidates |-> None]]

-----------------------------------------------------------------------------
(* The library and the fleet: a thing is created once, never edited where a *)
(* release would notice, and may be deleted while nothing frozen needs it.  *)

CreateScreen(u, s) ==
    /\ Holds(u, Administrators) /\ screens[s] = "unknown"
    /\ screens' = [screens EXCEPT ![s] = "live"]
    /\ UNCHANGED <<now, users, media, playlists, releases, candidates,
                   assignments, records>>

DeleteScreen(u, s) ==
    /\ Holds(u, Administrators) /\ screens[s] = "live"
    /\ screens' = [screens EXCEPT ![s] = "deleted"]
    /\ UNCHANGED <<now, users, media, playlists, releases, candidates,
                   assignments, records>>

CreateMedia(u, m) ==
    /\ Holds(u, Editors) /\ media[m] = "unknown"
    /\ media' = [media EXCEPT ![m] = "stored"]
    /\ UNCHANGED <<now, users, screens, playlists, releases, candidates,
                   assignments, records>>

MediaInUse(m) ==
    \/ \E p \in Playlists : playlists[p] = "stored" /\ m \in Items[p]
    \/ \E p \in releases : m \in Items[p]

DeleteMedia(u, m) ==
    /\ Holds(u, Editors) /\ media[m] = "stored" /\ ~MediaInUse(m)
    /\ media' = [media EXCEPT ![m] = "deleted"]
    /\ UNCHANGED <<now, users, screens, playlists, releases, candidates,
                   assignments, records>>

CreatePlaylist(u, p) ==
    /\ Holds(u, Editors) /\ playlists[p] = "unknown"
    /\ \A m \in Items[p] : media[m] = "stored"
    /\ playlists' = [playlists EXCEPT ![p] = "stored"]
    /\ UNCHANGED <<now, users, screens, media, releases, candidates,
                   assignments, records>>

PlaylistInUse(p) ==
    \/ p \in releases
    \/ \E c \in Candidates :
          assignments[c] # "NONE" /\ candidates[c].playlist = p

DeletePlaylist(u, p) ==
    /\ Holds(u, Editors) /\ playlists[p] = "stored" /\ ~PlaylistInUse(p)
    /\ playlists' = [playlists EXCEPT ![p] = "deleted"]
    /\ UNCHANGED <<now, users, screens, media, releases, candidates,
                   assignments, records>>

-----------------------------------------------------------------------------
(* Candidates.                                                              *)

Prunable == {c \in Candidates :
                Unpublished(c) /\ candidates[c].expiresAt <= now - Retention}

\* The candidates a creation prunes: a batch, the longest expired first.
PruneChoices ==
    {P \in SUBSET Prunable :
        /\ Cardinality(P) = IF Cardinality(Prunable) < PruneBatch
                            THEN Cardinality(Prunable) ELSE PruneBatch
        /\ \A c \in P, d \in Prunable \ P :
              candidates[c].expiresAt <= candidates[d].expiresAt}

CandidatesLeft(P) ==
    [c \in Candidates |-> IF c \in P THEN None ELSE candidates[c]]

ReleasesLeft(P) ==
    {p \in releases :
        \/ \A c \in P : candidates[c].playlist # p
        \/ \E c \in Candidates \ P :
              candidates[c] # None /\ candidates[c].playlist = p}

\* What a creation asks for once the batch P has been pruned.
MayCreate(P, p, S) ==
    LET rest == {c \in Candidates \ P : Unpublished(c)} IN
    /\ S # {}
    /\ Cardinality({c \in rest : ~Expired(c)}) < MaxOutstanding
    /\ Cardinality(rest) < MaxRetained
    /\ playlists[p] = "stored"
    /\ \A s \in S : screens[s] = "live"
    /\ PlayableAt(p, now)

Remember(o, c, u) ==
    records' = [records EXCEPT
                  ![o][c] = [actor |-> u, expiresAt |-> now + Retention]]

CreateCandidate(u, c, p, S, life) ==
    /\ Can(u, "create") /\ records["create"][c] = None
    /\ life \in 1 .. MaxLifetime
    /\ \E P \in PruneChoices :
          /\ MayCreate(P, p, S)
          /\ candidates' =
               [CandidatesLeft(P) EXCEPT
                  ![c] = [state |-> "DRAFT", author |-> u, playlist |-> p,
                          screens |-> S, expiresAt |-> now + life,
                          approval |-> None]]
          /\ releases' = ReleasesLeft(P) \cup {p}
    /\ Remember("create", c, u)
    /\ UNCHANGED <<now, users, screens, media, playlists, assignments>>

\* A creation with a key of its own that is refused after the
\* pruning has pruned all the same.
RefuseCandidate(u, p, S) ==
    /\ Can(u, "create") /\ Prunable # {}
    /\ \E P \in PruneChoices :
          /\ ~MayCreate(P, p, S)
          /\ candidates' = CandidatesLeft(P)
          /\ releases' = ReleasesLeft(P)
    /\ UNCHANGED <<now, users, screens, media, playlists, assignments,
                   records>>

SubmitCandidate(u, c) ==
    /\ Can(u, "submit") /\ records["submit"][c] = None
    /\ candidates[c] # None /\ ~Expired(c)
    /\ candidates[c].author = u /\ candidates[c].state = "DRAFT"
    /\ candidates' = [candidates EXCEPT ![c].state = "IN_REVIEW"]
    /\ Remember("submit", c, u)
    /\ UNCHANGED <<now, users, screens, media, playlists, releases,
                   assignments>>

ApproveCandidate(u, c) ==
    /\ Can(u, "approve") /\ records["approve"][c] = None
    /\ candidates[c] # None /\ ~Expired(c)
    /\ candidates[c].author # u /\ candidates[c].state = "IN_REVIEW"
    /\ candidates' = [candidates EXCEPT
                        ![c].state = "APPROVED",
                        ![c].approval = [approver |-> u,
                                         authn |-> users[u].authn,
                                         authz |-> users[u].authz]]
    /\ Remember("approve", c, u)
    /\ UNCHANGED <<now, users, screens, media, playlists, releases,
                   assignments>>

ApprovalStands(approval) ==
    LET approver == approval.approver IN
    /\ Can(approver, "approve")
    /\ users[approver].authn = approval.authn
    /\ users[approver].authz = approval.authz

PublishCandidate(u, c) ==
    /\ Can(u, "publish") /\ records["publish"][c] = None
    /\ candidates[c] # None /\ ~Expired(c)
    /\ candidates[c].state = "APPROVED"
    /\ ApprovalStands(candidates[c].approval)
    /\ PlayableAt(candidates[c].playlist, now)
    /\ \A s \in candidates[c].screens : screens[s] = "live"
    /\ candidates' = [candidates EXCEPT ![c].state = "PUBLISHED"]
    /\ assignments' = [assignments EXCEPT ![c] = "ASSIGNED"]
    /\ Remember("publish", c, u)
    /\ UNCHANGED <<now, users, screens, media, playlists, releases>>

WithdrawSchedule(u, c) ==
    /\ Can(u, "withdraw") /\ assignments[c] = "ASSIGNED"
    /\ assignments' = [assignments EXCEPT ![c] = "WITHDRAWN"]
    /\ UNCHANGED <<now, users, screens, media, playlists, releases,
                   candidates, records>>

-----------------------------------------------------------------------------
(* Authority changes of a user, and time.                                   *)

OwnerRemainsWithout(u) ==
    Holds(u, {"OWNER"}) => \E v \in Users \ {u} : Holds(v, {"OWNER"})

ChangesLeft ==
    MapThenSumSet(LAMBDA u : users[u].authn + users[u].authz, Users)
        < MaxAuthorityChanges

ChangeRole(u, role) ==
    /\ users[u].role # "NONE" /\ ChangesLeft
    /\ role # "OWNER" => OwnerRemainsWithout(u)
    /\ users' = [users EXCEPT ![u].role = role, ![u].authz = @ + 1]
    /\ UNCHANGED <<now, screens, media, playlists, releases, candidates,
                   assignments, records>>

RemoveMembership(u) ==
    /\ users[u].role # "NONE" /\ ChangesLeft /\ OwnerRemainsWithout(u)
    /\ users' = [users EXCEPT ![u].role = "NONE", ![u].authz = @ + 1]
    /\ UNCHANGED <<now, screens, media, playlists, releases, candidates,
                   assignments, records>>

DisableUser(u) ==
    /\ users[u].role # "NONE" /\ ChangesLeft /\ OwnerRemainsWithout(u)
    /\ users' = [users EXCEPT ![u].disabled = TRUE, ![u].authn = @ + 1]
    /\ UNCHANGED <<now, screens, media, playlists, releases, candidates,
                   assignments, records>>

RotatePassword(u) ==
    /\ users[u].role # "NONE" /\ ChangesLeft
    /\ users' = [users EXCEPT ![u].authn = @ + 1]
    /\ UNCHANGED <<now, screens, media, playlists, releases, candidates,
                   assignments, records>>

Tick ==
    /\ now < MaxTime
    /\ now' = now + 1
    /\ UNCHANGED <<users, screens, media, playlists, releases, candidates,
                   assignments, records>>

WorkflowNext ==
    \/ Tick
    \/ \E u \in Users :
        \/ \E role \in OfferedRoles : ChangeRole(u, role)
        \/ RemoveMembership(u) \/ DisableUser(u) \/ RotatePassword(u)
        \/ \E s \in Screens : CreateScreen(u, s) \/ DeleteScreen(u, s)
        \/ \E m \in Media : CreateMedia(u, m) \/ DeleteMedia(u, m)
        \/ \E p \in Playlists : CreatePlaylist(u, p) \/ DeletePlaylist(u, p)
        \/ \E c \in Candidates :
              \/ SubmitCandidate(u, c) \/ ApproveCandidate(u, c)
              \/ PublishCandidate(u, c) \/ WithdrawSchedule(u, c)
        \/ \E p \in Playlists, S \in SUBSET Screens :
              \/ \E c \in Candidates, life \in 1 .. MaxLifetime :
                    CreateCandidate(u, c, p, S, life)
              \/ RefuseCandidate(u, p, S)

WorkflowSpec == WorkflowInit /\ [][WorkflowNext]_workflowVars

\* The candidates whose content a screen plays, windows aside.
Deliverable(s) ==
    {c \in Candidates : assignments[c] = "ASSIGNED"
                        /\ s \in candidates[c].screens}
=============================================================================
