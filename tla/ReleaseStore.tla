---------------------------- MODULE ReleaseStore ----------------------------
(***************************************************************************)
(* The release tables of the database store and the transactions that      *)
(* write them.  What the workflow keeps in one value is spread over rows:  *)
(* a candidate, its targets, its approval, its publication, the chain of   *)
(* its schedule's assignments with targets of their own, and idempotency   *)
(* records with the response as it was committed.  A target keeps the name *)
(* of its screen and a live reference that the deletion of the screen sets *)
(* to NULL ("detached").                                                   *)
(*                                                                         *)
(* The release transactions are serializable, lock their actor, and change *)
(* nothing when they are refused or give up; each is one step here.  The   *)
(* deletions lock the row they delete and are stopped by foreign keys, so  *)
(* that they too are one step.  Deferred triggers refuse any other change  *)
(* of these rows: what is frozen stays as it was inserted.                 *)
(***************************************************************************)
EXTENDS Integers, FiniteSets, FiniteSetsExt

CONSTANTS Users, Screens, Media, Playlists, Candidates, None, Items,
          MediaExpiresAt, InitialRole, OfferedRoles, Retention, MaxLifetime,
          PruneBatch, MaxOutstanding, MaxRetained, MaxTime,
          MaxAuthorityChanges,
          CompactBatch   \* expired responses compacted by one operation

ASSUME ReleaseAssumption ==
    /\ Items \in [Playlists -> SUBSET Media]
    /\ Retention \in Nat \ {0} /\ MaxLifetime \in Nat \ {0}
    /\ PruneBatch \in Nat \ {0} /\ CompactBatch \in Nat \ {0}

VARIABLES
    now,               \* CURRENT_TIMESTAMP
    users,             \* "User" and "Membership": role, disabled and epochs
    screens, media, playlists,
    publishedReleases, \* the playlists frozen by a "PublishedRelease"
    candidateRows,     \* "ReleaseCandidate"
    candidateTargets,  \* "ReleaseCandidateTarget"
    approvals,         \* "ReleaseApproval"
    publications,      \* "ReleaseCandidatePublication"
    assignmentRows,    \* "ReleaseAssignment" with its targets
    idempotency,       \* "IdempotencyRecord"
    revoked            \* history: candidates whose approver's password, role
                       \* or membership changed between approval and publication

storeVars == <<now, users, screens, media, playlists, publishedReleases,
               candidateRows, candidateTargets, approvals, publications,
               assignmentRows, idempotency, revoked>>

library == <<screens, media, playlists>>

Operations == {"create", "submit", "approve", "publish"}

Editors == {"OWNER", "ADMIN", "PUBLISHER"}

Administrators == {"OWNER", "ADMIN"}

Grants == [create |-> Editors, submit |-> Editors, publish |-> Editors,
           withdraw |-> Editors, approve |-> Administrators]

\* The rows, in the order of the variables.
States == {"DRAFT", "IN_REVIEW", "APPROVED", "PUBLISHED"}
Maybe(S) == S \cup {None}
Targets == [Screens -> {"none", "live", "detached"}]
UserRows ==
    [role : {InitialRole[u] : u \in Users} \cup OfferedRoles \cup {"NONE"},
     disabled : BOOLEAN, authn : Nat, authz : Nat]
ReleaseDigests == [playlist : Playlists, items : SUBSET Media]
CandidateDigests ==
    [release : ReleaseDigests, screens : SUBSET Screens, expiresAt : Nat]
Rows ==
    [state : States, digest : CandidateDigests, author : Users,
     release : Playlists, expiresAt : Nat, submittedAt : Maybe(Nat),
     approvedAt : Maybe(Nat), publishedAt : Maybe(Nat)]
Approvals == [approver : Users, authn : Nat, authz : Nat, approvedAt : Nat]
AssignmentIds == Candidates \X {"ASSIGNED", "WITHDRAWN"}
Publications == [assignment : AssignmentIds, publisher : Users]
AssignmentDigests ==
    [release : ReleaseDigests, state : {"ASSIGNED", "WITHDRAWN"},
     screens : SUBSET Screens, previous : Maybe(AssignmentIds)]
Assignments ==
    [id : AssignmentIds, schedule : Candidates, release : Playlists,
     state : {"ASSIGNED", "WITHDRAWN"}, previous : Maybe(AssignmentIds),
     targets : Targets, digest : AssignmentDigests]
Bodies ==
    [id : Candidates, state : States, digest : CandidateDigests, author : Users,
     playlist : Playlists, screens : SUBSET Screens, expiresAt : Nat,
     submittedAt : Maybe(Nat), approvedAt : Maybe(Nat),
     publishedAt : Maybe(Nat), approval : Maybe(Approvals),
     publication : Maybe(Publications)]
Records == [actor : Users, expiresAt : Nat, body : Maybe(Bodies)]

\* NULL is no value of a column.
ASSUME NullAssumption ==
    /\ None \notin Nat /\ None \notin Rows /\ None \notin Approvals
    /\ None \notin Publications /\ None \notin Bodies /\ None \notin Records

StoreTypeOK ==
    /\ now \in Nat
    /\ users \in [Users -> UserRows]
    /\ screens \in [Screens -> {"unknown", "live", "deleted"}]
    /\ media \in [Media -> {"unknown", "stored", "deleted"}]
    /\ playlists \in [Playlists -> {"unknown", "stored", "deleted"}]
    /\ publishedReleases \subseteq Playlists
    /\ candidateRows \in [Candidates -> Maybe(Rows)]
    /\ candidateTargets \in [Candidates -> Targets]
    /\ approvals \in [Candidates -> Maybe(Approvals)]
    /\ publications \in [Candidates -> Maybe(Publications)]
    /\ assignmentRows \subseteq Assignments
    /\ idempotency \in [Operations -> [Candidates -> Maybe(Records)]]
    /\ revoked \subseteq Candidates

Init ==
    /\ now = 0
    /\ users = [u \in Users |-> [role |-> InitialRole[u], disabled |-> FALSE,
                                 authn |-> 0, authz |-> 0]]
    /\ screens = [s \in Screens |-> "unknown"]
    /\ media = [m \in Media |-> "unknown"]
    /\ playlists = [p \in Playlists |-> "unknown"]
    /\ publishedReleases = {}
    /\ candidateRows = [c \in Candidates |-> None]
    /\ candidateTargets = [c \in Candidates |-> [s \in Screens |-> "none"]]
    /\ approvals = [c \in Candidates |-> None]
    /\ publications = [c \in Candidates |-> None]
    /\ assignmentRows = {}
    /\ idempotency = [o \in Operations |-> [c \in Candidates |-> None]]
    /\ revoked = {}

-----------------------------------------------------------------------------
(* Reading the rows.                                                        *)

\* lockReleaseActor: the membership of a user who is not disabled.
Holds(u, roles) == ~users[u].disabled /\ users[u].role \in roles

Can(u, operation) == Holds(u, Grants[operation])

\* Mutant of TargetNames: screens are named by their live references.
LiveTargetNames(targets) == {s \in Screens : targets[s] = "live"}

TargetNames(targets) == {s \in Screens : targets[s] # "none"}

AllLive(targets) == \A s \in TargetNames(targets) : targets[s] = "live"

\* The digests are injective: each is the value it is computed from.
ReleaseDigest(p) == [playlist |-> p, items |-> Items[p]]

CandidateDigest(p, S, expiresAt) ==
    [release |-> ReleaseDigest(p), screens |-> S, expiresAt |-> expiresAt]

AssignmentDigest(p, state, S, previous) ==
    [release |-> ReleaseDigest(p), state |-> state, screens |-> S,
     previous |-> previous]

\* verifiedReleaseAssignmentDtos
AssignmentVerified(a) ==
    a.digest = AssignmentDigest(a.release, a.state, TargetNames(a.targets),
                                a.previous)

\* releaseCandidateDto: the candidate as a response shows it.
CandidateDto(c) ==
    [id |-> c, state |-> candidateRows[c].state,
     digest |-> candidateRows[c].digest,
     author |-> candidateRows[c].author,
     playlist |-> candidateRows[c].release,
     screens |-> TargetNames(candidateTargets[c]),
     expiresAt |-> candidateRows[c].expiresAt,
     submittedAt |-> candidateRows[c].submittedAt,
     approvedAt |-> candidateRows[c].approvedAt,
     publishedAt |-> candidateRows[c].publishedAt,
     approval |-> approvals[c], publication |-> publications[c]]

Rank == [DRAFT |-> 0, IN_REVIEW |-> 1, APPROVED |-> 2, PUBLISHED |-> 3]

StateAfter == [create |-> "DRAFT", submit |-> "IN_REVIEW",
               approve |-> "APPROVED", publish |-> "PUBLISHED"]

\* The digest of a candidate is computed again from its rows each time.
HasValidDigest(c) ==
    candidateRows[c].digest =
        CandidateDigest(candidateRows[c].release,
                        TargetNames(candidateTargets[c]),
                        candidateRows[c].expiresAt)

\* What the live rows say the response of an operation was: everything that a
\* later operation added is taken away again.
ResponseThen(op, c) ==
    LET live == CandidateDto(c)
        rank == Rank[StateAfter[op]]
    IN [live EXCEPT !.state = StateAfter[op],
                    !.submittedAt = IF rank < 1 THEN None ELSE @,
                    !.approvedAt = IF rank < 2 THEN None ELSE @,
                    !.approval = IF rank < 2 THEN None ELSE @,
                    !.publishedAt = IF rank < 3 THEN None ELSE @,
                    !.publication = IF rank < 3 THEN None ELSE @]

\* verifiedReleaseCandidateReplay: the recorded response is answered only
\* when the live rows still bear it out.
ReplayVerified(op, body) ==
    LET c == body.id IN
    /\ body.state = StateAfter[op]
    /\ candidateRows[c] # None
    /\ Rank[candidateRows[c].state] >= Rank[StateAfter[op]]
    /\ op # "create" => candidateRows[c].submittedAt # None
    /\ op \in {"approve", "publish"} =>
          candidateRows[c].approvedAt # None /\ approvals[c] # None
    /\ op = "publish" => publications[c] # None
    /\ HasValidDigest(c)
    /\ body = ResponseThen(op, c)

\* mediaPublicationFailure over the frozen items, and a playlist of no items.
PlayableAt(p, t) ==
    /\ Items[p] # {}
    /\ \A m \in Items[p] : MediaExpiresAt[m] > t

Unpublished(c) ==
    candidateRows[c] # None /\ candidateRows[c].state # "PUBLISHED"

-----------------------------------------------------------------------------
(* Library and fleet.                                                       *)

CreateScreen(u, s) ==
    /\ Holds(u, Administrators) /\ screens[s] = "unknown"
    /\ screens' = [screens EXCEPT ![s] = "live"]
    /\ UNCHANGED <<now, users, media, playlists, publishedReleases,
                   candidateRows, candidateTargets, approvals, publications,
                   assignmentRows, idempotency, revoked>>

\* The deletion sets every live reference to the screen to NULL.
Detach(targets, s) ==
    IF targets[s] = "live" THEN [targets EXCEPT ![s] = "detached"] ELSE targets

DeleteScreen(u, s) ==
    /\ Holds(u, Administrators) /\ screens[s] = "live"
    /\ screens' = [screens EXCEPT ![s] = "deleted"]
    /\ candidateTargets' = [c \in Candidates |-> Detach(candidateTargets[c], s)]
    /\ assignmentRows' = {[a EXCEPT !.targets = Detach(@, s)] :
                             a \in assignmentRows}
    /\ UNCHANGED <<now, users, media, playlists, publishedReleases,
                   candidateRows, approvals, publications, idempotency,
                   revoked>>

CreateMedia(u, m) ==
    /\ Holds(u, Editors) /\ media[m] = "unknown"
    /\ media' = [media EXCEPT ![m] = "stored"]
    /\ UNCHANGED <<now, users, screens, playlists, publishedReleases,
                   candidateRows, candidateTargets, approvals, publications,
                   assignmentRows, idempotency, revoked>>

DeleteMedia(u, m) ==
    /\ Holds(u, Editors) /\ media[m] = "stored"
    /\ \A p \in Playlists : playlists[p] = "stored" => m \notin Items[p]
    /\ \A p \in publishedReleases : m \notin Items[p]
    /\ media' = [media EXCEPT ![m] = "deleted"]
    /\ UNCHANGED <<now, users, screens, playlists, publishedReleases,
                   candidateRows, candidateTargets, approvals, publications,
                   assignmentRows, idempotency, revoked>>

CreatePlaylist(u, p) ==
    /\ Holds(u, Editors) /\ playlists[p] = "unknown"
    /\ \A m \in Items[p] : media[m] = "stored"
    /\ playlists' = [playlists EXCEPT ![p] = "stored"]
    /\ UNCHANGED <<now, users, screens, media, publishedReleases,
                   candidateRows, candidateTargets, approvals, publications,
                   assignmentRows, idempotency, revoked>>

\* Refused while a schedule or a frozen release refers to the playlist.
DeletePlaylist(u, p) ==
    /\ Holds(u, Editors) /\ playlists[p] = "stored"
    /\ \A a \in assignmentRows : a.release # p
    /\ p \notin publishedReleases
    /\ playlists' = [playlists EXCEPT ![p] = "deleted"]
    /\ UNCHANGED <<now, users, screens, media, publishedReleases,
                   candidateRows, candidateTargets, approvals, publications,
                   assignmentRows, idempotency, revoked>>

-----------------------------------------------------------------------------
(* Idempotency records.                                                     *)

\* A key that has a record is never used for another operation: the request
\* is answered from the record or refused.
KeyIsNew(op, c) == idempotency[op][c] = None

\* The records as they are once the responses of the candidates P, which a
\* creation prunes, have been set to NULL.
ForgetPruned(records, P) ==
    [o \in Operations |-> [c \in Candidates |->
        IF c \in P /\ o # "publish" /\ records[o][c] # None
        THEN [records[o][c] EXCEPT !.body = None] ELSE records[o][c]]]

\* compactExpiredIdempotencyResponses: the responses of a batch of expired
\* records, the longest expired first, are set to NULL.
CompactChoices(records) ==
    LET compactable == {r \in Operations \X Candidates :
                           LET record == records[r[1]][r[2]] IN
                           /\ record # None
                           /\ record.body # None
                           /\ record.expiresAt <= now}
        size == Cardinality(compactable)
    IN {R \in SUBSET compactable :
           /\ Cardinality(R) = IF size < CompactBatch THEN size ELSE CompactBatch
           /\ \A r \in R, q \in compactable \ R :
                 records[r[1]][r[2]].expiresAt <= records[q[1]][q[2]].expiresAt}

\* An operation records its response and compacts what has expired.
RememberIn(records, op, c, u, response) ==
    LET recorded == [records EXCEPT
                       ![op][c] = [actor |-> u, expiresAt |-> now + Retention,
                                   body |-> response]]
    IN \E R \in CompactChoices(recorded) :
          idempotency' = [o \in Operations |-> [d \in Candidates |->
              IF <<o, d>> \in R THEN [recorded[o][d] EXCEPT !.body = None]
              ELSE recorded[o][d]]]

-----------------------------------------------------------------------------
(* Candidates.                                                              *)

\* The expired, never published candidates past the replay window.
Prunable ==
    {c \in Candidates : /\ Unpublished(c)
                        /\ candidateRows[c].expiresAt <= now - Retention
                        /\ publications[c] = None}

PruneChoices ==
    LET size == Cardinality(Prunable) IN
    {P \in SUBSET Prunable :
        /\ Cardinality(P) = IF size < PruneBatch THEN size ELSE PruneBatch
        /\ \A c \in P, d \in Prunable \ P :
              candidateRows[c].expiresAt <= candidateRows[d].expiresAt}

\* Mutant of UnreferencedReleases: every release of a pruned candidate.
PrunedReleases(P) ==
    {p \in publishedReleases : \E c \in P : candidateRows[c].release = p}

\* Releases that a pruned candidate had and no row refers to any more.
UnreferencedReleases(P) ==
    {p \in publishedReleases :
        /\ \E c \in P : candidateRows[c].release = p
        /\ \A c \in Candidates \ P :
              candidateRows[c] # None => candidateRows[c].release # p
        /\ \A a \in assignmentRows : a.release # p}

NoTargets == [s \in Screens |-> "none"]

MayCreate(P, p, S) ==
    LET rest == {c \in Candidates \ P : Unpublished(c)} IN
    /\ S # {}
    /\ Cardinality({c \in rest : candidateRows[c].expiresAt > now})
          < MaxOutstanding
    /\ Cardinality(rest) < MaxRetained
    /\ playlists[p] = "stored"
    /\ \A s \in S : screens[s] = "live"
    /\ PlayableAt(p, now)

NewRow(u, p, S, life) ==
    [state |-> "DRAFT", digest |-> CandidateDigest(p, S, now + life),
     author |-> u, release |-> p, expiresAt |-> now + life,
     submittedAt |-> None, approvedAt |-> None, publishedAt |-> None]

\* createReleaseCandidateAndAudit, accepted: prune, freeze the playlist under
\* its digest unless it already is, insert the candidate and its targets.
CreateCandidate(u, c, p, S, life) ==
    /\ Can(u, "create") /\ KeyIsNew("create", c)
    /\ life \in 1 .. MaxLifetime
    /\ \E P \in PruneChoices :
          /\ MayCreate(P, p, S)
          /\ candidateRows' =
               [d \in Candidates |-> IF d = c THEN NewRow(u, p, S, life)
                                     ELSE IF d \in P THEN None
                                     ELSE candidateRows[d]]
          /\ candidateTargets' =
               [d \in Candidates |->
                  IF d = c
                  THEN [s \in Screens |-> IF s \in S THEN "live" ELSE "none"]
                  ELSE IF d \in P THEN NoTargets ELSE candidateTargets[d]]
          /\ approvals' = [d \in Candidates |->
                              IF d \in P THEN None ELSE approvals[d]]
          /\ publishedReleases' =
               (publishedReleases \ UnreferencedReleases(P)) \cup {p}
          /\ RememberIn(ForgetPruned(idempotency, P), "create", c, u,
                        [id |-> c, state |-> "DRAFT",
                         digest |-> CandidateDigest(p, S, now + life),
                         author |-> u, playlist |-> p, screens |-> S,
                         expiresAt |-> now + life, submittedAt |-> None,
                         approvedAt |-> None, publishedAt |-> None,
                         approval |-> None, publication |-> None])
    /\ UNCHANGED <<now, users, library, publications, assignmentRows, revoked>>

\* The same, refused after the pruning: the transaction commits what it
\* pruned and answers with the reason.
RefuseCandidate(u, p, S) ==
    /\ Can(u, "create") /\ Prunable # {}
    /\ \E P \in PruneChoices :
          /\ ~MayCreate(P, p, S)
          /\ candidateRows' = [d \in Candidates |->
                                  IF d \in P THEN None ELSE candidateRows[d]]
          /\ candidateTargets' =
               [d \in Candidates |->
                  IF d \in P THEN NoTargets ELSE candidateTargets[d]]
          /\ approvals' = [d \in Candidates |->
                              IF d \in P THEN None ELSE approvals[d]]
          /\ publishedReleases' = publishedReleases \ UnreferencedReleases(P)
          /\ idempotency' = ForgetPruned(idempotency, P)
    /\ UNCHANGED <<now, users, library, publications, assignmentRows, revoked>>

SubmitCandidate(u, c) ==
    /\ Can(u, "submit") /\ KeyIsNew("submit", c)
    /\ candidateRows[c] # None /\ HasValidDigest(c)
    /\ candidateRows[c].expiresAt > now
    /\ candidateRows[c].author = u /\ candidateRows[c].state = "DRAFT"
    /\ candidateRows' = [candidateRows EXCEPT ![c].state = "IN_REVIEW",
                                              ![c].submittedAt = now]
    /\ RememberIn(idempotency, "submit", c, u,
                  [CandidateDto(c) EXCEPT !.state = "IN_REVIEW",
                                          !.submittedAt = now])
    /\ UNCHANGED <<now, users, library, publishedReleases, candidateTargets,
                   approvals, publications, assignmentRows, revoked>>

\* The approval binds the approver's two epochs of that moment.
ApproveCandidate(u, c) ==
    LET approval == [approver |-> u, authn |-> users[u].authn,
                     authz |-> users[u].authz, approvedAt |-> now] IN
    /\ Can(u, "approve") /\ KeyIsNew("approve", c)
    /\ candidateRows[c] # None /\ HasValidDigest(c)
    /\ candidateRows[c].expiresAt > now
    /\ candidateRows[c].author # u /\ candidateRows[c].state = "IN_REVIEW"
    /\ approvals' = [approvals EXCEPT ![c] = approval]
    /\ candidateRows' = [candidateRows EXCEPT ![c].state = "APPROVED",
                                              ![c].approvedAt = now]
    /\ RememberIn(idempotency, "approve", c, u,
                  [CandidateDto(c) EXCEPT !.state = "APPROVED",
                                          !.approvedAt = now,
                                          !.approval = approval])
    /\ UNCHANGED <<now, users, library, publishedReleases, candidateTargets,
                   publications, assignmentRows, revoked>>

\* Mutant of ApprovalStands: the approver's present role is all that counts.
ApproverStillMayApprove(c) ==
    /\ approvals[c].approver # candidateRows[c].author
    /\ Can(approvals[c].approver, "approve")

\* The check that the approval still stands, made with the approver's rows
\* locked.
ApprovalStands(c) ==
    LET approval == approvals[c] IN
    /\ approval.approver # candidateRows[c].author
    /\ Can(approval.approver, "approve")
    /\ users[approval.approver].authn = approval.authn
    /\ users[approval.approver].authz = approval.authz

\* What a publication asks for: everything that the approval rested on is
\* read again.
MayPublish(u, c) ==
    /\ Can(u, "publish") /\ KeyIsNew("publish", c)
    /\ candidateRows[c] # None /\ HasValidDigest(c)
    /\ PlayableAt(candidateRows[c].release, now)
    /\ candidateRows[c].expiresAt > now
    /\ candidateRows[c].state = "APPROVED" /\ approvals[c] # None
    /\ ApprovalStands(c)
    /\ TargetNames(candidateTargets[c]) # {} /\ AllLive(candidateTargets[c])

\* publishReleaseCandidateAndAudit: the schedule, the assignment with its
\* targets, the publication and the state of the candidate are written
\* together.
PublishCandidate(u, c) ==
    LET publication == [assignment |-> <<c, "ASSIGNED">>, publisher |-> u] IN
    /\ MayPublish(u, c)
    /\ assignmentRows' = assignmentRows \cup
          {[id |-> <<c, "ASSIGNED">>, schedule |-> c,
            release |-> candidateRows[c].release, state |-> "ASSIGNED",
            previous |-> None, targets |-> candidateTargets[c],
            digest |-> AssignmentDigest(candidateRows[c].release, "ASSIGNED",
                           TargetNames(candidateTargets[c]), None)]}
    /\ publications' = [publications EXCEPT ![c] = publication]
    /\ candidateRows' = [candidateRows EXCEPT ![c].state = "PUBLISHED",
                                              ![c].publishedAt = now]
    /\ RememberIn(idempotency, "publish", c, u,
                  [CandidateDto(c) EXCEPT !.state = "PUBLISHED",
                                          !.publishedAt = now,
                                          !.publication = publication])
    /\ UNCHANGED <<now, users, library, publishedReleases, candidateTargets,
                   approvals, revoked>>

Latest(schedule) ==
    {a \in assignmentRows : /\ a.schedule = schedule
                            /\ \A b \in assignmentRows : b.previous # a.id}

\* Mutant of WithdrawalTargets: the withdrawal names its screens, unbound.
UnboundTargets(previous) ==
    [s \in Screens |-> IF previous.targets[s] = "none" THEN "none"
                       ELSE "detached"]

\* The targets a withdrawal copies from the assignment it succeeds, live
\* references included.
WithdrawalTargets(previous) == previous.targets

WithdrawSchedule(u, c) ==
    /\ Can(u, "withdraw")
    /\ \E previous \in Latest(c) :
          /\ previous.state = "ASSIGNED"
          /\ assignmentRows' = assignmentRows \cup
                {[id |-> <<c, "WITHDRAWN">>, schedule |-> c,
                  release |-> previous.release, state |-> "WITHDRAWN",
                  previous |-> previous.id,
                  targets |-> WithdrawalTargets(previous),
                  digest |-> AssignmentDigest(previous.release, "WITHDRAWN",
                                 TargetNames(previous.targets), previous.id)]}
    /\ UNCHANGED <<now, users, library, publishedReleases, candidateRows,
                   candidateTargets, approvals, publications, idempotency,
                   revoked>>

-----------------------------------------------------------------------------
(* Authority changes of a user, and time.                                   *)

OwnerRemainsWithout(u) ==
    Holds(u, {"OWNER"}) => \E v \in Users \ {u} : Holds(v, {"OWNER"})

ChangesLeft ==
    MapThenSumSet(LAMBDA u : users[u].authn + users[u].authz, Users)
        < MaxAuthorityChanges

ChangeAuthority(u, change) ==
    /\ users[u].role # "NONE" /\ ChangesLeft
    /\ users' = [users EXCEPT ![u] = change]
    /\ revoked' = revoked \cup
          {c \in Candidates : /\ approvals[c] # None
                              /\ approvals[c].approver = u
                              /\ Unpublished(c)}
    /\ UNCHANGED <<now, library, publishedReleases, candidateRows,
                   candidateTargets, approvals, publications, assignmentRows,
                   idempotency>>

ChangeRole(u, role) ==
    /\ role # "OWNER" => OwnerRemainsWithout(u)
    /\ ChangeAuthority(u, [users[u] EXCEPT !.role = role, !.authz = @ + 1])

RemoveMembership(u) ==
    /\ OwnerRemainsWithout(u)
    /\ ChangeAuthority(u, [users[u] EXCEPT !.role = "NONE", !.authz = @ + 1])

DisableUser(u) ==
    /\ OwnerRemainsWithout(u)
    /\ ChangeAuthority(u, [users[u] EXCEPT !.disabled = TRUE, !.authn = @ + 1])

RotatePassword(u) ==
    ChangeAuthority(u, [users[u] EXCEPT !.authn = @ + 1])

Tick ==
    /\ now < MaxTime
    /\ now' = now + 1
    /\ UNCHANGED <<users, library, publishedReleases, candidateRows,
                   candidateTargets, approvals, publications, assignmentRows,
                   idempotency, revoked>>

Next ==
    \/ \E u \in Users :
        \/ \E s \in Screens : CreateScreen(u, s) \/ DeleteScreen(u, s)
        \/ \E m \in Media : CreateMedia(u, m) \/ DeleteMedia(u, m)
        \/ \E p \in Playlists : CreatePlaylist(u, p) \/ DeletePlaylist(u, p)
        \/ \E p \in Playlists, S \in SUBSET Screens :
              \/ \E c \in Candidates, life \in 1 .. MaxLifetime :
                    CreateCandidate(u, c, p, S, life)
              \/ RefuseCandidate(u, p, S)
        \/ \E c \in Candidates :
              \/ SubmitCandidate(u, c) \/ ApproveCandidate(u, c)
              \/ PublishCandidate(u, c) \/ WithdrawSchedule(u, c)
        \/ \E role \in OfferedRoles : ChangeRole(u, role)
        \/ RemoveMembership(u) \/ DisableUser(u) \/ RotatePassword(u)
    \/ Tick

Spec == Init /\ [][Next]_storeVars

-----------------------------------------------------------------------------
(* What the players are given.                                              *)

\* hasPublishedAssignmentProvenance: publication, candidate and assignment
\* name each other, and every target of the assignment is still live.
HasProvenance(a) ==
    /\ publications[a.schedule] # None
    /\ publications[a.schedule].assignment = a.id
    /\ candidateRows[a.schedule] # None
    /\ candidateRows[a.schedule].state = "PUBLISHED"
    /\ TargetNames(a.targets) # {} /\ AllLive(a.targets)

\* isValidWithdrawalSuccessor: only an exact successor withdraws.
IsWithdrawnBy(a, successor) ==
    /\ a.state = "ASSIGNED" /\ successor.state = "WITHDRAWN"
    /\ successor.previous = a.id
    /\ successor.release = a.release /\ successor.schedule = a.schedule
    /\ AssignmentVerified(a) /\ AssignmentVerified(successor)
    /\ successor.targets = a.targets

\* activeOrdinaryReleases, the window of the schedule aside.
ActiveAssignments(s) ==
    {a \in assignmentRows :
        /\ a.state = "ASSIGNED"
        /\ HasProvenance(a) /\ AssignmentVerified(a)
        /\ \A b \in assignmentRows : ~IsWithdrawnBy(a, b)
        /\ s \in TargetNames(a.targets)}

\* authorizeMediaDelivery, the window of the schedule aside.
MayDeliver(s, m) ==
    \E a \in ActiveAssignments(s) : m \in Items[a.release]
                                    /\ MediaExpiresAt[m] > now
\* listSchedules: the schedules shown, each of which may be withdrawn.
ListedSchedules ==
    {a.schedule : a \in {b \in assignmentRows :
        /\ b.state = "ASSIGNED" /\ HasProvenance(b) /\ AssignmentVerified(b)
        /\ \A d \in assignmentRows : ~IsWithdrawnBy(b, d)}}

-----------------------------------------------------------------------------
(* Correctness.                                                             *)

\* While a response is retained, repeating the request that was answered is
\* answered with exactly that response: pruning, compaction, later operations
\* on the candidate and the deletion of its screens never turn a replay into
\* an error or into another answer (verifiedReleaseCandidateReplay).
ReplayIsFaithful ==
    \A op \in Operations, c \in Candidates :
        LET record == idempotency[op][c] IN
        record # None /\ record.expiresAt > now =>
            record.body # None /\ ReplayVerified(op, record.body)

\* What a screen plays was approved by somebody other than its author whose
\* password, role and membership did not change before it was published, and
\* its playlist and media are still in the library.
OnlyApprovedIsDelivered ==
    \A s \in Screens : \A a \in ActiveAssignments(s) :
        /\ approvals[a.schedule] # None
        /\ approvals[a.schedule].approver # candidateRows[a.schedule].author
        /\ a.schedule \notin revoked
        /\ playlists[a.release] = "stored"
        /\ \A m \in Media : MayDeliver(s, m) => media[m] = "stored"

\* The workflow this store implements: rows joined into one value.
ApprovalValues == [approver : Users, authn : Nat, authz : Nat]
CandidateValues ==
    [state : States, author : Users, playlist : Playlists,
     screens : SUBSET Screens, expiresAt : Nat, approval : Maybe(ApprovalValues)]
RecordValues == [actor : Users, expiresAt : Nat]

\* NULL is none of these either.
ASSUME NullValueAssumption ==
    None \notin ApprovalValues \cup CandidateValues \cup RecordValues

CandidateValue(c) ==
    IF candidateRows[c] = None THEN None
    ELSE [state |-> candidateRows[c].state, author |-> candidateRows[c].author,
          playlist |-> candidateRows[c].release,
          screens |-> TargetNames(candidateTargets[c]),
          expiresAt |-> candidateRows[c].expiresAt,
          approval |-> IF approvals[c] = None THEN None
                       ELSE [approver |-> approvals[c].approver,
                             authn |-> approvals[c].authn,
                             authz |-> approvals[c].authz]]

AssignmentValue(c) ==
    IF \E a \in assignmentRows : a.schedule = c /\ a.state = "WITHDRAWN"
    THEN "WITHDRAWN"
    ELSE IF \E a \in assignmentRows : a.schedule = c THEN "ASSIGNED" ELSE "NONE"

RecordValue(record) ==
    IF record = None THEN None
    ELSE [actor |-> record.actor, expiresAt |-> record.expiresAt]

Workflow == INSTANCE ReleaseWorkflow WITH
    releases <- publishedReleases,
    candidates <- [c \in Candidates |-> CandidateValue(c)],
    assignments <- [c \in Candidates |-> AssignmentValue(c)],
    records <- [o \in Operations |->
                   [c \in Candidates |-> RecordValue(idempotency[o][c])]]

\* Every transaction of the database store is a step of the in-memory store,
\* or changes nothing that the in-memory store knows of.
ImplementsWorkflow == Workflow!WorkflowSpec

\* A screen is given exactly the schedules that the workflow assigns to it
\* and has not withdrawn, but for those of which some target screen was
\* deleted: they are given to no screen any more.  The schedules listed, and
\* with them those that can be withdrawn there, are the ones some screen is
\* given.
DeliveredAsPromised ==
    LET given(s) == {a.schedule : a \in ActiveAssignments(s)} IN
    /\ \A s \in Screens :
          screens[s] = "live" =>
              given(s) = {c \in Workflow!Deliverable(s) :
                             AllLive(candidateTargets[c])}
    /\ ListedSchedules = UNION {given(s) : s \in Screens}
=============================================================================
