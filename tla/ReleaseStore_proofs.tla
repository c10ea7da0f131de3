------------------------- MODULE ReleaseStore_proofs -------------------------
(***************************************************************************)
(* Proofs about ReleaseStore, for any users, screens, library, candidates  *)
(* and lifetimes: what may be shown was approved and still stands, replays *)
(* are faithful, the screens get what the workflow assigns, and the tables *)
(* implement ReleaseWorkflow.                                              *)
(***************************************************************************)
EXTENDS ReleaseStore, TLAPS

\* The library still has what is frozen.
LibraryKept ==
    /\ \A p \in publishedReleases : playlists[p] = "stored"
    /\ \A p \in Playlists : playlists[p] = "stored" =>
          \A m \in Items[p] : media[m] = "stored"

\* The columns and rows that a candidate has in each of its states.
ColumnsFilled(c) ==
    LET row == candidateRows[c] IN
    /\ row.state = "DRAFT" <=> row.submittedAt = None
    /\ row.state \in {"DRAFT", "IN_REVIEW"} <=> row.approvedAt = None
    /\ row.state \in {"DRAFT", "IN_REVIEW"} <=> approvals[c] = None
    /\ row.state # "PUBLISHED" <=> row.publishedAt = None
    /\ row.state # "PUBLISHED" <=> publications[c] = None
    /\ approvals[c] # None => approvals[c].approver # row.author
    /\ publications[c] # None => publications[c].assignment = <<c, "ASSIGNED">>

\* A candidate is what was created, filled as far as its state says.
CandidateShaped(c) ==
    /\ HasValidDigest(c)
    /\ TargetNames(candidateTargets[c]) # {}
    /\ idempotency["create"][c] # None
    /\ candidateRows[c].release \in publishedReleases
    /\ ColumnsFilled(c)

CandidatesShaped ==
    \A c \in Candidates :
        IF candidateRows[c] # None THEN CandidateShaped(c)
        ELSE approvals[c] = None /\ publications[c] = None

\* A record of an operation on a candidate that is still there says what the
\* candidate was; one that lost its response, or its candidate, has expired.
RecordFaithful(op, c) ==
    LET record == idempotency[op][c] IN
    /\ idempotency["create"][c] # None
    /\ record.body = None \/ candidateRows[c] = None => record.expiresAt <= now
    /\ op = "publish" => candidateRows[c] # None
    /\ candidateRows[c] # None =>
          /\ record.expiresAt < candidateRows[c].expiresAt + Retention
          /\ Rank[candidateRows[c].state] >= Rank[StateAfter[op]]
          /\ record.body # None => record.body = ResponseThen(op, c)

RecordsFaithful ==
    \A op \in Operations, c \in Candidates :
        idempotency[op][c] # None => RecordFaithful(op, c)

\* The assignment of a schedule in a state: every column but the state is
\* what the candidate has.
AssignmentOf(c, state) ==
    LET release == candidateRows[c].release
        previous == IF state = "ASSIGNED" THEN None ELSE <<c, "ASSIGNED">>
    IN [id |-> <<c, state>>, schedule |-> c, release |-> release,
        state |-> state, previous |-> previous,
        targets |-> candidateTargets[c],
        digest |-> AssignmentDigest(release, state,
                       TargetNames(candidateTargets[c]), previous)]

AssignmentsMatch ==
    \A a \in assignmentRows :
        /\ candidateRows[a.schedule] # None
        /\ candidateRows[a.schedule].state = "PUBLISHED"
        /\ a = AssignmentOf(a.schedule, a.state)
        /\ a.state = "WITHDRAWN" =>
              AssignmentOf(a.schedule, "ASSIGNED") \in assignmentRows

\* An approval never has epochs of the future, and one that was revoked has
\* an epoch of the past: its candidate is not published any more.
EpochsGrow ==
    /\ \A c \in Candidates : approvals[c] # None =>
          /\ approvals[c].authn <= users[approvals[c].approver].authn
          /\ approvals[c].authz <= users[approvals[c].approver].authz
    /\ \A c \in revoked :
          /\ idempotency["create"][c] # None
          /\ candidateRows[c] # None =>
                /\ candidateRows[c].state = "APPROVED"
                /\ \/ approvals[c].authn < users[approvals[c].approver].authn
                   \/ approvals[c].authz < users[approvals[c].approver].authz

StoreInv ==
    /\ StoreTypeOK /\ LibraryKept /\ CandidatesShaped /\ RecordsFaithful
    /\ AssignmentsMatch /\ EpochsGrow
-----------------------------------------------------------------------------
(* Rows and responses.                                                     *)

LEMMA Numbers == Retention \in Nat /\ Retention > 0 /\ 1 .. MaxLifetime \subseteq Nat
BY ReleaseAssumption

LEMMA RowTypes ==
    ASSUME StoreTypeOK, NEW c \in Candidates, candidateRows[c] # None
    PROVE  candidateRows[c] \in Rows
BY DEF StoreTypeOK, Maybe

LEMMA ApprovalTypes ==
    ASSUME StoreTypeOK, NEW c \in Candidates, approvals[c] # None
    PROVE  approvals[c] \in Approvals
BY DEF StoreTypeOK, Maybe

LEMMA RecordTypes ==
    ASSUME StoreTypeOK, NEW op \in Operations, NEW c \in Candidates,
           idempotency[op][c] # None
    PROVE  idempotency[op][c] \in Records
BY DEF StoreTypeOK, Maybe

LEMMA TargetTypes ==
    ASSUME StoreTypeOK, NEW c \in Candidates
    PROVE  candidateTargets[c] \in Targets /\ TargetNames(candidateTargets[c]) \subseteq Screens
BY DEF StoreTypeOK, TargetNames

LEMMA Ranks ==
    /\ Rank["DRAFT"] = 0 /\ Rank["IN_REVIEW"] = 1 /\ Rank["APPROVED"] = 2
    /\ Rank["PUBLISHED"] = 3
    /\ StateAfter["create"] = "DRAFT" /\ StateAfter["submit"] = "IN_REVIEW"
    /\ StateAfter["approve"] = "APPROVED" /\ StateAfter["publish"] = "PUBLISHED"
BY DEF Rank, StateAfter

LEMMA RankTypes ==
    /\ \A state \in States : Rank[state] \in 0 .. 3
    /\ \A op \in Operations : StateAfter[op] \in States /\ Rank[StateAfter[op]] \in 0 .. 3
BY Ranks DEF States, Operations

\* The response of an operation, from the candidate as it is later.
ResponseOf(op, live) ==
    LET rank == Rank[StateAfter[op]]
    IN [live EXCEPT !.state = StateAfter[op],
                    !.submittedAt = IF rank < 1 THEN None ELSE @,
                    !.approvedAt = IF rank < 2 THEN None ELSE @,
                    !.approval = IF rank < 2 THEN None ELSE @,
                    !.publishedAt = IF rank < 3 THEN None ELSE @,
                    !.publication = IF rank < 3 THEN None ELSE @]

LEMMA ResponseColumns ==
    ASSUME NEW op \in Operations, NEW live \in Bodies
    PROVE  LET rank == Rank[StateAfter[op]]
               then == ResponseOf(op, live)
           IN  /\ then \in Bodies
               /\ then.id = live.id /\ then.state = StateAfter[op]
               /\ then.digest = live.digest /\ then.author = live.author
               /\ then.playlist = live.playlist /\ then.screens = live.screens
               /\ then.expiresAt = live.expiresAt
               /\ then.submittedAt = IF rank < 1 THEN None ELSE live.submittedAt
               /\ then.approvedAt = IF rank < 2 THEN None ELSE live.approvedAt
               /\ then.approval = IF rank < 2 THEN None ELSE live.approval
               /\ then.publishedAt = IF rank < 3 THEN None ELSE live.publishedAt
               /\ then.publication = IF rank < 3 THEN None ELSE live.publication
<1> DEFINE rank == Rank[StateAfter[op]]
           state == StateAfter[op]
           submitted == IF rank < 1 THEN None ELSE live.submittedAt
           approved == IF rank < 2 THEN None ELSE live.approvedAt
           approval == IF rank < 2 THEN None ELSE live.approval
           published == IF rank < 3 THEN None ELSE live.publishedAt
           publication == IF rank < 3 THEN None ELSE live.publication
           then == [live EXCEPT !.state = state, !.submittedAt = submitted,
                                !.approvedAt = approved, !.approval = approval,
                                !.publishedAt = published, !.publication = publication]
<1>1. state \in States
  BY RankTypes
<1>2. /\ submitted \in Maybe(Nat) /\ approved \in Maybe(Nat) /\ published \in Maybe(Nat)
      /\ approval \in Maybe(Approvals) /\ publication \in Maybe(Publications)
  BY DEF Bodies, Maybe
<1>3. ResponseOf(op, live) = then
  BY DEF Bodies, ResponseOf
<1> HIDE DEF state, submitted, approved, approval, published, publication
<1>4. /\ then \in Bodies
      /\ then.id = live.id /\ then.state = state
      /\ then.digest = live.digest /\ then.author = live.author
      /\ then.playlist = live.playlist /\ then.screens = live.screens
      /\ then.expiresAt = live.expiresAt
      /\ then.submittedAt = submitted /\ then.approvedAt = approved
      /\ then.approval = approval /\ then.publishedAt = published
      /\ then.publication = publication
  BY <1>1, <1>2 DEF Bodies
<1> HIDE DEF then
<1> QED BY <1>3, <1>4 DEF state, submitted, approved, approval, published, publication

LEMMA SameBody ==
    ASSUME NEW r \in Bodies, NEW s \in Bodies,
           r.id = s.id, r.state = s.state, r.digest = s.digest, r.author = s.author,
           r.playlist = s.playlist, r.screens = s.screens, r.expiresAt = s.expiresAt,
           r.submittedAt = s.submittedAt, r.approvedAt = s.approvedAt,
           r.publishedAt = s.publishedAt, r.approval = s.approval,
           r.publication = s.publication
    PROVE  r = s
BY DEF Bodies

LEMMA DtoTyped ==
    ASSUME StoreTypeOK, NEW c \in Candidates, candidateRows[c] # None
    PROVE  CandidateDto(c) \in Bodies
<1>1. candidateRows[c] \in Rows /\ TargetNames(candidateTargets[c]) \in SUBSET Screens
  BY RowTypes, TargetTypes
<1>2. approvals[c] \in Maybe(Approvals) /\ publications[c] \in Maybe(Publications)
  BY DEF StoreTypeOK
<1> QED BY <1>1, <1>2 DEF CandidateDto, Bodies, Rows

\* What a step may do to a candidate that stays: columns are filled as its
\* state advances and never rewritten.
CandidateGrows(c) ==
    LET row == candidateRows[c]
        next == candidateRows'[c]
    IN /\ next \in Rows
       /\ next.digest = row.digest /\ next.author = row.author
       /\ next.release = row.release /\ next.expiresAt = row.expiresAt
       /\ TargetNames(candidateTargets[c])' = TargetNames(candidateTargets[c])
       /\ Rank[next.state] >= Rank[row.state]
       /\ Rank[row.state] >= 1 => next.submittedAt = row.submittedAt
       /\ Rank[row.state] >= 2 =>
             next.approvedAt = row.approvedAt /\ approvals'[c] = approvals[c]
       /\ Rank[row.state] >= 3 =>
             next.publishedAt = row.publishedAt /\ publications'[c] = publications[c]

\* What a step may do to a record: an expired response is forgotten.
Compacted(before, after) ==
    \/ after = before
    \/ /\ before # None /\ before.expiresAt <= now
       /\ after = [before EXCEPT !.body = None]

LEMMA ResponseKept ==
    ASSUME NEW op \in Operations, NEW c \in Candidates, StoreTypeOK, StoreTypeOK',
           candidateRows[c] # None, CandidateGrows(c),
           Rank[candidateRows[c].state] >= Rank[StateAfter[op]]
    PROVE  ResponseThen(op, c)' = ResponseThen(op, c)
<1> DEFINE rank == Rank[StateAfter[op]]
           live == Rank[candidateRows[c].state]
<1>1. rank \in Nat /\ live \in Nat /\ live >= rank
  BY RowTypes, RankTypes DEF Rows
<1>2. /\ rank < 1 \/ candidateRows'[c].submittedAt = candidateRows[c].submittedAt
      /\ rank < 2 \/ candidateRows'[c].approvedAt = candidateRows[c].approvedAt
      /\ rank < 2 \/ approvals'[c] = approvals[c]
      /\ rank < 3 \/ candidateRows'[c].publishedAt = candidateRows[c].publishedAt
      /\ rank < 3 \/ publications'[c] = publications[c]
  BY <1>1 DEF CandidateGrows
<1>3. /\ candidateRows'[c].digest = candidateRows[c].digest
      /\ candidateRows'[c].author = candidateRows[c].author
      /\ candidateRows'[c].release = candidateRows[c].release
      /\ candidateRows'[c].expiresAt = candidateRows[c].expiresAt
      /\ TargetNames(candidateTargets[c])' = TargetNames(candidateTargets[c])
  BY DEF CandidateGrows
<1> DEFINE before == CandidateDto(c)
           after == CandidateDto(c)'
<1>4. before \in Bodies
  BY DtoTyped
<1>5. after \in Bodies
  <2>1. candidateRows'[c] \in Rows
    BY DEF CandidateGrows
  <2>2. TargetNames(candidateTargets[c])' \in SUBSET Screens
    BY TargetTypes, <1>3
  <2>3. approvals'[c] \in Maybe(Approvals) /\ publications'[c] \in Maybe(Publications)
    BY DEF StoreTypeOK
  <2> QED BY <2>1, <2>2, <2>3 DEF CandidateDto, Bodies, Rows
<1>6. /\ after.id = before.id /\ after.digest = before.digest
      /\ after.author = before.author /\ after.playlist = before.playlist
      /\ after.screens = before.screens /\ after.expiresAt = before.expiresAt
      /\ rank < 1 \/ after.submittedAt = before.submittedAt
      /\ rank < 2 \/ after.approvedAt = before.approvedAt
      /\ rank < 2 \/ after.approval = before.approval
      /\ rank < 3 \/ after.publishedAt = before.publishedAt
      /\ rank < 3 \/ after.publication = before.publication
  BY <1>2, <1>3 DEF CandidateDto
<1> HIDE DEF before, after
<1>7. /\ ResponseThen(op, c) = ResponseOf(op, before)
      /\ ResponseThen(op, c)' = ResponseOf(op, after)
  BY DEF ResponseThen, ResponseOf, before, after
<1>8. ResponseOf(op, before) = ResponseOf(op, after)
  <2> HIDE DEF rank
  <2> USE RankTypes
  <2>1. ResponseOf(op, before) \in Bodies /\ ResponseOf(op, after) \in Bodies
    BY <1>4, <1>5, ResponseColumns
  <2>2. LET b == ResponseOf(op, before)
            a == ResponseOf(op, after)
        IN /\ a.id = b.id /\ a.state = b.state /\ a.digest = b.digest
           /\ a.author = b.author /\ a.playlist = b.playlist /\ a.screens = b.screens
           /\ a.expiresAt = b.expiresAt /\ a.submittedAt = b.submittedAt
           /\ a.approvedAt = b.approvedAt /\ a.approval = b.approval
           /\ a.publishedAt = b.publishedAt /\ a.publication = b.publication
    BY <1>4, <1>5, <1>6, ResponseColumns DEF rank
  <2> QED BY <2>1, <2>2, SameBody
<1> QED BY <1>7, <1>8

\* A record of a candidate that stays, or that was gone before.
LEMMA RecordKept ==
    ASSUME StoreTypeOK, StoreTypeOK', NEW op \in Operations, NEW c \in Candidates,
           idempotency[op][c] # None, RecordFaithful(op, c),
           candidateRows[c] # None => CandidateGrows(c),
           candidateRows[c] = None => candidateRows'[c] = None,
           idempotency'["create"][c] # None,
           Compacted(idempotency[op][c], idempotency'[op][c]),
           now' \in Nat, now <= now'
    PROVE  idempotency'[op][c] # None /\ RecordFaithful(op, c)'
<1>1. /\ idempotency[op][c] \in Records
      /\ idempotency[op][c].expiresAt \in Nat /\ now \in Nat
  BY RecordTypes DEF Records, StoreTypeOK
<1>2. /\ idempotency'[op][c] \in Records
      /\ idempotency'[op][c].expiresAt = idempotency[op][c].expiresAt
      /\ \/ idempotency'[op][c].body = idempotency[op][c].body
         \/ idempotency'[op][c].body = None /\ idempotency[op][c].expiresAt <= now
  BY <1>1 DEF Compacted, Records, Maybe
<1>3. idempotency'[op][c] # None
  BY <1>2, NullAssumption
<1>4. CASE candidateRows[c] = None
  BY <1>1, <1>2, <1>3, <1>4 DEF RecordFaithful
<1>5. CASE candidateRows[c] # None
  <2>1. /\ candidateRows'[c] # None
        /\ candidateRows'[c].expiresAt = candidateRows[c].expiresAt
        /\ Rank[candidateRows'[c].state] >= Rank[candidateRows[c].state]
    BY <1>5, NullAssumption DEF CandidateGrows
  <2>2. /\ idempotency[op][c].expiresAt < candidateRows[c].expiresAt + Retention
        /\ Rank[candidateRows[c].state] >= Rank[StateAfter[op]]
        /\ idempotency[op][c].body # None =>
              idempotency[op][c].body = ResponseThen(op, c)
        /\ idempotency[op][c].body = None => idempotency[op][c].expiresAt <= now
    BY <1>5 DEF RecordFaithful
  <2>3. ResponseThen(op, c)' = ResponseThen(op, c)
    BY <1>5, <2>2, ResponseKept
  <2>4. idempotency'[op][c].body = None => idempotency'[op][c].expiresAt <= now'
    BY <1>1, <1>2, <2>2
  <2>5. idempotency'[op][c].body # None =>
              idempotency'[op][c].body = ResponseThen(op, c)'
    BY <1>2, <2>2, <2>3
  <2>6. Rank[candidateRows'[c].state] >= Rank[StateAfter[op]]
    <3>1. Rank[candidateRows[c].state] \in Nat /\ Rank[StateAfter[op]] \in Nat
      BY <1>5, RowTypes, RankTypes DEF Rows
    <3>2. Rank[candidateRows'[c].state] \in Nat
      BY <1>5, RankTypes DEF CandidateGrows, Rows
    <3> QED BY <2>1, <2>2, <3>1, <3>2
  <2> QED BY <1>2, <1>3, <2>1, <2>2, <2>4, <2>5, <2>6 DEF RecordFaithful
<1> QED BY <1>4, <1>5

-----------------------------------------------------------------------------
(* Steps that keep what they do not concern.                               *)

RecordTable == [Operations -> [Candidates -> Maybe(Records)]]

\* An operation's record is new; of the others expired responses may go.
LEMMA Remembered ==
    ASSUME now \in Nat, NEW records \in RecordTable, NEW op \in Operations,
           NEW c \in Candidates, NEW u \in Users, NEW response \in Bodies,
           RememberIn(records, op, c, u, response)
    PROVE  /\ idempotency' \in RecordTable
           /\ idempotency'[op][c] =
                [actor |-> u, expiresAt |-> now + Retention, body |-> response]
           /\ \A o \in Operations, d \in Candidates :
                 o # op \/ d # c => Compacted(records[o][d], idempotency'[o][d])
<1> DEFINE new == [actor |-> u, expiresAt |-> now + Retention, body |-> response]
           recorded == [records EXCEPT ![op][c] = new]
<1>1. new \in Records /\ new.expiresAt > now
  BY Numbers DEF Records, Maybe
<1>2. /\ recorded \in RecordTable /\ recorded[op][c] = new
      /\ \A o \in Operations, d \in Candidates :
            o # op \/ d # c => recorded[o][d] = records[o][d]
  BY <1>1 DEF RecordTable, Maybe
<1>3. PICK R \in CompactChoices(recorded) :
        idempotency' = [o \in Operations |-> [d \in Candidates |->
            IF <<o, d>> \in R THEN [recorded[o][d] EXCEPT !.body = None]
            ELSE recorded[o][d]]]
  BY DEF RememberIn
<1> HIDE DEF new, recorded
<1>4. ASSUME NEW o \in Operations, NEW d \in Candidates, <<o, d>> \in R
      PROVE  recorded[o][d] # None /\ recorded[o][d].expiresAt <= now
  BY <1>4 DEF CompactChoices
<1>5. ASSUME NEW o \in Operations, NEW d \in Candidates
      PROVE  /\ idempotency'[o][d] \in Maybe(Records)
             /\ Compacted(recorded[o][d], idempotency'[o][d])
  <2>1. CASE <<o, d>> \in R
    <3>1. recorded[o][d] \in Records
      BY <1>2, <1>4, <2>1 DEF RecordTable, Maybe
    <3>2. idempotency'[o][d] = [recorded[o][d] EXCEPT !.body = None]
      BY <1>3, <2>1
    <3>3. [recorded[o][d] EXCEPT !.body = None] \in Records
      BY <3>1 DEF Records, Maybe
    <3> QED BY <1>4, <2>1, <3>2, <3>3 DEF Compacted, Maybe
  <2>2. CASE <<o, d>> \notin R
    BY <1>2, <1>3, <2>2 DEF Compacted, RecordTable
  <2> QED BY <2>1, <2>2
<1>6. idempotency' \in RecordTable
  <2>1. idempotency' = [o \in Operations |-> [d \in Candidates |-> idempotency'[o][d]]]
    BY <1>3
  <2> QED BY <1>5, <2>1 DEF RecordTable
<1>7. idempotency'[op][c] = new
  <2>1. <<op, c>> \notin R
    <3>1. now < new.expiresAt /\ new.expiresAt \in Nat
      BY <1>1 DEF Records
    <3> QED BY <1>2, <1>4, <3>1
  <2> QED BY <1>2, <1>3, <2>1
<1> QED BY <1>2, <1>5, <1>6, <1>7 DEF new

\* A candidate whose columns stay.
LEMMA ShapeKept ==
    ASSUME NEW c \in Candidates, CandidateShaped(c),
           candidateRows'[c] = candidateRows[c],
           TargetNames(candidateTargets[c])' = TargetNames(candidateTargets[c]),
           approvals'[c] = approvals[c], publications'[c] = publications[c],
           idempotency'["create"][c] # None,
           candidateRows[c].release \in publishedReleases'
    PROVE  CandidateShaped(c)'
BY DEF CandidateShaped, ColumnsFilled, HasValidDigest

LEMMA UnchangedGrows ==
    ASSUME StoreTypeOK, NEW c \in Candidates, candidateRows[c] # None,
           candidateRows'[c] = candidateRows[c],
           TargetNames(candidateTargets[c])' = TargetNames(candidateTargets[c]),
           approvals'[c] = approvals[c], publications'[c] = publications[c]
    PROVE  CandidateGrows(c)
<1>1. candidateRows[c] \in Rows /\ Rank[candidateRows[c].state] \in Nat
  BY RowTypes, RankTypes DEF Rows
<1> QED BY <1>1 DEF CandidateGrows

\* A step that changes neither candidates nor their records.
LEMMA CandidatesKept ==
    ASSUME StoreInv, StoreTypeOK',
           UNCHANGED <<candidateRows, approvals, publications, idempotency>>,
           \A c \in Candidates :
              TargetNames(candidateTargets[c])' = TargetNames(candidateTargets[c]),
           publishedReleases' = publishedReleases, now <= now'
    PROVE  CandidatesShaped' /\ RecordsFaithful'
<1>1. CandidatesShaped'
  <2> SUFFICES ASSUME NEW c \in Candidates
               PROVE  IF candidateRows'[c] # None THEN CandidateShaped(c)'
                      ELSE approvals'[c] = None /\ publications'[c] = None
    BY DEF CandidatesShaped
  <2>1. CASE candidateRows[c] = None
    BY <2>1 DEF StoreInv, CandidatesShaped
  <2>2. CASE candidateRows[c] # None
    <3>1. CandidateShaped(c)
      BY <2>2 DEF StoreInv, CandidatesShaped
    <3>2. idempotency'["create"][c] # None /\ candidateRows[c].release \in publishedReleases'
      BY <3>1 DEF CandidateShaped
    <3> QED BY <2>2, <3>1, <3>2, ShapeKept
  <2> QED BY <2>1, <2>2
<1>2. RecordsFaithful'
  <2> SUFFICES ASSUME NEW op \in Operations, NEW c \in Candidates, idempotency'[op][c] # None
               PROVE  RecordFaithful(op, c)'
    BY DEF RecordsFaithful
  <2>1. idempotency[op][c] # None /\ RecordFaithful(op, c)
    BY DEF StoreInv, RecordsFaithful
  <2>2. candidateRows[c] # None => CandidateGrows(c)
    BY UnchangedGrows DEF StoreInv
  <2>3. idempotency'["create"][c] # None /\ now' \in Nat
    BY <2>1 DEF RecordFaithful, StoreTypeOK
  <2> QED BY <2>1, <2>2, <2>3, RecordKept DEF StoreInv, Compacted
<1> QED BY <1>1, <1>2

LEMMA AssignmentsKept ==
    ASSUME StoreInv, assignmentRows' = assignmentRows,
           \A c \in Candidates :
              candidateRows[c] # None /\ candidateRows[c].state = "PUBLISHED" =>
                 /\ candidateRows'[c] = candidateRows[c]
                 /\ candidateTargets'[c] = candidateTargets[c]
    PROVE  AssignmentsMatch'
<1> SUFFICES ASSUME NEW a \in assignmentRows
             PROVE  /\ candidateRows'[a.schedule] # None
                    /\ candidateRows'[a.schedule].state = "PUBLISHED"
                    /\ a = AssignmentOf(a.schedule, a.state)'
                    /\ a.state = "WITHDRAWN" =>
                          AssignmentOf(a.schedule, "ASSIGNED")' \in assignmentRows
  BY DEF AssignmentsMatch
<1>1. a.schedule \in Candidates
  BY DEF StoreInv, StoreTypeOK, Assignments
<1>2. /\ candidateRows[a.schedule] # None
      /\ candidateRows[a.schedule].state = "PUBLISHED"
      /\ a = AssignmentOf(a.schedule, a.state)
      /\ a.state = "WITHDRAWN" => AssignmentOf(a.schedule, "ASSIGNED") \in assignmentRows
  BY DEF StoreInv, AssignmentsMatch
<1>3. /\ candidateRows'[a.schedule] = candidateRows[a.schedule]
      /\ candidateTargets'[a.schedule] = candidateTargets[a.schedule]
  BY <1>1, <1>2
<1>4. /\ AssignmentOf(a.schedule, a.state)' = AssignmentOf(a.schedule, a.state)
      /\ AssignmentOf(a.schedule, "ASSIGNED")' = AssignmentOf(a.schedule, "ASSIGNED")
  BY <1>3 DEF AssignmentOf
<1> QED BY <1>2, <1>3, <1>4

LEMMA EpochsKept ==
    ASSUME StoreInv, UNCHANGED <<users, revoked>>,
           \A c \in Candidates : approvals'[c] \in {approvals[c], None},
           \A c \in Candidates :
              idempotency["create"][c] # None => idempotency'["create"][c] # None,
           \A c \in revoked : candidateRows'[c] # None =>
              candidateRows'[c] = candidateRows[c] /\ approvals'[c] = approvals[c]
    PROVE  EpochsGrow'
<1>1. ASSUME NEW c \in Candidates, approvals'[c] # None
      PROVE  /\ approvals'[c].authn <= users'[approvals'[c].approver].authn
             /\ approvals'[c].authz <= users'[approvals'[c].approver].authz
  BY <1>1 DEF StoreInv, EpochsGrow
<1>2. ASSUME NEW c \in revoked
      PROVE  /\ idempotency'["create"][c] # None
             /\ candidateRows'[c] # None =>
                /\ candidateRows'[c].state = "APPROVED"
                /\ \/ approvals'[c].authn < users'[approvals'[c].approver].authn
                   \/ approvals'[c].authz < users'[approvals'[c].approver].authz
  <2>1. c \in Candidates
    BY DEF StoreInv, StoreTypeOK
  <2>2. /\ idempotency["create"][c] # None
        /\ candidateRows[c] # None =>
             /\ candidateRows[c].state = "APPROVED"
             /\ \/ approvals[c].authn < users[approvals[c].approver].authn
                \/ approvals[c].authz < users[approvals[c].approver].authz
    BY DEF StoreInv, EpochsGrow
  <2>3. candidateRows'[c] # None => candidateRows'[c] = candidateRows[c] /\ approvals'[c] = approvals[c]
    OBVIOUS
  <2> QED BY <2>1, <2>2, <2>3
<1> QED BY <1>1, <1>2 DEF EpochsGrow

-----------------------------------------------------------------------------
(* Library, fleet, authority and time.                                     *)

LEMMA InitInv == Init => StoreInv
<1> SUFFICES ASSUME Init PROVE StoreInv
  OBVIOUS
<1>1. StoreTypeOK
  BY DEF Init, StoreTypeOK, UserRows, Targets, Maybe, Operations
<1>2. LibraryKept /\ CandidatesShaped /\ RecordsFaithful /\ AssignmentsMatch /\ EpochsGrow
  BY DEF Init, LibraryKept, CandidatesShaped, RecordsFaithful, AssignmentsMatch, EpochsGrow
<1> QED BY <1>1, <1>2 DEF StoreInv

candidateVars == <<publishedReleases, candidateRows, candidateTargets, approvals,
                   publications, assignmentRows, idempotency>>

\* A step that leaves all about candidates alone, but time.
LEMMA OutsideCandidates ==
    ASSUME StoreInv, StoreTypeOK', UNCHANGED candidateVars, now <= now'
    PROVE  CandidatesShaped' /\ RecordsFaithful' /\ AssignmentsMatch'
<1>1. \A c \in Candidates :
         TargetNames(candidateTargets[c])' = TargetNames(candidateTargets[c])
  BY DEF candidateVars
<1> QED BY <1>1, CandidatesKept, AssignmentsKept DEF candidateVars

LEMMA LibraryStep ==
    ASSUME StoreInv, NEW u \in Users,
           \/ \E s \in Screens : CreateScreen(u, s)
           \/ \E m \in Media : CreateMedia(u, m) \/ DeleteMedia(u, m)
           \/ \E p \in Playlists : CreatePlaylist(u, p) \/ DeletePlaylist(u, p)
    PROVE  StoreInv'
<1>1. UNCHANGED candidateVars /\ UNCHANGED <<now, users, revoked>>
  BY DEF CreateScreen, CreateMedia, DeleteMedia, CreatePlaylist, DeletePlaylist, candidateVars
<1>2. /\ screens' \in [Screens -> {"unknown", "live", "deleted"}]
      /\ media' \in [Media -> {"unknown", "stored", "deleted"}]
      /\ playlists' \in [Playlists -> {"unknown", "stored", "deleted"}]
  BY DEF StoreInv, StoreTypeOK, CreateScreen, CreateMedia, DeleteMedia, CreatePlaylist,
         DeletePlaylist
<1>3. StoreTypeOK'
  BY <1>1, <1>2 DEF StoreInv, StoreTypeOK, candidateVars
<1>4. CandidatesShaped' /\ RecordsFaithful' /\ AssignmentsMatch'
  BY <1>1, <1>3, OutsideCandidates DEF StoreInv, StoreTypeOK
<1>5. EpochsGrow'
  BY <1>1 DEF StoreInv, EpochsGrow, candidateVars
<1>6. LibraryKept'
  <2>0. /\ \A p \in publishedReleases : p \in Playlists /\ playlists[p] = "stored"
        /\ \A p \in Playlists : playlists[p] = "stored" =>
              \A m \in Items[p] : m \in Media /\ media[m] = "stored"
    BY ReleaseAssumption DEF StoreInv, LibraryKept, StoreTypeOK
  <2>1. CASE \E s \in Screens : CreateScreen(u, s)
    BY <1>1, <2>0, <2>1 DEF CreateScreen, LibraryKept, candidateVars
  <2>2. ASSUME NEW m \in Media, CreateMedia(u, m) PROVE LibraryKept'
    BY <1>1, <2>0, <2>2 DEF CreateMedia, LibraryKept, candidateVars, StoreInv, StoreTypeOK
  <2>3. ASSUME NEW m \in Media, DeleteMedia(u, m) PROVE LibraryKept'
    BY <1>1, <2>0, <2>3 DEF DeleteMedia, LibraryKept, candidateVars, StoreInv, StoreTypeOK
  <2>4. ASSUME NEW p \in Playlists, CreatePlaylist(u, p) PROVE LibraryKept'
    BY <1>1, <2>0, <2>4 DEF CreatePlaylist, LibraryKept, candidateVars, StoreInv, StoreTypeOK
  <2>5. ASSUME NEW p \in Playlists, DeletePlaylist(u, p) PROVE LibraryKept'
    BY <1>1, <2>0, <2>5 DEF DeletePlaylist, LibraryKept, candidateVars, StoreInv, StoreTypeOK
  <2> QED BY <2>1, <2>2, <2>3, <2>4, <2>5
<1> QED BY <1>3, <1>4, <1>5, <1>6 DEF StoreInv

LEMMA Detached ==
    ASSUME NEW targets \in Targets, NEW s \in Screens
    PROVE  /\ Detach(targets, s) \in Targets
           /\ TargetNames(Detach(targets, s)) = TargetNames(targets)
BY DEF Targets, Detach, TargetNames

LEMMA DeleteScreenStep ==
    ASSUME StoreInv, NEW u \in Users, NEW s \in Screens, DeleteScreen(u, s)
    PROVE  StoreInv'
<1>1. UNCHANGED <<now, users, media, playlists, publishedReleases, candidateRows,
                  approvals, publications, idempotency, revoked>>
  BY DEF DeleteScreen
<1>2. \A c \in Candidates :
         /\ candidateTargets'[c] = Detach(candidateTargets[c], s)
         /\ candidateTargets'[c] \in Targets
         /\ TargetNames(candidateTargets[c])' = TargetNames(candidateTargets[c])
  BY Detached, TargetTypes DEF DeleteScreen, StoreInv
<1>3. ASSUME NEW a \in assignmentRows
      PROVE  LET b == [a EXCEPT !.targets = Detach(@, s)] IN
             /\ b \in Assignments /\ b.state = a.state /\ b.schedule = a.schedule
             /\ b = AssignmentOf(a.schedule, a.state)'
  <2>1. a \in Assignments /\ a = AssignmentOf(a.schedule, a.state) /\ a.schedule \in Candidates
    BY DEF StoreInv, StoreTypeOK, AssignmentsMatch, Assignments
  <2> DEFINE b == [a EXCEPT !.targets = Detach(@, s)]
             then == AssignmentOf(a.schedule, a.state)'
  <2>2. Detach(a.targets, s) \in Targets
    BY <2>1, Detached DEF Assignments
  <2>3. /\ b \in Assignments /\ b.id = a.id /\ b.schedule = a.schedule
        /\ b.release = a.release /\ b.state = a.state /\ b.previous = a.previous
        /\ b.targets = Detach(a.targets, s) /\ b.digest = a.digest
    BY <2>1, <2>2 DEF Assignments
  <2>4. /\ a.targets = candidateTargets[a.schedule]
        /\ a.id = <<a.schedule, a.state>> /\ a.release = candidateRows[a.schedule].release
        /\ a.previous = IF a.state = "ASSIGNED" THEN None ELSE <<a.schedule, "ASSIGNED">>
        /\ a.digest = AssignmentDigest(a.release, a.state,
                          TargetNames(candidateTargets[a.schedule]), a.previous)
    BY <2>1 DEF AssignmentOf
  <2>5. then = [id |-> a.id, schedule |-> a.schedule, release |-> a.release,
                state |-> a.state, previous |-> a.previous,
                targets |-> Detach(a.targets, s), digest |-> a.digest]
    <3>1. candidateRows' = candidateRows
          /\ TargetNames(candidateTargets[a.schedule])' = TargetNames(candidateTargets[a.schedule])
          /\ candidateTargets'[a.schedule] = Detach(candidateTargets[a.schedule], s)
      BY <1>1, <1>2, <2>1
    <3> QED BY <3>1, <2>4 DEF AssignmentOf
  <2>6. b = [id |-> b.id, schedule |-> b.schedule, release |-> b.release,
             state |-> b.state, previous |-> b.previous, targets |-> b.targets,
             digest |-> b.digest]
    BY <2>3 DEF Assignments
  <2> HIDE DEF b, then
  <2>7. b = then
    BY <2>3, <2>5, <2>6
  <2> QED BY <2>3, <2>7 DEF b, then
<1>4. assignmentRows' = {[a EXCEPT !.targets = Detach(@, s)] : a \in assignmentRows}
  BY DEF DeleteScreen
<1>5. StoreTypeOK'
  <2>1. screens' \in [Screens -> {"unknown", "live", "deleted"}]
        /\ candidateTargets' \in [Candidates -> Targets]
    BY <1>2 DEF StoreInv, StoreTypeOK, DeleteScreen
  <2>2. assignmentRows' \subseteq Assignments
    BY <1>3, <1>4
  <2> QED BY <1>1, <2>1, <2>2 DEF StoreInv, StoreTypeOK
<1>6. CandidatesShaped' /\ RecordsFaithful'
  BY <1>1, <1>2, <1>5, CandidatesKept DEF StoreInv, StoreTypeOK
<1>7. AssignmentsMatch'
  <2> SUFFICES ASSUME NEW b \in assignmentRows'
               PROVE  /\ candidateRows'[b.schedule] # None
                      /\ candidateRows'[b.schedule].state = "PUBLISHED"
                      /\ b = AssignmentOf(b.schedule, b.state)'
                      /\ b.state = "WITHDRAWN" =>
                            AssignmentOf(b.schedule, "ASSIGNED")' \in assignmentRows'
    BY DEF AssignmentsMatch
  <2>1. PICK a \in assignmentRows : b = [a EXCEPT !.targets = Detach(@, s)]
    BY <1>4
  <2>2. /\ b.state = a.state /\ b.schedule = a.schedule
        /\ b = AssignmentOf(a.schedule, a.state)'
    BY <1>3, <2>1
  <2>3. /\ candidateRows[a.schedule] # None
        /\ candidateRows[a.schedule].state = "PUBLISHED"
        /\ a.state = "WITHDRAWN" => AssignmentOf(a.schedule, "ASSIGNED") \in assignmentRows
    BY DEF StoreInv, AssignmentsMatch
  <2>4. ASSUME a.state = "WITHDRAWN"
        PROVE  AssignmentOf(a.schedule, "ASSIGNED")' \in assignmentRows'
    <3>1. PICK d \in assignmentRows : d = AssignmentOf(a.schedule, "ASSIGNED")
      BY <2>3, <2>4
    <3>2. d.schedule = a.schedule /\ d.state = "ASSIGNED"
      BY <3>1 DEF AssignmentOf
    <3>3. [d EXCEPT !.targets = Detach(@, s)] \in assignmentRows'
      BY <1>4, <3>1
    <3>4. [d EXCEPT !.targets = Detach(@, s)] = AssignmentOf(d.schedule, d.state)'
      BY <1>3, <3>1
    <3> QED BY <3>2, <3>3, <3>4
  <2> QED BY <1>1, <2>2, <2>3, <2>4
<1>8. EpochsGrow' /\ LibraryKept'
  BY <1>1 DEF StoreInv, EpochsGrow, LibraryKept
<1> QED BY <1>5, <1>6, <1>7, <1>8 DEF StoreInv

LEMMA TickStep == ASSUME StoreInv, Tick PROVE StoreInv'
<1>1. /\ UNCHANGED candidateVars /\ UNCHANGED <<users, screens, media, playlists, revoked>>
      /\ now' = now + 1 /\ now \in Nat
  BY DEF Tick, library, candidateVars, StoreInv, StoreTypeOK
<1>2. StoreTypeOK' /\ now <= now'
  BY <1>1 DEF StoreInv, StoreTypeOK, candidateVars
<1>3. CandidatesShaped' /\ RecordsFaithful' /\ AssignmentsMatch'
  BY <1>1, <1>2, OutsideCandidates
<1>4. EpochsGrow' /\ LibraryKept'
  BY <1>1 DEF StoreInv, EpochsGrow, LibraryKept, candidateVars
<1> QED BY <1>2, <1>3, <1>4 DEF StoreInv

\* Whatever the change of authority, one of the user's epochs grows.
LEMMA AuthorityStep ==
    ASSUME StoreInv, NEW u \in Users, NEW change \in UserRows,
           change.authn >= users[u].authn, change.authz >= users[u].authz,
           change.authn > users[u].authn \/ change.authz > users[u].authz,
           ChangeAuthority(u, change)
    PROVE  StoreInv'
<1>1. /\ UNCHANGED candidateVars /\ UNCHANGED <<now, screens, media, playlists>>
      /\ users' = [users EXCEPT ![u] = change]
      /\ revoked' = revoked \cup {c \in Candidates : /\ approvals[c] # None
                                                     /\ approvals[c].approver = u
                                                     /\ Unpublished(c)}
  BY DEF ChangeAuthority, library, candidateVars
<1>2. StoreTypeOK' /\ now <= now'
  BY <1>1 DEF StoreInv, StoreTypeOK, candidateVars
<1>3. CandidatesShaped' /\ RecordsFaithful' /\ AssignmentsMatch'
  BY <1>1, <1>2, OutsideCandidates
<1>4. LibraryKept'
  BY <1>1 DEF StoreInv, LibraryKept, candidateVars
<1>5. \A v \in Users : /\ users[v].authn \in Nat /\ users[v].authz \in Nat
                       /\ users'[v].authn \in Nat /\ users'[v].authz \in Nat
                       /\ users[v].authn <= users'[v].authn
                       /\ users[v].authz <= users'[v].authz
                       /\ v = u => \/ users[v].authn < users'[v].authn
                                   \/ users[v].authz < users'[v].authz
  <2> SUFFICES ASSUME NEW v \in Users
               PROVE  /\ users[v].authn \in Nat /\ users[v].authz \in Nat
                      /\ users'[v].authn \in Nat /\ users'[v].authz \in Nat
                      /\ users[v].authn <= users'[v].authn
                      /\ users[v].authz <= users'[v].authz
                      /\ v = u => \/ users[v].authn < users'[v].authn
                                  \/ users[v].authz < users'[v].authz
    OBVIOUS
  <2>1. users[v] \in UserRows /\ users[u] \in UserRows
    BY DEF StoreInv, StoreTypeOK
  <2>2. CASE v = u
    <3>1. users'[v] = change
      BY <1>1, <2>2 DEF StoreInv, StoreTypeOK
    <3> QED BY <2>1, <2>2, <3>1 DEF UserRows
  <2>3. CASE v # u
    <3>1. users'[v] = users[v]
      BY <1>1, <2>3 DEF StoreInv, StoreTypeOK
    <3> QED BY <2>1, <2>3, <3>1 DEF UserRows
  <2> QED BY <2>2, <2>3
<1>6. ASSUME NEW c \in Candidates, approvals[c] # None
      PROVE  /\ approvals[c].approver \in Users
             /\ approvals[c].authn \in Nat /\ approvals[c].authz \in Nat
             /\ approvals[c].authn <= users[approvals[c].approver].authn
             /\ approvals[c].authz <= users[approvals[c].approver].authz
  BY <1>6, ApprovalTypes DEF StoreInv, EpochsGrow, Approvals
<1>7. ASSUME NEW c \in Candidates, approvals'[c] # None
      PROVE  /\ approvals'[c].authn <= users'[approvals'[c].approver].authn
             /\ approvals'[c].authz <= users'[approvals'[c].approver].authz
  <2>1. approvals' = approvals
    BY <1>1 DEF candidateVars
  <2> QED BY <1>5, <1>6, <1>7, <2>1
<1>8. ASSUME NEW c \in revoked'
      PROVE  /\ idempotency["create"][c] # None
             /\ candidateRows[c] # None =>
                /\ candidateRows[c].state = "APPROVED"
                /\ \/ approvals[c].authn < users'[approvals[c].approver].authn
                   \/ approvals[c].authz < users'[approvals[c].approver].authz
  <2>0. c \in Candidates
    BY <1>1 DEF StoreInv, StoreTypeOK
  <2>1. CASE c \in revoked
    <3>1. /\ idempotency["create"][c] # None
          /\ candidateRows[c] # None =>
             /\ candidateRows[c].state = "APPROVED"
             /\ \/ approvals[c].authn < users[approvals[c].approver].authn
                \/ approvals[c].authz < users[approvals[c].approver].authz
      BY <2>1 DEF StoreInv, EpochsGrow
    <3>2. candidateRows[c] # None => approvals[c] # None
      BY <2>0, <3>1 DEF StoreInv, CandidatesShaped, CandidateShaped, ColumnsFilled
    <3> QED BY <1>5, <1>6, <2>0, <3>1, <3>2
  <2>2. CASE c \notin revoked
    <3>1. approvals[c] # None /\ approvals[c].approver = u /\ Unpublished(c)
      BY <1>1, <2>2
    <3>2. /\ candidateRows[c] # None /\ candidateRows[c].state # "PUBLISHED"
          /\ CandidateShaped(c) /\ candidateRows[c].state \in States
      BY <2>0, <3>1, RowTypes DEF Unpublished, StoreInv, CandidatesShaped, Rows
    <3>3. candidateRows[c].state = "APPROVED" /\ idempotency["create"][c] # None
      BY <3>1, <3>2 DEF CandidateShaped, ColumnsFilled, States
    <3> QED BY <1>5, <1>6, <2>0, <3>1, <3>3
  <2> QED BY <2>1, <2>2
<1>9. EpochsGrow'
  BY <1>1, <1>7, <1>8 DEF EpochsGrow, candidateVars
<1> QED BY <1>2, <1>3, <1>4, <1>9 DEF StoreInv

\* A row of a user with one of its columns, and an epoch, changed.
LEMMA ChangedRow ==
    ASSUME NEW Roles, NEW role \in Roles, NEW row,
           row \in [role : Roles, disabled : BOOLEAN, authn : Nat, authz : Nat]
    PROVE  /\ LET change == [row EXCEPT !.role = role, !.authz = @ + 1] IN
              /\ change \in [role : Roles, disabled : BOOLEAN, authn : Nat, authz : Nat]
              /\ change.authn = row.authn /\ change.authz = row.authz + 1
           /\ LET change == [row EXCEPT !.disabled = TRUE, !.authn = @ + 1] IN
              /\ change \in [role : Roles, disabled : BOOLEAN, authn : Nat, authz : Nat]
              /\ change.authz = row.authz /\ change.authn = row.authn + 1
           /\ LET change == [row EXCEPT !.authn = @ + 1] IN
              /\ change \in [role : Roles, disabled : BOOLEAN, authn : Nat, authz : Nat]
              /\ change.authz = row.authz /\ change.authn = row.authn + 1
<1> DEFINE n == row.authn + 1
           z == row.authz + 1
           R == [role : Roles, disabled : BOOLEAN, authn : Nat, authz : Nat]
<1>1. row.role \in Roles /\ row.disabled \in BOOLEAN /\ row.authn \in Nat /\ row.authz \in Nat
  OBVIOUS
<1>2. n \in Nat /\ z \in Nat
  BY <1>1
<1> HIDE DEF n, z
<1>3. LET change == [row EXCEPT !.role = role, !.authz = z] IN
        change \in R /\ change.authn = row.authn /\ change.authz = z
  BY <1>1, <1>2
<1>4. LET change == [row EXCEPT !.disabled = TRUE, !.authn = n] IN
        change \in R /\ change.authz = row.authz /\ change.authn = n
  BY <1>1, <1>2
<1>5. LET change == [row EXCEPT !.authn = n] IN
        change \in R /\ change.authz = row.authz /\ change.authn = n
  BY <1>1, <1>2
<1> QED BY <1>3, <1>4, <1>5 DEF n, z

LEMMA AuthorityChangeStep ==
    ASSUME StoreInv, NEW u \in Users,
           \/ \E role \in OfferedRoles : ChangeRole(u, role)
           \/ RemoveMembership(u) \/ DisableUser(u) \/ RotatePassword(u)
    PROVE  StoreInv'
<1>1. /\ users[u] \in UserRows /\ users[u].authn \in Nat /\ users[u].authz \in Nat
  BY DEF StoreInv, StoreTypeOK, UserRows
<1> DEFINE Roles == {InitialRole[v] : v \in Users} \cup OfferedRoles \cup {"NONE"}
<1>r. "NONE" \in Roles /\ OfferedRoles \subseteq Roles /\ users[u].role \in Roles
  BY <1>1 DEF UserRows
<1>t. UserRows = [role : Roles, disabled : BOOLEAN, authn : Nat, authz : Nat]
  BY DEF UserRows
<1> HIDE DEF Roles
<1>2. ASSUME NEW role \in OfferedRoles, ChangeRole(u, role) PROVE StoreInv'
  <2> DEFINE change == [users[u] EXCEPT !.role = role, !.authz = @ + 1]
  <2>1. /\ change \in UserRows /\ change.authn = users[u].authn
        /\ change.authz = users[u].authz + 1
    BY <1>1, <1>r, <1>t, ChangedRow
  <2>2. ChangeAuthority(u, change)
    BY <1>2 DEF ChangeRole
  <2> HIDE DEF change
  <2> QED BY <1>1, <2>1, <2>2, AuthorityStep
<1>3. CASE RemoveMembership(u)
  <2> DEFINE change == [users[u] EXCEPT !.role = "NONE", !.authz = @ + 1]
  <2>1. /\ change \in UserRows /\ change.authn = users[u].authn
        /\ change.authz = users[u].authz + 1
    BY <1>1, <1>r, <1>t, ChangedRow
  <2>2. ChangeAuthority(u, change)
    BY <1>3 DEF RemoveMembership
  <2> HIDE DEF change
  <2> QED BY <1>1, <2>1, <2>2, AuthorityStep
<1>4. CASE DisableUser(u)
  <2> DEFINE change == [users[u] EXCEPT !.disabled = TRUE, !.authn = @ + 1]
  <2>1. /\ change \in UserRows /\ change.authz = users[u].authz
        /\ change.authn = users[u].authn + 1
    BY <1>1, <1>r, <1>t, ChangedRow
  <2>2. ChangeAuthority(u, change)
    BY <1>4 DEF DisableUser
  <2> HIDE DEF change
  <2> QED BY <1>1, <2>1, <2>2, AuthorityStep
<1>5. CASE RotatePassword(u)
  <2> DEFINE change == [users[u] EXCEPT !.authn = @ + 1]
  <2>1. /\ change \in UserRows /\ change.authz = users[u].authz
        /\ change.authn = users[u].authn + 1
    BY <1>1, <1>r, <1>t, ChangedRow
  <2>2. ChangeAuthority(u, change)
    BY <1>5 DEF RotatePassword
  <2> HIDE DEF change
  <2> QED BY <1>1, <2>1, <2>2, AuthorityStep
<1> QED BY <1>2, <1>3, <1>4, <1>5

-----------------------------------------------------------------------------
(* Creation and pruning.                                                   *)

LEMMA CompactedStays ==
    ASSUME NEW before \in Maybe(Records), NEW after, Compacted(before, after)
    PROVE  /\ after \in Maybe(Records)
           /\ before # None <=> after # None
           /\ before # None => after.expiresAt = before.expiresAt
<1>1. CASE before = None
  BY <1>1 DEF Compacted
<1>2. CASE before # None
  <2>1. before \in Records
    BY <1>2 DEF Maybe
  <2>2. [before EXCEPT !.body = None] \in Records
        /\ [before EXCEPT !.body = None].expiresAt = before.expiresAt
    BY <2>1 DEF Records, Maybe
  <2> QED BY <1>2, <2>1, <2>2, NullAssumption DEF Compacted, Maybe
<1> QED BY <1>1, <1>2

LEMMA CompactedTwice ==
    ASSUME NEW a \in Maybe(Records), NEW b, NEW d, Compacted(a, b), Compacted(b, d)
    PROVE  Compacted(a, d)
<1>1. CASE a = None
  BY <1>1 DEF Compacted
<1>2. CASE a # None
  <2>1. a \in Records
    BY <1>2 DEF Maybe
  <2>2. [[a EXCEPT !.body = None] EXCEPT !.body = None] = [a EXCEPT !.body = None]
    BY <2>1 DEF Records
  <2>3. [a EXCEPT !.body = None].expiresAt = a.expiresAt
    BY <2>1 DEF Records
  <2> QED BY <1>2, <2>2, <2>3 DEF Compacted
<1> QED BY <1>1, <1>2

\* What is pruned was never published, and all its records have expired.
LEMMA PrunedHasExpired ==
    ASSUME StoreInv, NEW d \in Prunable
    PROVE  /\ d \in Candidates /\ candidateRows[d] # None
           /\ candidateRows[d].state # "PUBLISHED"
           /\ \A o \in Operations : idempotency[o][d] # None =>
                 o # "publish" /\ idempotency[o][d].expiresAt <= now
<1>1. /\ d \in Candidates /\ candidateRows[d] # None
      /\ candidateRows[d].state # "PUBLISHED"
      /\ candidateRows[d].expiresAt <= now - Retention
  BY DEF Prunable, Unpublished
<1>2. /\ candidateRows[d].expiresAt \in Nat /\ now \in Nat
      /\ candidateRows[d].state \in States
  BY <1>1, RowTypes DEF StoreInv, StoreTypeOK, Rows
<1>3. ASSUME NEW o \in Operations, idempotency[o][d] # None
      PROVE  o # "publish" /\ idempotency[o][d].expiresAt <= now
  <2>1. RecordFaithful(o, d) /\ idempotency[o][d].expiresAt \in Nat
    BY <1>1, <1>3, RecordTypes DEF StoreInv, RecordsFaithful, Records
  <2>2. /\ idempotency[o][d].expiresAt < candidateRows[d].expiresAt + Retention
        /\ Rank[candidateRows[d].state] >= Rank[StateAfter[o]]
    BY <1>1, <2>1 DEF RecordFaithful
  <2>3. idempotency[o][d].expiresAt <= now
    BY <1>1, <1>2, <2>1, <2>2, Numbers
  <2>4. o # "publish"
    BY <1>1, <1>2, <2>2, Ranks DEF States
  <2> QED BY <2>3, <2>4
<1> QED BY <1>1, <1>3

LEMMA Forgotten ==
    ASSUME StoreInv, NEW P \in SUBSET Prunable
    PROVE  /\ ForgetPruned(idempotency, P) \in RecordTable
           /\ \A o \in Operations, d \in Candidates :
                 Compacted(idempotency[o][d], ForgetPruned(idempotency, P)[o][d])
<1>1. ASSUME NEW o \in Operations, NEW d \in Candidates
      PROVE  /\ Compacted(idempotency[o][d], ForgetPruned(idempotency, P)[o][d])
             /\ ForgetPruned(idempotency, P)[o][d] \in Maybe(Records)
  <2>1. idempotency[o][d] \in Maybe(Records)
    BY DEF StoreInv, StoreTypeOK
  <2>2. Compacted(idempotency[o][d], ForgetPruned(idempotency, P)[o][d])
    <3>1. CASE d \in P /\ o # "publish" /\ idempotency[o][d] # None
      <4>1. idempotency[o][d].expiresAt <= now
        BY <3>1, PrunedHasExpired
      <4>2. ForgetPruned(idempotency, P)[o][d] = [idempotency[o][d] EXCEPT !.body = None]
        BY <3>1 DEF ForgetPruned
      <4> QED BY <3>1, <4>1, <4>2 DEF Compacted
    <3>2. CASE ~(d \in P /\ o # "publish" /\ idempotency[o][d] # None)
      BY <3>2 DEF ForgetPruned, Compacted
    <3> QED BY <3>1, <3>2
  <2> QED BY <2>1, <2>2, CompactedStays
<1>2. ForgetPruned(idempotency, P) =
        [o \in Operations |-> [d \in Candidates |-> ForgetPruned(idempotency, P)[o][d]]]
  BY DEF ForgetPruned
<1> QED BY <1>1, <1>2 DEF RecordTable

\* The batch P goes, the candidates New come, all else about them stays.
LEMMA PruneKeeps ==
    ASSUME StoreInv, StoreTypeOK', NEW P \in SUBSET Prunable, NEW New \in SUBSET Candidates,
           \A d \in New : candidateRows[d] = None,
           \A d \in P : candidateRows'[d] = None /\ approvals'[d] = None,
           \A d \in Candidates \ (P \cup New) :
              /\ candidateRows'[d] = candidateRows[d]
              /\ candidateTargets'[d] = candidateTargets[d],
           \A d \in Candidates \ P : approvals'[d] = approvals[d],
           \A d \in New : idempotency["create"][d] = None,
           UNCHANGED <<now, users, media, playlists, publications, assignmentRows, revoked>>,
           publishedReleases \ UnreferencedReleases(P) \subseteq publishedReleases',
           \A o \in Operations, d \in Candidates \ New :
              Compacted(idempotency[o][d], idempotency'[o][d])
    PROVE  /\ \A d \in Candidates \ New :
                 IF candidateRows'[d] # None THEN CandidateShaped(d)'
                 ELSE approvals'[d] = None /\ publications'[d] = None
           /\ \A o \in Operations, d \in Candidates \ New :
                 idempotency'[o][d] # None => RecordFaithful(o, d)'
           /\ AssignmentsMatch' /\ EpochsGrow'
<1>0. New \cap P = {}
  BY PrunedHasExpired
<1>1. "create" \in Operations
  BY DEF Operations
<1>2. \A o \in Operations, d \in Candidates \ New :
         /\ idempotency[o][d] # None <=> idempotency'[o][d] # None
         /\ idempotency[o][d] # None =>
               idempotency'[o][d].expiresAt = idempotency[o][d].expiresAt
  <2> SUFFICES ASSUME NEW o \in Operations, NEW d \in Candidates \ New
               PROVE  /\ idempotency[o][d] # None <=> idempotency'[o][d] # None
                      /\ idempotency[o][d] # None =>
                            idempotency'[o][d].expiresAt = idempotency[o][d].expiresAt
    OBVIOUS
  <2>1. idempotency[o][d] \in Maybe(Records)
    BY DEF StoreInv, StoreTypeOK
  <2> QED BY <2>1, CompactedStays
<1>3. ASSUME NEW d \in Candidates \ New
      PROVE  IF candidateRows'[d] # None THEN CandidateShaped(d)'
             ELSE approvals'[d] = None /\ publications'[d] = None
  <2>1. CASE d \in P
    <3>1. publications[d] = None
      BY <2>1 DEF Prunable
    <3> QED BY <2>1, <3>1
  <2>2. CASE d \notin P /\ candidateRows[d] = None
    BY <2>2 DEF StoreInv, CandidatesShaped
  <2>3. CASE d \notin P /\ candidateRows[d] # None
    <3>1. CandidateShaped(d)
      BY <2>3 DEF StoreInv, CandidatesShaped
    <3>2. candidateRows[d].release \in publishedReleases'
      <4>1. candidateRows[d].release \in publishedReleases
        BY <3>1 DEF CandidateShaped
      <4> QED BY <2>3, <4>1 DEF UnreferencedReleases
    <3>3. idempotency'["create"][d] # None
      BY <1>1, <1>2, <3>1 DEF CandidateShaped
    <3>4. /\ candidateRows'[d] = candidateRows[d]
          /\ TargetNames(candidateTargets[d])' = TargetNames(candidateTargets[d])
          /\ approvals'[d] = approvals[d] /\ publications'[d] = publications[d]
      BY <2>3 DEF TargetNames
    <3> QED BY <2>3, <3>1, <3>2, <3>3, <3>4, ShapeKept
  <2> QED BY <2>1, <2>2, <2>3
<1>4. ASSUME NEW o \in Operations, NEW d \in Candidates \ New, idempotency'[o][d] # None
      PROVE  RecordFaithful(o, d)'
  <2>1. idempotency[o][d] # None /\ RecordFaithful(o, d)
    BY <1>2, <1>4 DEF StoreInv, RecordsFaithful
  <2>2. idempotency'["create"][d] # None
    BY <1>1, <1>2, <2>1 DEF RecordFaithful
  <2>3. CASE d \in P
    <3>1. o # "publish" /\ idempotency'[o][d].expiresAt <= now'
      BY <1>2, <2>1, <2>3, PrunedHasExpired
    <3> QED BY <2>2, <2>3, <3>1 DEF RecordFaithful
  <2>4. CASE d \notin P
    <3>1. candidateRows'[d] = candidateRows[d]
          /\ TargetNames(candidateTargets[d])' = TargetNames(candidateTargets[d])
          /\ approvals'[d] = approvals[d] /\ publications'[d] = publications[d]
      BY <2>4 DEF TargetNames
    <3>2. candidateRows[d] # None => CandidateGrows(d)
      BY <3>1, UnchangedGrows DEF StoreInv
    <3>3. now' \in Nat /\ now <= now'
      BY DEF StoreInv, StoreTypeOK
    <3> QED BY <2>1, <2>2, <3>1, <3>2, <3>3, RecordKept DEF StoreInv
  <2> QED BY <2>3, <2>4
<1>5. AssignmentsMatch'
  <2>1. ASSUME NEW c \in Candidates, candidateRows[c] # None,
               candidateRows[c].state = "PUBLISHED"
        PROVE  candidateRows'[c] = candidateRows[c] /\ candidateTargets'[c] = candidateTargets[c]
    BY <2>1, PrunedHasExpired
  <2> QED BY <2>1, AssignmentsKept
<1>6. EpochsGrow'
  <2>1. \A c \in Candidates : approvals'[c] \in {approvals[c], None}
    OBVIOUS
  <2>2. \A c \in Candidates :
           idempotency["create"][c] # None => idempotency'["create"][c] # None
    BY <1>1, <1>2
  <2>3. ASSUME NEW c \in revoked, candidateRows'[c] # None
        PROVE  candidateRows'[c] = candidateRows[c] /\ approvals'[c] = approvals[c]
    <3>1. c \in Candidates /\ idempotency["create"][c] # None
      BY DEF StoreInv, StoreTypeOK, EpochsGrow
    <3> QED BY <2>3, <3>1
  <2> QED BY <2>1, <2>2, <2>3, EpochsKept
<1> QED BY <1>3, <1>4, <1>5, <1>6

LEMMA RefuseStep ==
    ASSUME StoreInv, NEW u \in Users, NEW p \in Playlists, NEW S \in SUBSET Screens,
           RefuseCandidate(u, p, S)
    PROVE  StoreInv'
<1>1. PICK P \in PruneChoices :
          /\ candidateRows' = [d \in Candidates |->
                                  IF d \in P THEN None ELSE candidateRows[d]]
          /\ candidateTargets' =
               [d \in Candidates |->
                  IF d \in P THEN NoTargets ELSE candidateTargets[d]]
          /\ approvals' = [d \in Candidates |->
                              IF d \in P THEN None ELSE approvals[d]]
          /\ publishedReleases' = publishedReleases \ UnreferencedReleases(P)
          /\ idempotency' = ForgetPruned(idempotency, P)
  BY DEF RefuseCandidate
<1>2. P \in SUBSET Prunable
  BY DEF PruneChoices
<1>3. UNCHANGED <<now, users, screens, media, playlists, publications, assignmentRows, revoked>>
  BY DEF RefuseCandidate, library
<1>4. StoreTypeOK'
  <2>1. candidateRows' \in [Candidates -> Maybe(Rows)]
        /\ approvals' \in [Candidates -> Maybe(Approvals)]
    BY <1>1 DEF StoreInv, StoreTypeOK, Maybe
  <2>2. candidateTargets' \in [Candidates -> Targets]
    BY <1>1 DEF StoreInv, StoreTypeOK, NoTargets, Targets
  <2>3. publishedReleases' \subseteq Playlists
        /\ idempotency' \in [Operations -> [Candidates -> Maybe(Records)]]
    BY <1>1, <1>2, Forgotten DEF StoreInv, StoreTypeOK, RecordTable
  <2> QED BY <1>3, <2>1, <2>2, <2>3 DEF StoreInv, StoreTypeOK
<1>5. /\ \A d \in Candidates \ {} :
            IF candidateRows'[d] # None THEN CandidateShaped(d)'
            ELSE approvals'[d] = None /\ publications'[d] = None
      /\ \A o \in Operations, d \in Candidates \ {} :
            idempotency'[o][d] # None => RecordFaithful(o, d)'
      /\ AssignmentsMatch' /\ EpochsGrow'
  <2>1. \A d \in P : d \in Candidates /\ candidateRows'[d] = None /\ approvals'[d] = None
    BY <1>1, <1>2 DEF Prunable
  <2>2. /\ \A d \in Candidates \ (P \cup {}) :
              /\ candidateRows'[d] = candidateRows[d]
              /\ candidateTargets'[d] = candidateTargets[d]
        /\ \A d \in Candidates \ P : approvals'[d] = approvals[d]
    BY <1>1
  <2>3. \A o \in Operations, d \in Candidates \ {} :
           Compacted(idempotency[o][d], idempotency'[o][d])
    BY <1>1, <1>2, Forgotten
  <2> DEFINE New == {}
  <2>4. New \in SUBSET Candidates
    OBVIOUS
  <2>5. publishedReleases \ UnreferencedReleases(P) \subseteq publishedReleases'
    BY <1>1
  <2> QED BY <1>2, <1>3, <1>4, <2>1, <2>2, <2>3, <2>4, <2>5, PruneKeeps
<1>6. CandidatesShaped' /\ RecordsFaithful'
  BY <1>5 DEF CandidatesShaped, RecordsFaithful
<1>7. LibraryKept'
  BY <1>1, <1>3 DEF StoreInv, LibraryKept
<1> QED BY <1>4, <1>5, <1>6, <1>7 DEF StoreInv


\* A response that has nothing of a later operation is its own past.
LEMMA ResponseIsLive ==
    ASSUME NEW op \in Operations, NEW live \in Bodies, live.state = StateAfter[op],
           Rank[StateAfter[op]] < 1 => live.submittedAt = None,
           Rank[StateAfter[op]] < 2 => live.approvedAt = None /\ live.approval = None,
           Rank[StateAfter[op]] < 3 => live.publishedAt = None /\ live.publication = None
    PROVE  ResponseOf(op, live) = live
BY RankTypes, ResponseColumns, SameBody

LEMMA CreateStep ==
    ASSUME StoreInv, NEW u \in Users, NEW c \in Candidates, NEW p \in Playlists,
           NEW S \in SUBSET Screens, NEW life \in 1 .. MaxLifetime,
           CreateCandidate(u, c, p, S, life)
    PROVE  StoreInv'
<1> DEFINE body == [id |-> c, state |-> "DRAFT",
                    digest |-> CandidateDigest(p, S, now + life),
                    author |-> u, playlist |-> p, screens |-> S,
                    expiresAt |-> now + life, submittedAt |-> None,
                    approvedAt |-> None, publishedAt |-> None,
                    approval |-> None, publication |-> None]
           targets == [s \in Screens |-> IF s \in S THEN "live" ELSE "none"]
           expiry == now + life
<1>1. PICK P \in PruneChoices :
        /\ MayCreate(P, p, S)
        /\ candidateRows' =
             [d \in Candidates |-> IF d = c THEN NewRow(u, p, S, life)
                                   ELSE IF d \in P THEN None ELSE candidateRows[d]]
        /\ candidateTargets' =
             [d \in Candidates |-> IF d = c THEN targets
                                   ELSE IF d \in P THEN NoTargets ELSE candidateTargets[d]]
        /\ approvals' = [d \in Candidates |-> IF d \in P THEN None ELSE approvals[d]]
        /\ publishedReleases' = (publishedReleases \ UnreferencedReleases(P)) \cup {p}
        /\ RememberIn(ForgetPruned(idempotency, P), "create", c, u, body)
  BY DEF CreateCandidate
<1>2. /\ UNCHANGED <<now, users, screens, media, playlists, publications, assignmentRows, revoked>>
      /\ idempotency["create"][c] = None
  BY DEF CreateCandidate, library, KeyIsNew
<1>3. P \in SUBSET Prunable /\ "create" \in Operations
  BY DEF PruneChoices, Operations
<1>4. /\ now \in Nat /\ life \in Nat /\ life > 0 /\ expiry \in Nat
      /\ Retention \in Nat /\ Retention > 0
  BY Numbers DEF StoreInv, StoreTypeOK
<1>5. /\ candidateRows[c] = None /\ approvals[c] = None /\ publications[c] = None /\ c \notin P
      /\ \A o \in Operations : idempotency[o][c] = None
  <2>1. candidateRows[c] = None /\ approvals[c] = None /\ publications[c] = None
    BY <1>2 DEF StoreInv, CandidatesShaped, CandidateShaped
  <2>2. c \notin P
    BY <1>3, <2>1, PrunedHasExpired
  <2>3. \A o \in Operations : idempotency[o][c] = None
    BY <1>2 DEF StoreInv, RecordsFaithful, RecordFaithful
  <2> QED BY <2>1, <2>2, <2>3
<1>6. ReleaseDigest(p) \in ReleaseDigests /\ CandidateDigest(p, S, expiry) \in CandidateDigests
  BY <1>4, ReleaseAssumption DEF ReleaseDigest, CandidateDigest, ReleaseDigests, CandidateDigests
<1>7. /\ body \in Bodies /\ NewRow(u, p, S, life) \in Rows
      /\ targets \in Targets /\ TargetNames(targets) = S
  <2>1. targets \in Targets /\ TargetNames(targets) = S
    BY DEF Targets, TargetNames
  <2>2. body \in Bodies
    BY <1>4, <1>6 DEF Bodies, Maybe, States
  <2>3. NewRow(u, p, S, life) \in Rows
    BY <1>4, <1>6 DEF Rows, Maybe, States, NewRow
  <2> QED BY <2>1, <2>2, <2>3
<1>8. /\ idempotency' \in RecordTable
      /\ idempotency'["create"][c] =
           [actor |-> u, expiresAt |-> now + Retention, body |-> body]
      /\ \A o \in Operations, d \in Candidates : o # "create" \/ d # c =>
           Compacted(idempotency[o][d], idempotency'[o][d])
  <2> HIDE DEF body
  <2>1. /\ ForgetPruned(idempotency, P) \in RecordTable
        /\ \A o \in Operations, d \in Candidates :
              Compacted(idempotency[o][d], ForgetPruned(idempotency, P)[o][d])
    BY <1>3, Forgotten
  <2> DEFINE records == ForgetPruned(idempotency, P)
  <2> HIDE DEF records
  <2>2. RememberIn(records, "create", c, u, body) /\ records \in RecordTable
    BY <1>1, <2>1 DEF records
  <2>3. /\ idempotency' \in RecordTable
        /\ idempotency'["create"][c] =
             [actor |-> u, expiresAt |-> now + Retention, body |-> body]
        /\ \A o \in Operations, d \in Candidates : o # "create" \/ d # c =>
             Compacted(records[o][d], idempotency'[o][d])
    BY <1>3, <1>4, <1>7, <2>2, Remembered
  <2>4. ASSUME NEW o \in Operations, NEW d \in Candidates, o # "create" \/ d # c
        PROVE  Compacted(idempotency[o][d], idempotency'[o][d])
    <3>1. idempotency[o][d] \in Maybe(Records)
      BY DEF StoreInv, StoreTypeOK
    <3>2. Compacted(idempotency[o][d], records[o][d])
      BY <2>1 DEF records
    <3>3. Compacted(records[o][d], idempotency'[o][d])
      BY <2>3, <2>4
    <3> QED BY <3>1, <3>2, <3>3, CompactedTwice
  <2> QED BY <2>3, <2>4
<1>9. StoreTypeOK'
  <2> HIDE DEF targets, body
  <2>1. /\ candidateRows' \in [Candidates -> Maybe(Rows)]
        /\ approvals' \in [Candidates -> Maybe(Approvals)]
    BY <1>1, <1>7 DEF StoreInv, StoreTypeOK, Maybe
  <2>2. candidateTargets' \in [Candidates -> Targets]
    <3>1. NoTargets \in Targets
      BY DEF NoTargets, Targets
    <3> QED BY <1>1, <1>7, <3>1 DEF StoreInv, StoreTypeOK
  <2>3. publishedReleases' \subseteq Playlists
    BY <1>1 DEF StoreInv, StoreTypeOK
  <2> QED BY <1>2, <1>8, <2>1, <2>2, <2>3 DEF StoreInv, StoreTypeOK, RecordTable
<1>10. /\ \A d \in Candidates \ {c} :
             IF candidateRows'[d] # None THEN CandidateShaped(d)'
             ELSE approvals'[d] = None /\ publications'[d] = None
       /\ \A o \in Operations, d \in Candidates \ {c} :
             idempotency'[o][d] # None => RecordFaithful(o, d)'
       /\ AssignmentsMatch' /\ EpochsGrow'
  <2> DEFINE New == {c}
  <2>u. UNCHANGED <<now, users, media, playlists, publications, assignmentRows, revoked>>
    BY <1>2
  <2>p. P \in SUBSET Prunable
    BY <1>3
  <2>n. New \in SUBSET Candidates
    OBVIOUS
  <2>1. \A d \in New : candidateRows[d] = None
    BY <1>5
  <2>2. \A d \in P : candidateRows'[d] = None /\ approvals'[d] = None
    BY <1>1, <1>3, <1>5 DEF Prunable
  <2>3. \A d \in Candidates \ (P \cup New) :
           /\ candidateRows'[d] = candidateRows[d]
           /\ candidateTargets'[d] = candidateTargets[d]
    BY <1>1
  <2>a. \A d \in Candidates \ P : approvals'[d] = approvals[d]
    BY <1>1
  <2>4. \A d \in New : idempotency["create"][d] = None
    BY <1>2
  <2>5. publishedReleases \ UnreferencedReleases(P) \subseteq publishedReleases'
    BY <1>1
  <2>6. \A o \in Operations, d \in Candidates \ New :
           Compacted(idempotency[o][d], idempotency'[o][d])
    BY <1>8
  <2> HIDE DEF New, body, targets, expiry
  <2>7. /\ \A d \in Candidates \ New :
             IF candidateRows'[d] # None THEN CandidateShaped(d)'
             ELSE approvals'[d] = None /\ publications'[d] = None
        /\ \A o \in Operations, d \in Candidates \ New :
             idempotency'[o][d] # None => RecordFaithful(o, d)'
        /\ AssignmentsMatch' /\ EpochsGrow'
    BY Zenon, <1>9, <2>1, <2>2, <2>3, <2>4, <2>5, <2>6, <2>a, <2>n, <2>p, <2>u, PruneKeeps
  <2> QED BY <2>7 DEF New
<1>11. /\ candidateRows'[c] = NewRow(u, p, S, life) /\ candidateTargets'[c] = targets
       /\ approvals'[c] = None /\ publications'[c] = None
       /\ candidateRows'[c] # None
  BY <1>1, <1>2, <1>5, <1>7, NullAssumption
<1>12. CandidateShaped(c)'
  <2>1. TargetNames(candidateTargets[c])' = S /\ S # {}
    BY <1>1, <1>7, <1>11 DEF MayCreate, TargetNames
  <2>2. idempotency'["create"][c] # None
    BY <1>4, <1>7, <1>8, NullAssumption DEF Records, Maybe
  <2>3. candidateRows'[c].release \in publishedReleases'
    BY <1>1, <1>11 DEF NewRow
  <2>4. HasValidDigest(c)'
    BY <1>11, <2>1 DEF NewRow, HasValidDigest
  <2>5. ColumnsFilled(c)'
    BY <1>11 DEF NewRow, ColumnsFilled
  <2> QED BY <2>1, <2>2, <2>3, <2>4, <2>5 DEF CandidateShaped
<1>13. ASSUME NEW o \in Operations, idempotency'[o][c] # None
       PROVE  RecordFaithful(o, c)'
  <2>1. o = "create"
    BY <1>5, <1>8, <1>13 DEF Compacted
  <2>2. ResponseThen("create", c)' = body
    <3>1. CandidateDto(c)' = body
      BY <1>7, <1>11 DEF NewRow, CandidateDto, TargetNames
    <3>2. ResponseThen("create", c)' = ResponseOf("create", CandidateDto(c)')
      BY DEF ResponseThen, ResponseOf
    <3>3. /\ body.state = StateAfter["create"] /\ body.submittedAt = None
          /\ body.approvedAt = None /\ body.approval = None
          /\ body.publishedAt = None /\ body.publication = None
      BY Ranks
    <3> HIDE DEF body
    <3>4. ResponseOf("create", body) = body
      BY <1>3, <1>7, <3>3, ResponseIsLive
    <3> QED BY <3>1, <3>2, <3>4
  <2>3. /\ idempotency'["create"][c].expiresAt = now + Retention
        /\ idempotency'["create"][c].body = body /\ body # None
    BY <1>7, <1>8, NullAssumption
  <2>4. /\ candidateRows'[c].expiresAt = now + life
        /\ candidateRows'[c].state = StateAfter["create"]
    BY <1>11, Ranks DEF NewRow
  <2>5. Rank[StateAfter["create"]] >= Rank[StateAfter["create"]]
    BY Ranks
  <2> HIDE DEF body
  <2>6. now + Retention < now + life + Retention
    BY <1>4
  <2> QED BY <1>11, <1>13, <2>1, <2>2, <2>3, <2>4, <2>5, <2>6 DEF RecordFaithful
<1>14. CandidatesShaped' /\ RecordsFaithful'
  BY <1>10, <1>11, <1>12, <1>13 DEF CandidatesShaped, RecordsFaithful
<1>15. LibraryKept'
  BY <1>1, <1>2 DEF StoreInv, LibraryKept, MayCreate
<1> QED BY <1>9, <1>10, <1>14, <1>15 DEF StoreInv

-----------------------------------------------------------------------------
(* Review, publication and withdrawal.                                     *)

\* A response as an operation gives it: some columns of the candidate, filled.
LEMMA SubmitResponse ==
    ASSUME NEW live \in Bodies, NEW t \in Nat
    PROVE  LET r == [live EXCEPT !.state = "IN_REVIEW", !.submittedAt = t]
           IN /\ r \in Bodies /\ r.id = live.id /\ r.state = "IN_REVIEW"
              /\ r.digest = live.digest /\ r.author = live.author
              /\ r.playlist = live.playlist /\ r.screens = live.screens
              /\ r.expiresAt = live.expiresAt /\ r.submittedAt = t
              /\ r.approvedAt = live.approvedAt /\ r.publishedAt = live.publishedAt
              /\ r.approval = live.approval /\ r.publication = live.publication
BY DEF Bodies, Maybe, States

LEMMA ApproveResponse ==
    ASSUME NEW live \in Bodies, NEW t \in Nat, NEW approval \in Approvals
    PROVE  LET r == [live EXCEPT !.state = "APPROVED", !.approvedAt = t,
                                 !.approval = approval]
           IN /\ r \in Bodies /\ r.id = live.id /\ r.state = "APPROVED"
              /\ r.digest = live.digest /\ r.author = live.author
              /\ r.playlist = live.playlist /\ r.screens = live.screens
              /\ r.expiresAt = live.expiresAt /\ r.submittedAt = live.submittedAt
              /\ r.approvedAt = t /\ r.publishedAt = live.publishedAt
              /\ r.approval = approval /\ r.publication = live.publication
BY DEF Bodies, Maybe, States

LEMMA PublishResponse ==
    ASSUME NEW live \in Bodies, NEW t \in Nat, NEW publication \in Publications
    PROVE  LET r == [live EXCEPT !.state = "PUBLISHED", !.publishedAt = t,
                                 !.publication = publication]
           IN /\ r \in Bodies /\ r.id = live.id /\ r.state = "PUBLISHED"
              /\ r.digest = live.digest /\ r.author = live.author
              /\ r.playlist = live.playlist /\ r.screens = live.screens
              /\ r.expiresAt = live.expiresAt /\ r.submittedAt = live.submittedAt
              /\ r.approvedAt = live.approvedAt /\ r.publishedAt = t
              /\ r.approval = live.approval /\ r.publication = publication
BY DEF Bodies, Maybe, States

\* An operation after the first fills the columns of one candidate and records
\* the candidate as it then is.
LEMMA OperationKeeps ==
    ASSUME StoreInv, StoreTypeOK', NEW u \in Users, NEW c \in Candidates,
           NEW op \in Operations, op # "create", idempotency[op][c] = None,
           candidateRows[c] # None, CandidateGrows(c),
           candidateRows'[c].state = StateAfter[op], ColumnsFilled(c)',
           candidateRows[c].expiresAt > now,
           \A d \in Candidates \ {c} : /\ candidateRows'[d] = candidateRows[d]
                                       /\ approvals'[d] = approvals[d]
                                       /\ publications'[d] = publications[d],
           UNCHANGED <<now, publishedReleases, candidateTargets>>,
           NEW response \in Bodies, response = CandidateDto(c)',
           RememberIn(idempotency, op, c, u, response)
    PROVE  /\ CandidatesShaped' /\ RecordsFaithful'
           /\ \A d \in Candidates :
                 idempotency["create"][d] # None => idempotency'["create"][d] # None
<1>1. /\ now \in Nat /\ now' = now /\ "create" \in Operations
      /\ Retention \in Nat /\ Retention > 0
  BY Numbers DEF StoreInv, StoreTypeOK, Operations
<1>2. /\ idempotency'[op][c] =
           [actor |-> u, expiresAt |-> now + Retention, body |-> response]
      /\ \A o \in Operations, d \in Candidates : o # op \/ d # c =>
           Compacted(idempotency[o][d], idempotency'[o][d])
  <2>1. idempotency \in RecordTable
    BY DEF StoreInv, StoreTypeOK, RecordTable
  <2> QED BY <1>1, <2>1, Remembered
<1>3. \A d \in Candidates :
         idempotency["create"][d] # None => idempotency'["create"][d] # None
  <2> SUFFICES ASSUME NEW d \in Candidates, idempotency["create"][d] # None
               PROVE  idempotency'["create"][d] # None
    OBVIOUS
  <2>1. idempotency["create"][d] \in Maybe(Records)
    BY <1>1 DEF StoreInv, StoreTypeOK
  <2>2. Compacted(idempotency["create"][d], idempotency'["create"][d])
    BY <1>1, <1>2
  <2> QED BY <2>1, <2>2, CompactedStays
<1>4. \A d \in Candidates :
         TargetNames(candidateTargets[d])' = TargetNames(candidateTargets[d])
  BY DEF TargetNames
<1>5. CandidateShaped(c) /\ candidateRows'[c] # None
  BY NullAssumption DEF StoreInv, CandidatesShaped, CandidateGrows
<1>6. CandidateShaped(c)'
  <2>1. HasValidDigest(c)'
    BY <1>4, <1>5 DEF CandidateShaped, CandidateGrows, HasValidDigest
  <2> QED BY <1>3, <1>4, <1>5, <2>1 DEF CandidateShaped, CandidateGrows
<1>7. ASSUME NEW d \in Candidates \ {c}
      PROVE  IF candidateRows'[d] # None THEN CandidateShaped(d)'
             ELSE approvals'[d] = None /\ publications'[d] = None
  <2>1. CASE candidateRows[d] = None
    BY <2>1 DEF StoreInv, CandidatesShaped
  <2>2. CASE candidateRows[d] # None
    <3>1. CandidateShaped(d)
      BY <2>2 DEF StoreInv, CandidatesShaped
    <3>2. idempotency'["create"][d] # None /\ candidateRows[d].release \in publishedReleases'
      BY <1>3, <3>1 DEF CandidateShaped
    <3> QED BY <1>4, <2>2, <3>1, <3>2, ShapeKept
  <2> QED BY <2>1, <2>2
<1>8. CandidatesShaped'
  BY <1>5, <1>6, <1>7 DEF CandidatesShaped
<1>9. ASSUME NEW o \in Operations, NEW d \in Candidates, o # op \/ d # c,
             idempotency'[o][d] # None
      PROVE  RecordFaithful(o, d)'
  <2>1. Compacted(idempotency[o][d], idempotency'[o][d])
    BY <1>2, <1>9
  <2>2. idempotency[o][d] # None
    BY <1>9, <2>1 DEF Compacted
  <2>3. RecordFaithful(o, d)
    BY <2>2 DEF StoreInv, RecordsFaithful
  <2>4. candidateRows[d] # None => CandidateGrows(d)
    BY <1>4, UnchangedGrows DEF StoreInv
  <2>5. candidateRows[d] = None => candidateRows'[d] = None
    OBVIOUS
  <2>6. idempotency'["create"][d] # None /\ now' \in Nat /\ now <= now'
    BY <1>1, <1>3, <2>3 DEF RecordFaithful
  <2> QED BY <2>1, <2>2, <2>3, <2>4, <2>5, <2>6, RecordKept DEF StoreInv
<1>10. ResponseThen(op, c)' = response
  <2>1. ResponseThen(op, c)' = ResponseOf(op, response)
    BY DEF ResponseThen, ResponseOf
  <2>2. /\ response.state = candidateRows'[c].state
        /\ response.submittedAt = candidateRows'[c].submittedAt
        /\ response.approvedAt = candidateRows'[c].approvedAt
        /\ response.publishedAt = candidateRows'[c].publishedAt
        /\ response.approval = approvals'[c] /\ response.publication = publications'[c]
    BY DEF CandidateDto
  <2>3. /\ response.state = StateAfter[op]
        /\ Rank[StateAfter[op]] < 1 => response.submittedAt = None
        /\ Rank[StateAfter[op]] < 2 => response.approvedAt = None /\ response.approval = None
        /\ Rank[StateAfter[op]] < 3 => response.publishedAt = None /\ response.publication = None
    BY <2>2, Ranks DEF ColumnsFilled, Operations
  <2>4. ResponseOf(op, response) = response
    BY <2>3, ResponseIsLive
  <2> QED BY <2>1, <2>4
<1>11. RecordFaithful(op, c)'
  <2>1. /\ idempotency'[op][c].expiresAt = now + Retention
        /\ idempotency'[op][c].body = response /\ response # None
    BY <1>2, NullAssumption
  <2>2. candidateRows'[c] \in Rows /\ candidateRows[c] \in Rows
        /\ candidateRows'[c].expiresAt = candidateRows[c].expiresAt
    BY RowTypes DEF CandidateGrows, StoreInv
  <2>3. now + Retention < candidateRows'[c].expiresAt + Retention
    BY <1>1, <2>2 DEF Rows
  <2>4. idempotency'["create"][c] # None
    BY <1>3, <1>5 DEF CandidateShaped
  <2>5. Rank[candidateRows'[c].state] >= Rank[StateAfter[op]]
    BY RankTypes
  <2> QED BY <1>5, <1>10, <2>1, <2>3, <2>4, <2>5 DEF RecordFaithful
<1>12. RecordsFaithful'
  BY <1>9, <1>11 DEF RecordsFaithful
<1> QED BY <1>3, <1>8, <1>12

\* A candidate and its approval, as an operation finds them.
LEMMA CandidateFound ==
    ASSUME StoreInv, NEW c \in Candidates, candidateRows[c] # None
    PROVE  /\ candidateRows[c] \in Rows /\ candidateRows[c].state \in States
           /\ CandidateShaped(c) /\ CandidateDto(c) \in Bodies /\ now \in Nat
           /\ approvals[c] # None => approvals[c] \in Approvals
BY RowTypes, ApprovalTypes, DtoTyped DEF StoreInv, StoreTypeOK, CandidatesShaped, Rows

LEMMA SubmitStep ==
    ASSUME StoreInv, NEW u \in Users, NEW c \in Candidates, SubmitCandidate(u, c)
    PROVE  StoreInv'
<1> DEFINE response == [CandidateDto(c) EXCEPT !.state = "IN_REVIEW", !.submittedAt = now]
           next == [candidateRows[c] EXCEPT !.state = "IN_REVIEW", !.submittedAt = now]
<1>1. /\ idempotency["submit"][c] = None /\ candidateRows[c] # None
      /\ candidateRows[c].expiresAt > now /\ candidateRows[c].state = "DRAFT"
      /\ RememberIn(idempotency, "submit", c, u, response)
      /\ UNCHANGED <<now, users, library, publishedReleases, candidateTargets,
                     approvals, publications, assignmentRows, revoked>>
      /\ "submit" \in Operations
  BY DEF SubmitCandidate, KeyIsNew, Operations
<1>2. candidateRows' = [candidateRows EXCEPT ![c] = next]
  BY DEF SubmitCandidate, StoreInv, StoreTypeOK
<1>3. /\ candidateRows[c] \in Rows /\ CandidateShaped(c) /\ CandidateDto(c) \in Bodies /\ now \in Nat
      /\ candidateRows[c] \in Rows
  BY <1>1, CandidateFound
<1>4. /\ next \in Rows /\ next.state = "IN_REVIEW" /\ next.digest = candidateRows[c].digest
      /\ next.author = candidateRows[c].author /\ next.release = candidateRows[c].release
      /\ next.expiresAt = candidateRows[c].expiresAt /\ next.submittedAt = now
      /\ next.approvedAt = candidateRows[c].approvedAt
      /\ next.publishedAt = candidateRows[c].publishedAt
  BY <1>3 DEF Rows, Maybe, States
<1> HIDE DEF next
<1>5. response \in Bodies
  BY <1>3, SubmitResponse
<1>6. candidateRows'[c] = next
  BY <1>2 DEF StoreInv, StoreTypeOK
<1>7. StoreTypeOK'
  <2> HIDE DEF response
  <2>1. idempotency' \in RecordTable
    BY <1>1, <1>3, <1>5, Remembered DEF StoreInv, StoreTypeOK, RecordTable
  <2>2. candidateRows' \in [Candidates -> Maybe(Rows)]
    BY <1>2, <1>4 DEF StoreInv, StoreTypeOK, Maybe
  <2> QED BY <1>1, <2>1, <2>2 DEF StoreInv, StoreTypeOK, RecordTable, library
<1>8. CandidateGrows(c)
  BY <1>1, <1>4, <1>6, Ranks DEF CandidateGrows
<1>9. ColumnsFilled(c)'
  BY <1>1, <1>3, <1>4, <1>6, NullAssumption DEF CandidateShaped, ColumnsFilled
<1>10. response = CandidateDto(c)'
  <2>1. CandidateDto(c)' \in Bodies
    <3>1. TargetNames(candidateTargets[c]) \in SUBSET Screens
          /\ TargetNames(candidateTargets[c])' = TargetNames(candidateTargets[c])
      BY <1>1, TargetTypes DEF StoreInv
    <3>2. approvals'[c] \in Maybe(Approvals) /\ publications'[c] \in Maybe(Publications)
      BY <1>7 DEF StoreTypeOK
    <3> QED BY <1>4, <1>6, <3>1, <3>2 DEF CandidateDto, Bodies, Rows
  <2>2. LET a == response
            b == CandidateDto(c)'
        IN /\ a.id = b.id /\ a.state = b.state /\ a.digest = b.digest
           /\ a.author = b.author /\ a.playlist = b.playlist /\ a.screens = b.screens
           /\ a.expiresAt = b.expiresAt /\ a.submittedAt = b.submittedAt
           /\ a.approvedAt = b.approvedAt /\ a.approval = b.approval
           /\ a.publishedAt = b.publishedAt /\ a.publication = b.publication
    BY <1>1, <1>3, <1>4, <1>6, SubmitResponse DEF CandidateDto
  <2> HIDE DEF response
  <2> QED BY <1>5, <2>1, <2>2, SameBody
<1>11. /\ CandidatesShaped' /\ RecordsFaithful'
       /\ \A d \in Candidates :
             idempotency["create"][d] # None => idempotency'["create"][d] # None
  <2> HIDE DEF response
  <2>1. candidateRows'[c].state = StateAfter["submit"]
    BY <1>4, <1>6, Ranks
  <2>2. \A d \in Candidates \ {c} : /\ candidateRows'[d] = candidateRows[d]
                                    /\ approvals'[d] = approvals[d]
                                    /\ publications'[d] = publications[d]
    BY <1>1, <1>2 DEF StoreInv, StoreTypeOK
  <2> QED BY <1>1, <1>5, <1>7, <1>8, <1>9, <1>10, <2>1, <2>2, OperationKeeps
<1>12. AssignmentsMatch'
  BY <1>1, <1>2, AssignmentsKept DEF StoreInv, StoreTypeOK
<1>13. EpochsGrow'
  <2>1. ASSUME NEW d \in revoked, candidateRows'[d] # None
        PROVE  candidateRows'[d] = candidateRows[d] /\ approvals'[d] = approvals[d]
    <3>1. d # c /\ d \in Candidates
      BY <1>1 DEF StoreInv, EpochsGrow, StoreTypeOK
    <3> QED BY <1>1, <1>2, <3>1 DEF StoreInv, StoreTypeOK
  <2> QED BY <1>1, <1>11, <2>1, EpochsKept
<1>14. LibraryKept'
  BY <1>1 DEF library, StoreInv, LibraryKept
<1> QED BY <1>7, <1>11, <1>12, <1>13, <1>14 DEF StoreInv

LEMMA ApproveStep ==
    ASSUME StoreInv, NEW u \in Users, NEW c \in Candidates, ApproveCandidate(u, c)
    PROVE  StoreInv'
<1> DEFINE approval == [approver |-> u, authn |-> users[u].authn,
                        authz |-> users[u].authz, approvedAt |-> now]
           response == [CandidateDto(c) EXCEPT !.state = "APPROVED", !.approvedAt = now,
                                               !.approval = approval]
           next == [candidateRows[c] EXCEPT !.state = "APPROVED", !.approvedAt = now]
<1>1. /\ idempotency["approve"][c] = None /\ candidateRows[c] # None
      /\ candidateRows[c].expiresAt > now /\ candidateRows[c].state = "IN_REVIEW"
      /\ candidateRows[c].author # u
      /\ RememberIn(idempotency, "approve", c, u, response)
      /\ approvals' = [approvals EXCEPT ![c] = approval]
      /\ UNCHANGED <<now, users, library, publishedReleases, candidateTargets,
                     publications, assignmentRows, revoked>>
      /\ "approve" \in Operations
  BY DEF ApproveCandidate, KeyIsNew, Operations
<1>2. candidateRows' = [candidateRows EXCEPT ![c] = next]
  BY DEF ApproveCandidate, StoreInv, StoreTypeOK
<1>3. /\ candidateRows[c] \in Rows /\ CandidateShaped(c) /\ CandidateDto(c) \in Bodies /\ now \in Nat
      /\ users[u].authn \in Nat /\ users[u].authz \in Nat
  BY <1>1, CandidateFound DEF StoreInv, StoreTypeOK, UserRows
<1>4. /\ next \in Rows /\ next.state = "APPROVED" /\ next.digest = candidateRows[c].digest
      /\ next.author = candidateRows[c].author /\ next.release = candidateRows[c].release
      /\ next.expiresAt = candidateRows[c].expiresAt
      /\ next.submittedAt = candidateRows[c].submittedAt /\ next.approvedAt = now
      /\ next.publishedAt = candidateRows[c].publishedAt
  BY <1>3 DEF Rows, Maybe, States
<1>a. /\ approval \in Approvals /\ approval.approver = u
      /\ approval.authn = users[u].authn /\ approval.authz = users[u].authz
  BY <1>3 DEF Approvals
<1> HIDE DEF next, approval
<1>5. response \in Bodies
  BY <1>3, <1>a, ApproveResponse
<1>6. candidateRows'[c] = next /\ approvals'[c] = approval
  BY <1>1, <1>2 DEF StoreInv, StoreTypeOK
<1>7. StoreTypeOK'
  <2> HIDE DEF response
  <2>1. idempotency' \in RecordTable
    BY <1>1, <1>3, <1>5, Remembered DEF StoreInv, StoreTypeOK, RecordTable
  <2>2. /\ candidateRows' \in [Candidates -> Maybe(Rows)]
        /\ approvals' \in [Candidates -> Maybe(Approvals)]
    BY <1>1, <1>2, <1>4, <1>a DEF StoreInv, StoreTypeOK, Maybe
  <2> QED BY <1>1, <2>1, <2>2 DEF StoreInv, StoreTypeOK, RecordTable, library
<1>8. CandidateGrows(c)
  BY <1>1, <1>4, <1>6, Ranks DEF CandidateGrows
<1>9. ColumnsFilled(c)'
  BY <1>1, <1>3, <1>4, <1>6, <1>a, NullAssumption DEF CandidateShaped, ColumnsFilled
<1>10. response = CandidateDto(c)'
  <2>1. CandidateDto(c)' \in Bodies
    <3>1. TargetNames(candidateTargets[c]) \in SUBSET Screens
          /\ TargetNames(candidateTargets[c])' = TargetNames(candidateTargets[c])
      BY <1>1, TargetTypes DEF StoreInv
    <3>2. approvals'[c] \in Maybe(Approvals) /\ publications'[c] \in Maybe(Publications)
      BY <1>7 DEF StoreTypeOK
    <3> QED BY <1>4, <1>6, <3>1, <3>2 DEF CandidateDto, Bodies, Rows
  <2>2. LET a == response
            b == CandidateDto(c)'
        IN /\ a.id = b.id /\ a.state = b.state /\ a.digest = b.digest
           /\ a.author = b.author /\ a.playlist = b.playlist /\ a.screens = b.screens
           /\ a.expiresAt = b.expiresAt /\ a.submittedAt = b.submittedAt
           /\ a.approvedAt = b.approvedAt /\ a.approval = b.approval
           /\ a.publishedAt = b.publishedAt /\ a.publication = b.publication
    BY <1>1, <1>3, <1>4, <1>6, <1>a, ApproveResponse DEF CandidateDto
  <2> HIDE DEF response
  <2> QED BY <1>5, <2>1, <2>2, SameBody
<1>o. \A d \in Candidates \ {c} : /\ candidateRows'[d] = candidateRows[d]
                                  /\ approvals'[d] = approvals[d]
                                  /\ publications'[d] = publications[d]
  BY <1>1, <1>2 DEF StoreInv, StoreTypeOK
<1>11. /\ CandidatesShaped' /\ RecordsFaithful'
       /\ \A d \in Candidates :
             idempotency["create"][d] # None => idempotency'["create"][d] # None
  <2> HIDE DEF response
  <2>1. candidateRows'[c].state = StateAfter["approve"]
    BY <1>4, <1>6, Ranks
  <2> QED BY <1>1, <1>5, <1>7, <1>8, <1>9, <1>10, <1>o, <2>1, OperationKeeps
<1>12. AssignmentsMatch'
  BY <1>1, <1>2, AssignmentsKept DEF StoreInv, StoreTypeOK
<1>13. EpochsGrow'
  <2>1. ASSUME NEW d \in Candidates, approvals'[d] # None
        PROVE  /\ approvals'[d].authn <= users'[approvals'[d].approver].authn
               /\ approvals'[d].authz <= users'[approvals'[d].approver].authz
    <3>1. CASE d = c
      BY <1>1, <1>3, <1>6, <1>a, <3>1
    <3>2. CASE d # c
      BY <1>1, <1>o, <2>1, <3>2 DEF StoreInv, EpochsGrow
    <3> QED BY <3>1, <3>2
  <2>2. ASSUME NEW d \in revoked
        PROVE  /\ idempotency'["create"][d] # None
               /\ candidateRows'[d] # None =>
                    /\ candidateRows'[d].state = "APPROVED"
                    /\ \/ approvals'[d].authn < users'[approvals'[d].approver].authn
                       \/ approvals'[d].authz < users'[approvals'[d].approver].authz
    <3>1. /\ d \in Candidates /\ idempotency["create"][d] # None
          /\ candidateRows[d] # None =>
                    /\ candidateRows[d].state = "APPROVED"
                    /\ \/ approvals[d].authn < users[approvals[d].approver].authn
                       \/ approvals[d].authz < users[approvals[d].approver].authz
      BY DEF StoreInv, StoreTypeOK, EpochsGrow
    <3>2. d # c
      BY <1>1, <3>1
    <3> QED BY <1>1, <1>11, <1>o, <3>1, <3>2
  <2> QED BY <1>1, <2>1, <2>2 DEF EpochsGrow
<1>14. LibraryKept'
  BY <1>1 DEF library, StoreInv, LibraryKept
<1> QED BY <1>7, <1>11, <1>12, <1>13, <1>14 DEF StoreInv

\* An approval whose epochs still hold was not revoked.
LEMMA StandingIsNotRevoked ==
    ASSUME StoreInv, NEW c \in Candidates, candidateRows[c] # None,
           approvals[c] # None, ApprovalStands(c)
    PROVE  c \notin revoked
<1>1. approvals[c] \in Approvals
  BY CandidateFound
<1>2. /\ users[approvals[c].approver].authn = approvals[c].authn
      /\ users[approvals[c].approver].authz = approvals[c].authz
  BY DEF ApprovalStands
<1>3. approvals[c].authn \in Nat /\ approvals[c].authz \in Nat
  BY <1>1 DEF Approvals
<1> QED BY <1>2, <1>3 DEF StoreInv, EpochsGrow

LEMMA AssignmentTyped ==
    ASSUME StoreInv, NEW c \in Candidates, candidateRows[c] # None,
           NEW state \in {"ASSIGNED", "WITHDRAWN"}
    PROVE  AssignmentOf(c, state) \in Assignments
<1>1. /\ candidateRows[c].release \in Playlists /\ candidateTargets[c] \in Targets
      /\ TargetNames(candidateTargets[c]) \in SUBSET Screens
  BY CandidateFound, TargetTypes DEF Rows, StoreInv
<1> DEFINE previous == IF state = "ASSIGNED" THEN None ELSE <<c, "ASSIGNED">>
<1>2. previous \in Maybe(AssignmentIds) /\ <<c, state>> \in AssignmentIds
  BY DEF Maybe, AssignmentIds
<1> HIDE DEF previous
<1>3. AssignmentDigest(candidateRows[c].release, state, TargetNames(candidateTargets[c]),
                       previous) \in AssignmentDigests
  BY <1>1, <1>2, ReleaseAssumption DEF AssignmentDigest, AssignmentDigests, ReleaseDigest,
     ReleaseDigests
<1> QED BY <1>1, <1>2, <1>3 DEF AssignmentOf, Assignments, previous

LEMMA PublishStep ==
    ASSUME StoreInv, NEW u \in Users, NEW c \in Candidates, PublishCandidate(u, c)
    PROVE  StoreInv'
<1> DEFINE publication == [assignment |-> <<c, "ASSIGNED">>, publisher |-> u]
           response == [CandidateDto(c) EXCEPT !.state = "PUBLISHED", !.publishedAt = now,
                                               !.publication = publication]
           next == [candidateRows[c] EXCEPT !.state = "PUBLISHED", !.publishedAt = now]
<1>1. /\ idempotency["publish"][c] = None /\ candidateRows[c] # None
      /\ candidateRows[c].expiresAt > now /\ candidateRows[c].state = "APPROVED"
      /\ approvals[c] # None /\ ApprovalStands(c)
      /\ RememberIn(idempotency, "publish", c, u, response)
      /\ publications' = [publications EXCEPT ![c] = publication]
      /\ UNCHANGED <<now, users, library, publishedReleases, candidateTargets,
                     approvals, revoked>>
      /\ "publish" \in Operations
  BY DEF PublishCandidate, MayPublish, KeyIsNew, Operations
<1>2. candidateRows' = [candidateRows EXCEPT ![c] = next]
  BY DEF PublishCandidate, StoreInv, StoreTypeOK
<1>3. /\ candidateRows[c] \in Rows /\ CandidateShaped(c) /\ CandidateDto(c) \in Bodies /\ now \in Nat
  BY <1>1, CandidateFound
<1>4. /\ next \in Rows /\ next.state = "PUBLISHED" /\ next.digest = candidateRows[c].digest
      /\ next.author = candidateRows[c].author /\ next.release = candidateRows[c].release
      /\ next.expiresAt = candidateRows[c].expiresAt
      /\ next.submittedAt = candidateRows[c].submittedAt
      /\ next.approvedAt = candidateRows[c].approvedAt /\ next.publishedAt = now
  BY <1>3 DEF Rows, Maybe, States
<1>a. publication \in Publications /\ publication.assignment = <<c, "ASSIGNED">>
  BY DEF Publications, AssignmentIds
<1> HIDE DEF next, publication
<1>5. response \in Bodies
  BY <1>3, <1>a, PublishResponse
<1>6. candidateRows'[c] = next /\ publications'[c] = publication
  BY <1>1, <1>2 DEF StoreInv, StoreTypeOK
<1>b. assignmentRows' = assignmentRows \cup {AssignmentOf(c, "ASSIGNED")}
  BY DEF PublishCandidate, AssignmentOf
<1>7. StoreTypeOK'
  <2> HIDE DEF response
  <2>1. idempotency' \in RecordTable
    BY <1>1, <1>3, <1>5, Remembered DEF StoreInv, StoreTypeOK, RecordTable
  <2>2. /\ candidateRows' \in [Candidates -> Maybe(Rows)]
        /\ publications' \in [Candidates -> Maybe(Publications)]
    BY <1>1, <1>2, <1>4, <1>a DEF StoreInv, StoreTypeOK, Maybe
  <2>3. assignmentRows' \subseteq Assignments
    BY <1>1, <1>b, AssignmentTyped DEF StoreInv, StoreTypeOK
  <2> QED BY <1>1, <2>1, <2>2, <2>3 DEF StoreInv, StoreTypeOK, RecordTable, library
<1>8. CandidateGrows(c)
  BY <1>1, <1>4, <1>6, Ranks DEF CandidateGrows
<1>9. ColumnsFilled(c)'
  BY <1>1, <1>3, <1>4, <1>6, <1>a, NullAssumption DEF CandidateShaped, ColumnsFilled
<1>10. response = CandidateDto(c)'
  <2>1. CandidateDto(c)' \in Bodies
    <3>1. TargetNames(candidateTargets[c]) \in SUBSET Screens
          /\ TargetNames(candidateTargets[c])' = TargetNames(candidateTargets[c])
      BY <1>1, TargetTypes DEF StoreInv
    <3>2. approvals'[c] \in Maybe(Approvals) /\ publications'[c] \in Maybe(Publications)
      BY <1>7 DEF StoreTypeOK
    <3> QED BY <1>4, <1>6, <3>1, <3>2 DEF CandidateDto, Bodies, Rows
  <2>2. LET a == response
            b == CandidateDto(c)'
        IN /\ a.id = b.id /\ a.state = b.state /\ a.digest = b.digest
           /\ a.author = b.author /\ a.playlist = b.playlist /\ a.screens = b.screens
           /\ a.expiresAt = b.expiresAt /\ a.submittedAt = b.submittedAt
           /\ a.approvedAt = b.approvedAt /\ a.approval = b.approval
           /\ a.publishedAt = b.publishedAt /\ a.publication = b.publication
    BY ZenonT(60), <1>1, <1>3, <1>4, <1>6, <1>a, PublishResponse DEF CandidateDto
  <2> HIDE DEF response
  <2> QED BY <1>5, <2>1, <2>2, SameBody
<1>o. \A d \in Candidates \ {c} : /\ candidateRows'[d] = candidateRows[d]
                                  /\ approvals'[d] = approvals[d]
                                  /\ publications'[d] = publications[d]
  BY <1>1, <1>2 DEF StoreInv, StoreTypeOK
<1>11. /\ CandidatesShaped' /\ RecordsFaithful'
       /\ \A d \in Candidates :
             idempotency["create"][d] # None => idempotency'["create"][d] # None
  <2> HIDE DEF response
  <2>1. candidateRows'[c].state = StateAfter["publish"]
    BY <1>4, <1>6, Ranks
  <2> QED BY <1>1, <1>5, <1>7, <1>8, <1>9, <1>10, <1>o, <2>1, OperationKeeps
<1>12. AssignmentsMatch'
  <2>1. ASSUME NEW a \in assignmentRows'
        PROVE  /\ candidateRows'[a.schedule] # None
               /\ candidateRows'[a.schedule].state = "PUBLISHED"
               /\ a = AssignmentOf(a.schedule, a.state)'
               /\ a.state = "WITHDRAWN" =>
                     AssignmentOf(a.schedule, "ASSIGNED")' \in assignmentRows'
    <3>1. CASE a \in assignmentRows
      <4>1. /\ candidateRows[a.schedule] # None
            /\ candidateRows[a.schedule].state = "PUBLISHED" /\ a.schedule \in Candidates
            /\ a = AssignmentOf(a.schedule, a.state)
            /\ a.state = "WITHDRAWN" =>
                     AssignmentOf(a.schedule, "ASSIGNED") \in assignmentRows
        BY <3>1 DEF StoreInv, AssignmentsMatch, StoreTypeOK, Assignments
      <4>2. a.schedule # c
        BY <1>1, <4>1
      <4>3. /\ AssignmentOf(a.schedule, a.state)' = AssignmentOf(a.schedule, a.state)
            /\ AssignmentOf(a.schedule, "ASSIGNED")' = AssignmentOf(a.schedule, "ASSIGNED")
        BY <1>1, <1>o, <4>1, <4>2 DEF AssignmentOf
      <4> QED BY <1>b, <1>o, <4>1, <4>2, <4>3
    <3>2. CASE a = AssignmentOf(c, "ASSIGNED")
      <4>1. a.schedule = c /\ a.state = "ASSIGNED"
        BY <3>2 DEF AssignmentOf
      <4>2. AssignmentOf(c, "ASSIGNED")' = AssignmentOf(c, "ASSIGNED")
        BY <1>1, <1>4, <1>6 DEF AssignmentOf
      <4>3. candidateRows'[c] # None
        BY <1>4, <1>6, NullAssumption
      <4> QED BY <1>4, <1>6, <3>2, <4>1, <4>2, <4>3
    <3> QED BY <1>b, <3>1, <3>2
  <2> QED BY <2>1 DEF AssignmentsMatch
<1>13. EpochsGrow'
  <2>1. ASSUME NEW d \in revoked, candidateRows'[d] # None
        PROVE  candidateRows'[d] = candidateRows[d] /\ approvals'[d] = approvals[d]
    <3>1. d # c /\ d \in Candidates
      BY <1>1, StandingIsNotRevoked DEF StoreInv, StoreTypeOK
    <3> QED BY <1>o, <3>1
  <2> QED BY <1>1, <1>11, <2>1, EpochsKept
<1>14. LibraryKept'
  BY <1>1 DEF library, StoreInv, LibraryKept
<1> QED BY <1>7, <1>11, <1>12, <1>13, <1>14 DEF StoreInv

\* The assignments of one schedule: the published one, and its withdrawal.
LEMMA ScheduleAssignments ==
    ASSUME StoreInv, NEW a \in assignmentRows
    PROVE  /\ a.schedule \in Candidates /\ candidateRows[a.schedule] # None
           /\ candidateRows[a.schedule].state = "PUBLISHED"
           /\ a.state \in {"ASSIGNED", "WITHDRAWN"}
           /\ a = AssignmentOf(a.schedule, a.state)
           /\ AssignmentOf(a.schedule, "ASSIGNED") \in assignmentRows
BY DEF StoreInv, StoreTypeOK, Assignments, AssignmentsMatch

LEMMA WithdrawStep ==
    ASSUME StoreInv, NEW u \in Users, NEW c \in Candidates, WithdrawSchedule(u, c)
    PROVE  StoreInv'
<1>1. UNCHANGED <<now, users, library, publishedReleases, candidateRows, candidateTargets,
                  approvals, publications, idempotency, revoked>>
  BY DEF WithdrawSchedule
<1>2. PICK previous \in Latest(c) :
        /\ previous.state = "ASSIGNED"
        /\ assignmentRows' = assignmentRows \cup
              {[id |-> <<c, "WITHDRAWN">>, schedule |-> c,
                release |-> previous.release, state |-> "WITHDRAWN",
                previous |-> previous.id, targets |-> previous.targets,
                digest |-> AssignmentDigest(previous.release, "WITHDRAWN",
                               TargetNames(previous.targets), previous.id)]}
  BY DEF WithdrawSchedule, WithdrawalTargets
<1>3. previous \in assignmentRows /\ previous.schedule = c
  BY DEF Latest
<1>4. /\ previous = AssignmentOf(c, "ASSIGNED") /\ candidateRows[c] # None
      /\ candidateRows[c].state = "PUBLISHED"
  BY <1>2, <1>3, ScheduleAssignments
<1>5. assignmentRows' = assignmentRows \cup {AssignmentOf(c, "WITHDRAWN")}
  BY <1>2, <1>4 DEF AssignmentOf
<1>6. StoreTypeOK'
  BY <1>1, <1>4, <1>5, AssignmentTyped DEF StoreInv, StoreTypeOK, library
<1>7. CandidatesShaped' /\ RecordsFaithful'
  <2>1. \A d \in Candidates :
           TargetNames(candidateTargets[d])' = TargetNames(candidateTargets[d])
    BY <1>1
  <2> QED BY <1>1, <1>6, <2>1, CandidatesKept DEF StoreInv, StoreTypeOK
<1>8. AssignmentsMatch'
  <2>1. \A d, state : AssignmentOf(d, state)' = AssignmentOf(d, state)
    BY <1>1 DEF AssignmentOf
  <2>2. /\ AssignmentOf(c, "WITHDRAWN").schedule = c
        /\ AssignmentOf(c, "WITHDRAWN").state = "WITHDRAWN"
    BY DEF AssignmentOf
  <2> QED BY <1>1, <1>3, <1>4, <1>5, <2>1, <2>2 DEF AssignmentsMatch, StoreInv
<1>9. EpochsGrow' /\ LibraryKept'
  BY <1>1 DEF StoreInv, EpochsGrow, LibraryKept, library
<1> QED BY <1>6, <1>7, <1>8, <1>9 DEF StoreInv

LEMMA NextStep == ASSUME StoreInv, Next PROVE StoreInv'
BY LibraryStep, DeleteScreenStep, CreateStep, RefuseStep, SubmitStep, ApproveStep, PublishStep,
   WithdrawStep, AuthorityChangeStep, TickStep DEF Next

LEMMA StutterStep == ASSUME StoreInv, UNCHANGED storeVars PROVE StoreInv'
<1>1. UNCHANGED <<now, users, screens, media, playlists, publishedReleases,
                  candidateRows, candidateTargets, approvals, publications,
                  assignmentRows, idempotency, revoked>>
  BY DEF storeVars
<1>2. StoreTypeOK'
  BY <1>1 DEF StoreInv, StoreTypeOK
<1>3. CandidatesShaped' /\ RecordsFaithful' /\ AssignmentsMatch'
  BY <1>1, <1>2, OutsideCandidates DEF candidateVars, StoreInv, StoreTypeOK
<1>4. EpochsGrow' /\ LibraryKept'
  BY <1>1 DEF StoreInv, EpochsGrow, LibraryKept
<1> QED BY <1>2, <1>3, <1>4 DEF StoreInv

\* The inductive invariant of the tables.
THEOREM StoreInvAlways == Spec => []StoreInv
<1>1. StoreInv /\ [Next]_storeVars => StoreInv'
  BY NextStep, StutterStep
<1> QED BY InitInv, <1>1, PTL DEF Spec

-----------------------------------------------------------------------------
(* What the tables promise.                                                *)

\* Every column holds what its declaration allows, whatever was stored,
\* pruned, compacted and detached.
THEOREM StoreTypeCorrect == Spec => []StoreTypeOK
<1>1. StoreInv => StoreTypeOK
  BY DEF StoreInv
<1> QED BY <1>1, StoreInvAlways, PTL

\* While a response is retained, the request is answered with exactly that
\* response: the live rows always bear it out.
THEOREM ReplayAlwaysFaithful == Spec => []ReplayIsFaithful
<1>1. ASSUME StoreInv PROVE ReplayIsFaithful
  <2> SUFFICES ASSUME NEW op \in Operations, NEW c \in Candidates,
                      idempotency[op][c] # None, idempotency[op][c].expiresAt > now
               PROVE  /\ idempotency[op][c].body # None
                      /\ ReplayVerified(op, idempotency[op][c].body)
    BY DEF ReplayIsFaithful
  <2>1. /\ RecordFaithful(op, c) /\ idempotency[op][c] \in Records /\ now \in Nat
        /\ idempotency[op][c].expiresAt \in Nat
    BY <1>1, RecordTypes DEF StoreInv, StoreTypeOK, RecordsFaithful, Records
  <2> DEFINE body == idempotency[op][c].body
  <2>2. body # None /\ candidateRows[c] # None
    BY <2>1 DEF RecordFaithful
  <2>3. /\ body = ResponseThen(op, c)
        /\ Rank[candidateRows[c].state] >= Rank[StateAfter[op]]
    BY <2>1, <2>2 DEF RecordFaithful
  <2>4. /\ CandidateShaped(c) /\ candidateRows[c].state \in States
        /\ CandidateDto(c) \in Bodies
    BY <1>1, <2>2, CandidateFound
  <2>5. ResponseThen(op, c) = ResponseOf(op, CandidateDto(c))
    BY DEF ResponseThen, ResponseOf
  <2>6. body.id = c /\ body.state = StateAfter[op]
    <3>1. CandidateDto(c).id = c
      BY DEF CandidateDto
    <3> QED BY <2>3, <2>4, <2>5, <3>1, ResponseColumns
  <2> HIDE DEF body
  <2>7. /\ op # "create" => candidateRows[c].submittedAt # None
        /\ op \in {"approve", "publish"} =>
              candidateRows[c].approvedAt # None /\ approvals[c] # None
        /\ op = "publish" => publications[c] # None
    BY <2>3, <2>4, Ranks DEF CandidateShaped, ColumnsFilled, States, Operations
  <2>8. HasValidDigest(c)
    BY <2>4 DEF CandidateShaped
  <2> QED BY <2>2, <2>3, <2>6, <2>7, <2>8 DEF ReplayVerified, body
<1> QED BY <1>1, StoreInvAlways, PTL

\* What a screen plays was approved by another than its author, whose
\* authority did not change before it was published, and is in the library.
THEOREM DeliveryAlwaysApproved == Spec => []OnlyApprovedIsDelivered
<1>1. ASSUME StoreInv PROVE OnlyApprovedIsDelivered
  <2>1. ASSUME NEW s \in Screens, NEW a \in ActiveAssignments(s)
        PROVE  /\ approvals[a.schedule] # None
               /\ approvals[a.schedule].approver # candidateRows[a.schedule].author
               /\ a.schedule \notin revoked
               /\ a.release \in Playlists /\ playlists[a.release] = "stored"
    <3>1. a \in assignmentRows
      BY DEF ActiveAssignments
    <3>2. /\ a.schedule \in Candidates /\ candidateRows[a.schedule] # None
          /\ candidateRows[a.schedule].state = "PUBLISHED"
          /\ a = AssignmentOf(a.schedule, a.state)
      BY <1>1, <3>1, ScheduleAssignments
    <3>3. CandidateShaped(a.schedule) /\ candidateRows[a.schedule] \in Rows
      BY <1>1, <3>2, CandidateFound
    <3>4. a.release = candidateRows[a.schedule].release
      BY <3>2 DEF AssignmentOf
    <3> QED BY <1>1, <3>2, <3>3, <3>4
            DEF CandidateShaped, ColumnsFilled, StoreInv, EpochsGrow, LibraryKept, Rows
  <2>2. ASSUME NEW s \in Screens, NEW m \in Media, MayDeliver(s, m)
        PROVE  media[m] = "stored"
    BY <1>1, <2>1, <2>2 DEF MayDeliver, StoreInv, LibraryKept
  <2> QED BY <2>1, <2>2 DEF OnlyApprovedIsDelivered
<1> QED BY <1>1, StoreInvAlways, PTL

\* The assignments of a candidate, read as the workflow reads them.
LEMMA AssignmentRead ==
    ASSUME StoreInv, NEW c \in Candidates
    PROVE  LET a == AssignmentOf(c, "ASSIGNED")
               b == AssignmentOf(c, "WITHDRAWN")
           IN /\ a \in assignmentRows <=> AssignmentValue(c) # "NONE"
              /\ b \in assignmentRows <=> AssignmentValue(c) = "WITHDRAWN"
              /\ AssignmentValue(c) \in {"NONE", "ASSIGNED", "WITHDRAWN"}
<1> DEFINE a == AssignmentOf(c, "ASSIGNED")
           b == AssignmentOf(c, "WITHDRAWN")
<1>1. a.schedule = c /\ a.state = "ASSIGNED" /\ b.schedule = c /\ b.state = "WITHDRAWN"
  BY DEF AssignmentOf
<1>2. ASSUME NEW d \in assignmentRows, d.schedule = c
      PROVE  /\ d.state \in {"ASSIGNED", "WITHDRAWN"} /\ d = AssignmentOf(c, d.state)
             /\ a \in assignmentRows
  BY <1>2, ScheduleAssignments
<1> HIDE DEF a, b
<1>3. a \in assignmentRows <=> AssignmentValue(c) # "NONE"
  BY <1>1, <1>2 DEF AssignmentValue
<1>4. b \in assignmentRows <=> AssignmentValue(c) = "WITHDRAWN"
  BY <1>1, <1>2 DEF AssignmentValue, b
<1> QED BY <1>3, <1>4 DEF AssignmentValue, a, b

\* The schedules that are neither withdrawn nor cut off from a screen.
Standing(c) == AssignmentValue(c) = "ASSIGNED" /\ AllLive(candidateTargets[c])

\* The two ways the code asks which assignments stand, in one.
LEMMA StandingAssignments ==
    ASSUME StoreInv, NEW a
    PROVE  /\ a \in assignmentRows /\ a.state = "ASSIGNED"
           /\ HasProvenance(a) /\ AssignmentVerified(a)
           /\ \A b \in assignmentRows : ~IsWithdrawnBy(a, b)
           <=>
           \E c \in Candidates : Standing(c) /\ a = AssignmentOf(c, "ASSIGNED")
<1> DEFINE stands == /\ a \in assignmentRows /\ a.state = "ASSIGNED"
                     /\ HasProvenance(a) /\ AssignmentVerified(a)
                     /\ \A b \in assignmentRows : ~IsWithdrawnBy(a, b)
<1>1. ASSUME stands
      PROVE  \E c \in Candidates : Standing(c) /\ a = AssignmentOf(c, "ASSIGNED")
  <2> DEFINE c == a.schedule
             w == AssignmentOf(c, "WITHDRAWN")
  <2>1. c \in Candidates /\ a = AssignmentOf(c, "ASSIGNED") /\ AllLive(a.targets)
    BY <1>1, ScheduleAssignments DEF HasProvenance
  <2>2. a.targets = candidateTargets[c]
    BY <2>1 DEF AssignmentOf
  <2>3. w \notin assignmentRows
    <3> SUFFICES IsWithdrawnBy(a, w)
      BY <1>1
    <3>1. a.state = "ASSIGNED" /\ AssignmentVerified(a)
      BY <1>1
    <3>2. /\ w.state = "WITHDRAWN" /\ w.previous = <<c, "ASSIGNED">> /\ w.schedule = c
          /\ w.release = candidateRows[c].release /\ w.targets = candidateTargets[c]
          /\ w.digest = AssignmentDigest(w.release, w.state, TargetNames(w.targets), w.previous)
      BY DEF AssignmentOf
    <3>3. a.id = <<c, "ASSIGNED">> /\ a.release = candidateRows[c].release /\ a.schedule = c
      BY <2>1 DEF AssignmentOf
    <3> QED BY <2>2, <3>1, <3>2, <3>3 DEF IsWithdrawnBy, AssignmentVerified
  <2>4. AssignmentValue(c) = "ASSIGNED"
    BY <1>1, <2>1, <2>3, AssignmentRead
  <2> QED BY <2>1, <2>2, <2>4 DEF Standing
<1>2. ASSUME NEW c \in Candidates, Standing(c), a = AssignmentOf(c, "ASSIGNED")
      PROVE  stands
  <2>1. a \in assignmentRows /\ AssignmentOf(c, "WITHDRAWN") \notin assignmentRows
    BY <1>2, AssignmentRead DEF Standing
  <2>2. /\ a.state = "ASSIGNED" /\ a.schedule = c /\ a.id = <<c, "ASSIGNED">>
        /\ a.release = candidateRows[c].release /\ a.targets = candidateTargets[c]
        /\ a.digest = AssignmentDigest(a.release, a.state, TargetNames(a.targets), a.previous)
    BY <1>2 DEF AssignmentOf
  <2>3. /\ candidateRows[c] # None /\ candidateRows[c].state = "PUBLISHED"
    BY <2>1, <2>2, ScheduleAssignments
  <2>4. CandidateShaped(c)
    BY <2>3, CandidateFound
  <2>5. HasProvenance(a)
    BY <1>2, <2>2, <2>3, <2>4 DEF HasProvenance, Standing, CandidateShaped, ColumnsFilled
  <2>6. ASSUME NEW b \in assignmentRows, IsWithdrawnBy(a, b) PROVE FALSE
    <3>1. b.state = "WITHDRAWN" /\ b.schedule = c
      BY <2>2, <2>6 DEF IsWithdrawnBy
    <3>2. b = AssignmentOf(c, "WITHDRAWN")
      BY <3>1, ScheduleAssignments
    <3> QED BY <2>1, <3>2
  <2> QED BY <2>1, <2>2, <2>5, <2>6 DEF AssignmentVerified
<1> QED BY <1>1, <1>2

\* A screen is given exactly the schedules that the workflow assigns to it,
\* but for those with a deleted screen; and just those are listed.
THEOREM AlwaysDeliveredAsPromised == Spec => []DeliveredAsPromised
<1>1. ASSUME StoreInv PROVE DeliveredAsPromised
  <2> DEFINE given(s) == {a.schedule : a \in ActiveAssignments(s)}
  <2>1. \A c : AssignmentOf(c, "ASSIGNED").schedule = c
               /\ AssignmentOf(c, "ASSIGNED").targets = candidateTargets[c]
    BY DEF AssignmentOf
  <2>2. ASSUME NEW s \in Screens
        PROVE  given(s) = {c \in Candidates : Standing(c) /\ s \in TargetNames(candidateTargets[c])}
    <3>1. ActiveAssignments(s) =
            {a \in assignmentRows :
               /\ \E c \in Candidates : Standing(c) /\ a = AssignmentOf(c, "ASSIGNED")
               /\ s \in TargetNames(a.targets)}
      BY <1>1, StandingAssignments DEF ActiveAssignments
    <3>2. \A c \in Candidates : Standing(c) => AssignmentOf(c, "ASSIGNED") \in assignmentRows
      BY <1>1, StandingAssignments
    <3> QED BY <2>1, <3>1, <3>2
  <2>3. ASSUME NEW s \in Screens
        PROVE  {c \in Workflow!Deliverable(s) : AllLive(candidateTargets[c])} = given(s)
    <3>1. ASSUME NEW c \in Candidates, AssignmentValue(c) = "ASSIGNED"
          PROVE  CandidateValue(c).screens = TargetNames(candidateTargets[c])
      <4>1. AssignmentOf(c, "ASSIGNED") \in assignmentRows
        BY <1>1, <3>1, AssignmentRead
      <4>2. candidateRows[c] # None
        BY <1>1, <2>1, <4>1, ScheduleAssignments
      <4> QED BY <4>2 DEF CandidateValue
    <3> QED BY <2>2, <3>1 DEF Workflow!Deliverable, Standing
  <2>4. ListedSchedules = {c \in Candidates : Standing(c)}
    <3>1. ListedSchedules =
            {a.schedule : a \in {b \in assignmentRows :
               \E c \in Candidates : Standing(c) /\ b = AssignmentOf(c, "ASSIGNED")}}
      BY <1>1, StandingAssignments DEF ListedSchedules
    <3>2. \A c \in Candidates : Standing(c) => AssignmentOf(c, "ASSIGNED") \in assignmentRows
      BY <1>1, StandingAssignments
    <3> QED BY <2>1, <3>1, <3>2
  <2>5. ASSUME NEW c \in Candidates, Standing(c)
        PROVE  \E s \in Screens : s \in TargetNames(candidateTargets[c])
    <3>1. HasProvenance(AssignmentOf(c, "ASSIGNED"))
      BY <1>1, <2>5, StandingAssignments
    <3>2. TargetNames(candidateTargets[c]) # {}
      BY <2>1, <3>1 DEF HasProvenance
    <3> QED BY <3>2 DEF TargetNames
  <2>6. ListedSchedules = UNION {given(s) : s \in Screens}
    <3> HIDE DEF given
    <3> QED BY <2>2, <2>4, <2>5
  <2> QED BY <2>3, <2>6 DEF DeliveredAsPromised
<1> QED BY <1>1, StoreInvAlways, PTL

-----------------------------------------------------------------------------
(* The tables implement the workflow.                                      *)

\* A target that is live is a screen that is.
LiveTargets ==
    \A c \in Candidates, s \in Screens :
        candidateTargets[c][s] = "live" => screens[s] = "live"

LEMMA LiveTargetsStep ==
    ASSUME StoreInv, LiveTargets, Next
    PROVE  LiveTargets'
<1> SUFFICES ASSUME NEW d \in Candidates, NEW t \in Screens, candidateTargets'[d][t] = "live"
             PROVE  screens'[t] = "live"
  BY DEF LiveTargets
<1>0. candidateTargets[d][t] = "live" => screens[t] = "live"
  BY DEF LiveTargets
<1>1. CASE UNCHANGED <<screens, candidateTargets>>
  BY <1>0, <1>1
<1>2. ASSUME NEW u \in Users, NEW s \in Screens, CreateScreen(u, s) PROVE screens'[t] = "live"
  BY <1>0, <1>2 DEF CreateScreen, StoreInv, StoreTypeOK
<1>3. ASSUME NEW u \in Users, NEW s \in Screens, DeleteScreen(u, s) PROVE screens'[t] = "live"
  <2>1. candidateTargets'[d] = Detach(candidateTargets[d], s) /\ candidateTargets[d] \in Targets
    BY <1>3 DEF DeleteScreen, StoreInv, StoreTypeOK
  <2>2. t # s /\ candidateTargets[d][t] = "live"
    BY <2>1 DEF Detach, Targets
  <2> QED BY <1>0, <1>3, <2>2 DEF DeleteScreen, StoreInv, StoreTypeOK
<1>4. ASSUME NEW u \in Users, NEW c \in Candidates, NEW p \in Playlists,
             NEW S \in SUBSET Screens, NEW life \in 1 .. MaxLifetime,
             CreateCandidate(u, c, p, S, life)
      PROVE  screens'[t] = "live"
  <2>1. /\ screens' = screens
        /\ candidateTargets'[d][t] \in {IF t \in S THEN "live" ELSE "none", NoTargets[t],
                                        candidateTargets[d][t]}
        /\ t \in S => screens[t] = "live"
    BY <1>4 DEF CreateCandidate, library, MayCreate
  <2> QED BY <1>0, <2>1 DEF NoTargets
<1>5. ASSUME NEW u \in Users, NEW p \in Playlists, NEW S \in SUBSET Screens,
             RefuseCandidate(u, p, S)
      PROVE  screens'[t] = "live"
  <2>1. /\ screens' = screens
        /\ candidateTargets'[d][t] \in {NoTargets[t], candidateTargets[d][t]}
    BY <1>5 DEF RefuseCandidate, library
  <2> QED BY <1>0, <2>1 DEF NoTargets
<1>6. ASSUME NEW u \in Users,
             \/ \E m \in Media : CreateMedia(u, m) \/ DeleteMedia(u, m)
             \/ \E p \in Playlists : CreatePlaylist(u, p) \/ DeletePlaylist(u, p)
             \/ \E c \in Candidates :
                   \/ SubmitCandidate(u, c) \/ ApproveCandidate(u, c)
                   \/ PublishCandidate(u, c) \/ WithdrawSchedule(u, c)
             \/ \E role \in OfferedRoles : ChangeRole(u, role)
             \/ RemoveMembership(u) \/ DisableUser(u) \/ RotatePassword(u)
      PROVE  screens'[t] = "live"
  <2>1. UNCHANGED <<screens, candidateTargets>>
    BY <1>6 DEF CreateMedia, DeleteMedia, CreatePlaylist, DeletePlaylist, SubmitCandidate,
       ApproveCandidate, PublishCandidate, WithdrawSchedule, ChangeRole, RemoveMembership,
       DisableUser, RotatePassword, ChangeAuthority, library
  <2> QED BY <1>1, <2>1
<1>7. CASE Tick
  BY <1>1, <1>7 DEF Tick, library
<1> QED BY <1>2, <1>3, <1>4, <1>5, <1>6, <1>7 DEF Next

THEOREM LiveTargetsAlways == Spec => []LiveTargets
<1>1. Init => LiveTargets
  BY DEF Init, LiveTargets
<1>2. StoreInv /\ LiveTargets /\ [Next]_storeVars => LiveTargets'
  BY LiveTargetsStep DEF LiveTargets, storeVars
<1> QED BY <1>1, <1>2, StoreInvAlways, PTL DEF Spec

\* The workflow's variables, as the tables spell them.
AbstractCandidates == [c \in Candidates |-> CandidateValue(c)]
AbstractAssignments == [c \in Candidates |-> AssignmentValue(c)]
AbstractRecords ==
    [o \in Operations |-> [c \in Candidates |-> RecordValue(idempotency[o][c])]]

LEMMA SharedReads ==
    /\ \A u, roles : Workflow!Holds(u, roles) <=> Holds(u, roles)
    /\ \A u, op : Workflow!Can(u, op) <=> Can(u, op)
    /\ \A u : Workflow!OwnerRemainsWithout(u) <=> OwnerRemainsWithout(u)
    /\ \A p, t : Workflow!PlayableAt(p, t) <=> PlayableAt(p, t)
    /\ Workflow!Editors = Editors /\ Workflow!Administrators = Administrators
    /\ Workflow!Operations = Operations
<1>1. /\ Workflow!Editors = Editors /\ Workflow!Administrators = Administrators
      /\ Workflow!Operations = Operations
  BY DEF Workflow!Editors, Editors, Workflow!Administrators, Administrators, Workflow!Operations, Operations
<1>2. Workflow!Grants = Grants
  BY <1>1 DEF Workflow!Grants, Grants
<1>3. \A u, roles : Workflow!Holds(u, roles) <=> Holds(u, roles)
  BY DEF Workflow!Holds, Holds
<1>4. \A u, op : Workflow!Can(u, op) <=> Can(u, op)
  BY <1>2, <1>3 DEF Workflow!Can, Can
<1>5. \A u : Workflow!OwnerRemainsWithout(u) <=> OwnerRemainsWithout(u)
  BY <1>3 DEF Workflow!OwnerRemainsWithout, OwnerRemainsWithout
<1>6. \A p, t : Workflow!PlayableAt(p, t) <=> PlayableAt(p, t)
  BY DEF Workflow!PlayableAt, PlayableAt
<1> QED BY <1>1, <1>3, <1>4, <1>5, <1>6

LEMMA SharedSums ==
    /\ \A S : Workflow!Cardinality(S) = Cardinality(S)
    /\ Workflow!ChangesLeft <=> ChangesLeft
<1>1. \A S : Workflow!Cardinality(S) = Cardinality(S)
  BY DEF Cardinality, Workflow!Cardinality
<1>2. Workflow!ChangesLeft <=> ChangesLeft
  BY Zenon DEF Workflow!ChangesLeft, ChangesLeft, MapThenSumSet, Workflow!MapThenSumSet,
     MapThenFoldSet, Workflow!MapThenFoldSet
<1> QED BY <1>1, <1>2

\* A candidate's rows joined.
LEMMA Joined ==
    ASSUME StoreInv, NEW c \in Candidates
    PROVE  /\ CandidateValue(c) = None <=> candidateRows[c] = None
           /\ candidateRows[c] # None =>
                /\ CandidateValue(c) \in CandidateValues
                /\ CandidateValue(c).state = candidateRows[c].state
                /\ CandidateValue(c).author = candidateRows[c].author
                /\ CandidateValue(c).playlist = candidateRows[c].release
                /\ CandidateValue(c).expiresAt = candidateRows[c].expiresAt
                /\ CandidateValue(c).screens = TargetNames(candidateTargets[c])
                /\ approvals[c] # None =>
                     CandidateValue(c).approval =
                        [approver |-> approvals[c].approver, authn |-> approvals[c].authn,
                         authz |-> approvals[c].authz]
<1>1. CASE candidateRows[c] = None
  BY <1>1 DEF CandidateValue
<1>2. CASE candidateRows[c] # None
  <2> DEFINE approval == IF approvals[c] = None THEN None
                         ELSE [approver |-> approvals[c].approver,
                               authn |-> approvals[c].authn, authz |-> approvals[c].authz]
  <2>1. approval \in Maybe(ApprovalValues)
    BY <1>2, CandidateFound DEF Approvals, Maybe, ApprovalValues
  <2>2. candidateRows[c] \in Rows /\ TargetNames(candidateTargets[c]) \in SUBSET Screens
    BY <1>2, CandidateFound, TargetTypes DEF StoreInv
  <2>3. CandidateValue(c) =
          [state |-> candidateRows[c].state, author |-> candidateRows[c].author,
           playlist |-> candidateRows[c].release,
           screens |-> TargetNames(candidateTargets[c]),
           expiresAt |-> candidateRows[c].expiresAt, approval |-> approval]
    BY <1>2 DEF CandidateValue
  <2>4. approvals[c] # None =>
           approval = [approver |-> approvals[c].approver, authn |-> approvals[c].authn,
                       authz |-> approvals[c].authz]
    OBVIOUS
  <2> HIDE DEF approval
  <2>5. CandidateValue(c) \in CandidateValues
    BY <2>1, <2>2, <2>3 DEF CandidateValues, Rows
  <2> QED BY <1>2, <2>3, <2>4, <2>5, NullValueAssumption
<1> QED BY <1>1, <1>2

LEMMA ValueKept ==
    ASSUME NEW c, candidateRows'[c] = candidateRows[c],
           TargetNames(candidateTargets[c])' = TargetNames(candidateTargets[c]),
           approvals'[c] = approvals[c]
    PROVE  CandidateValue(c)' = CandidateValue(c)
BY DEF CandidateValue

LEMMA RecordValueKept ==
    ASSUME NEW a \in Maybe(Records), NEW b, Compacted(a, b)
    PROVE  RecordValue(b) = RecordValue(a)
<1>1. CASE a = None
  BY <1>1 DEF Compacted
<1>2. CASE a # None /\ a # b
  <2>1. a \in Records /\ b = [a EXCEPT !.body = None]
    BY <1>2 DEF Maybe, Compacted
  <2>2. b \in Records /\ b.actor = a.actor /\ b.expiresAt = a.expiresAt
    BY <2>1 DEF Records, Maybe
  <2> QED BY <1>2, <2>2, NullAssumption DEF RecordValue
<1> QED BY <1>1, <1>2

\* An operation's record, in the workflow.
LEMMA RecordedValue ==
    ASSUME NEW u \in Users, NEW op \in Operations, NEW c \in Candidates,
           NEW response \in Bodies, now \in Nat,
           idempotency'[op][c] =
             [actor |-> u, expiresAt |-> now + Retention, body |-> response],
           \A o \in Operations, d \in Candidates : idempotency[o][d] \in Maybe(Records),
           \A o \in Operations, d \in Candidates : o # op \/ d # c =>
              Compacted(idempotency[o][d], idempotency'[o][d])
    PROVE  AbstractRecords' =
             [AbstractRecords EXCEPT
                ![op][c] = [actor |-> u, expiresAt |-> now + Retention]]
<1>1. idempotency'[op][c] # None
  <2>1. [actor |-> u, expiresAt |-> now + Retention, body |-> response] \in Records
    BY Numbers DEF Records, Maybe
  <2> QED BY <2>1, NullAssumption
<1>2. RecordValue(idempotency'[op][c]) = [actor |-> u, expiresAt |-> now + Retention]
  BY <1>1 DEF RecordValue
<1>3. \A o \in Operations, d \in Candidates : o # op \/ d # c =>
         RecordValue(idempotency'[o][d]) = RecordValue(idempotency[o][d])
  BY RecordValueKept
<1> DEFINE before == [o \in Operations |-> [d \in Candidates |-> RecordValue(idempotency[o][d])]]
           after == [o \in Operations |-> [d \in Candidates |-> RecordValue(idempotency'[o][d])]]
           new == [actor |-> u, expiresAt |-> now + Retention]
<1>4. AbstractRecords' = after /\ AbstractRecords = before
  BY DEF AbstractRecords
<1> HIDE DEF new
<1>5. after = [before EXCEPT ![op][c] = new]
  <2>1. /\ before = [o \in Operations |-> before[o]]
        /\ \A o \in Operations : before[o] = [d \in Candidates |-> RecordValue(idempotency[o][d])]
    OBVIOUS
  <2>2. ASSUME NEW o \in Operations PROVE after[o] = [before EXCEPT ![op][c] = new][o]
    <3>1. CASE o # op
      BY <1>3, <3>1
    <3>2. CASE o = op
      BY <1>2, <1>3, <3>2 DEF new
    <3> QED BY <3>1, <3>2
  <2> QED BY <2>2
<1> QED BY <1>4, <1>5 DEF new

\* Steps that leave the candidates alone.
LEMMA AbstractKept ==
    ASSUME UNCHANGED <<candidateRows, approvals, idempotency>>,
           \A c \in Candidates :
              TargetNames(candidateTargets[c])' = TargetNames(candidateTargets[c])
    PROVE  AbstractCandidates' = AbstractCandidates /\ AbstractRecords' = AbstractRecords
<1>1. \A c \in Candidates : CandidateValue(c)' = CandidateValue(c)
  BY ValueKept
<1>2. AbstractRecords' = AbstractRecords
  BY DEF AbstractRecords
<1> QED BY <1>1, <1>2 DEF AbstractCandidates

LEMMA AssignmentsSame ==
    ASSUME assignmentRows' = assignmentRows
    PROVE  AbstractAssignments' = AbstractAssignments
BY DEF AbstractAssignments, AssignmentValue

LEMMA LibrarySimulates ==
    ASSUME StoreInv, NEW u \in Users
    PROVE  /\ \A s \in Screens : CreateScreen(u, s) => Workflow!CreateScreen(u, s)
           /\ \A s \in Screens : DeleteScreen(u, s) => Workflow!DeleteScreen(u, s)
           /\ \A m \in Media : CreateMedia(u, m) => Workflow!CreateMedia(u, m)
           /\ \A m \in Media : DeleteMedia(u, m) => Workflow!DeleteMedia(u, m)
           /\ \A p \in Playlists : CreatePlaylist(u, p) => Workflow!CreatePlaylist(u, p)
           /\ \A p \in Playlists : DeletePlaylist(u, p) => Workflow!DeletePlaylist(u, p)
<1>1. ASSUME UNCHANGED candidateVars
      PROVE  /\ AbstractCandidates' = AbstractCandidates
             /\ AbstractAssignments' = AbstractAssignments
             /\ AbstractRecords' = AbstractRecords
  BY <1>1, AbstractKept, AssignmentsSame DEF candidateVars
<1>2. ASSUME NEW s \in Screens, CreateScreen(u, s) PROVE Workflow!CreateScreen(u, s)
  <2>1. UNCHANGED candidateVars
    BY <1>2 DEF CreateScreen, candidateVars
  <2> QED BY <1>1, <1>2, <2>1, SharedReads DEF CreateScreen, Workflow!CreateScreen,
             AbstractCandidates, AbstractAssignments, AbstractRecords
<1>3. ASSUME NEW s \in Screens, DeleteScreen(u, s) PROVE Workflow!DeleteScreen(u, s)
  <2>1. \A c \in Candidates :
           TargetNames(candidateTargets[c])' = TargetNames(candidateTargets[c])
    BY <1>3, Detached, TargetTypes DEF DeleteScreen, StoreInv
  <2>2. AbstractCandidates' = AbstractCandidates /\ AbstractRecords' = AbstractRecords
    BY <1>3, <2>1, AbstractKept DEF DeleteScreen
  <2>3. AbstractAssignments' = AbstractAssignments
    <3>1. assignmentRows' = {[a EXCEPT !.targets = Detach(@, s)] : a \in assignmentRows}
      BY <1>3 DEF DeleteScreen
    <3>2. ASSUME NEW a \in assignmentRows
          PROVE  LET b == [a EXCEPT !.targets = Detach(@, s)]
                 IN b.schedule = a.schedule /\ b.state = a.state
      BY DEF StoreInv, StoreTypeOK, Assignments
    <3>3. \A c \in Candidates :
             /\ (\E a \in assignmentRows : a.schedule = c /\ a.state = "WITHDRAWN")
                  <=> \E a \in assignmentRows' : a.schedule = c /\ a.state = "WITHDRAWN"
             /\ (\E a \in assignmentRows : a.schedule = c)
                  <=> \E a \in assignmentRows' : a.schedule = c
      <4>1. \A a \in assignmentRows : \E b \in assignmentRows' :
               b.schedule = a.schedule /\ b.state = a.state
        BY <3>1, <3>2
      <4>2. \A b \in assignmentRows' : \E a \in assignmentRows :
               b.schedule = a.schedule /\ b.state = a.state
        BY <3>1, <3>2
      <4> QED BY <4>1, <4>2
    <3> QED BY <3>3 DEF AbstractAssignments, AssignmentValue
  <2> QED BY <1>3, <2>2, <2>3, SharedReads DEF DeleteScreen, Workflow!DeleteScreen,
             AbstractCandidates, AbstractAssignments, AbstractRecords
<1>4. ASSUME NEW m \in Media, CreateMedia(u, m) PROVE Workflow!CreateMedia(u, m)
  <2>1. UNCHANGED candidateVars
    BY <1>4 DEF CreateMedia, candidateVars
  <2> QED BY <1>1, <1>4, <2>1, SharedReads DEF CreateMedia, Workflow!CreateMedia,
             AbstractCandidates, AbstractAssignments, AbstractRecords
<1>5. ASSUME NEW m \in Media, DeleteMedia(u, m) PROVE Workflow!DeleteMedia(u, m)
  <2>1. UNCHANGED candidateVars
    BY <1>5 DEF DeleteMedia, candidateVars
  <2>2. ~Workflow!MediaInUse(m)
    BY <1>5 DEF DeleteMedia, Workflow!MediaInUse
  <2> QED BY <1>1, <1>5, <2>1, <2>2, SharedReads DEF DeleteMedia, Workflow!DeleteMedia,
             AbstractCandidates, AbstractAssignments, AbstractRecords
<1>6. ASSUME NEW p \in Playlists, CreatePlaylist(u, p) PROVE Workflow!CreatePlaylist(u, p)
  <2>1. UNCHANGED candidateVars
    BY <1>6 DEF CreatePlaylist, candidateVars
  <2> QED BY <1>1, <1>6, <2>1, SharedReads DEF CreatePlaylist, Workflow!CreatePlaylist,
             AbstractCandidates, AbstractAssignments, AbstractRecords
<1>7. ASSUME NEW p \in Playlists, DeletePlaylist(u, p) PROVE Workflow!DeletePlaylist(u, p)
  <2>1. UNCHANGED candidateVars
    BY <1>7 DEF DeletePlaylist, candidateVars
  <2>2. ASSUME NEW c \in Candidates, AbstractAssignments[c] # "NONE",
               AbstractCandidates[c].playlist = p
        PROVE  FALSE
    <3>1. AssignmentOf(c, "ASSIGNED") \in assignmentRows
      BY <2>2, AssignmentRead DEF AbstractAssignments
    <3>2. /\ AssignmentOf(c, "ASSIGNED").schedule = c
          /\ AssignmentOf(c, "ASSIGNED").release = candidateRows[c].release
      BY DEF AssignmentOf
    <3>3. candidateRows[c] # None
      BY <3>1, <3>2, ScheduleAssignments
    <3>4. candidateRows[c].release = p
      BY <2>2, <3>3, Joined DEF AbstractCandidates
    <3> QED BY <1>7, <3>1, <3>2, <3>4 DEF DeletePlaylist
  <2>3. ~Workflow!PlaylistInUse(p)
    BY <1>7, <2>2 DEF DeletePlaylist, Workflow!PlaylistInUse, AbstractAssignments, AbstractCandidates
  <2> QED BY <1>1, <1>7, <2>1, <2>3, SharedReads DEF DeletePlaylist, Workflow!DeletePlaylist,
             AbstractCandidates, AbstractAssignments, AbstractRecords
<1> QED BY <1>2, <1>3, <1>4, <1>5, <1>6, <1>7

LEMMA AuthoritySimulates ==
    ASSUME StoreInv, NEW u \in Users
    PROVE  /\ \A role \in OfferedRoles : ChangeRole(u, role) => Workflow!ChangeRole(u, role)
           /\ RemoveMembership(u) => Workflow!RemoveMembership(u)
           /\ DisableUser(u) => Workflow!DisableUser(u)
           /\ RotatePassword(u) => Workflow!RotatePassword(u)
<1>1. ASSUME UNCHANGED candidateVars
      PROVE  /\ AbstractCandidates' = AbstractCandidates
             /\ AbstractAssignments' = AbstractAssignments
             /\ AbstractRecords' = AbstractRecords
  BY <1>1, AbstractKept, AssignmentsSame DEF candidateVars
<1>2. ASSUME NEW change, ChangeAuthority(u, change)
      PROVE  /\ UNCHANGED candidateVars /\ UNCHANGED <<now, screens, media, playlists>>
             /\ users[u].role # "NONE" /\ Workflow!ChangesLeft
             /\ users' = [users EXCEPT ![u] = change]
  BY <1>2, SharedSums DEF ChangeAuthority, library, candidateVars
<1> USE DEF AbstractCandidates, AbstractAssignments, AbstractRecords
<1>3. ASSUME NEW role \in OfferedRoles, ChangeRole(u, role) PROVE Workflow!ChangeRole(u, role)
  <2>1. ChangeAuthority(u, [users[u] EXCEPT !.role = role, !.authz = @ + 1])
    BY <1>3 DEF ChangeRole
  <2>2. role # "OWNER" => OwnerRemainsWithout(u)
    BY <1>3 DEF ChangeRole
  <2>3. users' = [users EXCEPT ![u].role = role, ![u].authz = @ + 1]
    BY <1>2, <2>1 DEF StoreInv, StoreTypeOK
  <2> QED BY <1>1, <1>2, <2>1, <2>2, <2>3, SharedReads DEF Workflow!ChangeRole, candidateVars
<1>4. ASSUME RemoveMembership(u) PROVE Workflow!RemoveMembership(u)
  <2>1. ChangeAuthority(u, [users[u] EXCEPT !.role = "NONE", !.authz = @ + 1])
    BY <1>4 DEF RemoveMembership
  <2>2. OwnerRemainsWithout(u)
    BY <1>4 DEF RemoveMembership
  <2>3. users' = [users EXCEPT ![u].role = "NONE", ![u].authz = @ + 1]
    BY <1>2, <2>1 DEF StoreInv, StoreTypeOK
  <2> QED BY <1>1, <1>2, <2>1, <2>2, <2>3, SharedReads DEF Workflow!RemoveMembership, candidateVars
<1>5. ASSUME DisableUser(u) PROVE Workflow!DisableUser(u)
  <2>1. ChangeAuthority(u, [users[u] EXCEPT !.disabled = TRUE, !.authn = @ + 1])
    BY <1>5 DEF DisableUser
  <2>2. OwnerRemainsWithout(u)
    BY <1>5 DEF DisableUser
  <2>3. users' = [users EXCEPT ![u].disabled = TRUE, ![u].authn = @ + 1]
    BY <1>2, <2>1 DEF StoreInv, StoreTypeOK
  <2> QED BY <1>1, <1>2, <2>1, <2>2, <2>3, SharedReads DEF Workflow!DisableUser, candidateVars
<1>6. ASSUME RotatePassword(u) PROVE Workflow!RotatePassword(u)
  <2>1. ChangeAuthority(u, [users[u] EXCEPT !.authn = @ + 1])
    BY <1>6 DEF RotatePassword
  <2>2. users' = [users EXCEPT ![u].authn = @ + 1]
    BY <1>2, <2>1 DEF StoreInv, StoreTypeOK
  <2> QED BY <1>1, <1>2, <2>1, <2>2, SharedReads DEF Workflow!RotatePassword, candidateVars
<1> QED BY <1>3, <1>4, <1>5, <1>6

LEMMA TickSimulates == ASSUME StoreInv, Tick PROVE Workflow!Tick
<1>1. UNCHANGED candidateVars
  BY DEF Tick, candidateVars
<1>2. /\ AbstractCandidates' = AbstractCandidates /\ AbstractRecords' = AbstractRecords
      /\ AbstractAssignments' = AbstractAssignments
  BY <1>1, AbstractKept, AssignmentsSame DEF candidateVars
<1> QED BY <1>1, <1>2 DEF Tick, Workflow!Tick, library, candidateVars, AbstractCandidates,
       AbstractAssignments, AbstractRecords

\* The candidates as the workflow reads them.
LEMMA CandidateReads ==
    ASSUME StoreInv, NEW c \in Candidates
    PROVE  /\ AbstractCandidates[c] = None <=> candidateRows[c] = None
           /\ Workflow!Unpublished(c) <=> Unpublished(c)
           /\ candidateRows[c] # None =>
                /\ AbstractCandidates[c].state = candidateRows[c].state
                /\ AbstractCandidates[c].author = candidateRows[c].author
                /\ AbstractCandidates[c].playlist = candidateRows[c].release
                /\ AbstractCandidates[c].expiresAt = candidateRows[c].expiresAt
                /\ AbstractCandidates[c].screens = TargetNames(candidateTargets[c])
                /\ Workflow!Expired(c) <=> ~(candidateRows[c].expiresAt > now)
                /\ candidateRows[c].expiresAt \in Nat
<1>1. AbstractCandidates[c] = CandidateValue(c)
  BY DEF AbstractCandidates
<1>2. Workflow!Unpublished(c) <=> Unpublished(c)
  BY Joined DEF Workflow!Unpublished, Unpublished
<1>3. ASSUME candidateRows[c] # None
      PROVE  /\ Workflow!Expired(c) <=> ~(candidateRows[c].expiresAt > now)
             /\ candidateRows[c].expiresAt \in Nat
  <2>1. candidateRows[c].expiresAt \in Nat /\ now \in Nat
    BY <1>3, CandidateFound DEF Rows
  <2>2. Workflow!Expired(c) <=> candidateRows[c].expiresAt <= now
    BY <1>3, Joined DEF Workflow!Expired
  <2> QED BY <2>1, <2>2
<1> QED BY <1>1, <1>2, <1>3, Joined

LEMMA PruneShared ==
    ASSUME StoreInv
    PROVE  Workflow!Prunable = Prunable /\ Workflow!PruneChoices = PruneChoices
<1>1. Workflow!Prunable = Prunable
  <2>1. ASSUME NEW c \in Candidates, Unpublished(c)
        PROVE  /\ AbstractCandidates[c].expiresAt = candidateRows[c].expiresAt
               /\ publications[c] = None
    BY <2>1, CandidateReads, CandidateFound DEF Unpublished, CandidateShaped, ColumnsFilled
  <2> QED BY <2>1, CandidateReads DEF Workflow!Prunable, Prunable, AbstractCandidates
<1>2. \A c \in Prunable : AbstractCandidates[c].expiresAt = candidateRows[c].expiresAt
  BY CandidateReads DEF Prunable, Unpublished
<1>3. Workflow!PruneChoices = PruneChoices
  BY <1>1, <1>2, SharedSums DEF Workflow!PruneChoices, PruneChoices, AbstractCandidates
<1> QED BY <1>1, <1>3

LEMMA CreationShared ==
    ASSUME StoreInv, NEW P \in SUBSET Prunable, NEW p \in Playlists, NEW S \in SUBSET Screens
    PROVE  /\ Workflow!MayCreate(P, p, S) <=> MayCreate(P, p, S)
           /\ Workflow!ReleasesLeft(P) = publishedReleases \ UnreferencedReleases(P)
<1>1. {c \in Candidates \ P : Workflow!Unpublished(c)} = {c \in Candidates \ P : Unpublished(c)}
  BY CandidateReads
<1> DEFINE rest == {c \in Candidates \ P : Unpublished(c)}
<1>2. {c \in rest : ~Workflow!Expired(c)} = {c \in rest : candidateRows[c].expiresAt > now}
  BY CandidateReads DEF Unpublished
<1>3. Workflow!MayCreate(P, p, S) <=>
        /\ S # {}
        /\ Cardinality({c \in rest : ~Workflow!Expired(c)}) < MaxOutstanding
        /\ Cardinality(rest) < MaxRetained
        /\ playlists[p] = "stored"
        /\ \A s \in S : screens[s] = "live"
        /\ PlayableAt(p, now)
  BY <1>1, SharedSums, SharedReads DEF Workflow!MayCreate
<1>4. Workflow!MayCreate(P, p, S) <=> MayCreate(P, p, S)
  BY <1>2, <1>3 DEF MayCreate
<1>5. Workflow!ReleasesLeft(P) = publishedReleases \ UnreferencedReleases(P)
  <2>1. \A c \in P : c \in Candidates /\ candidateRows[c] # None
                     /\ AbstractCandidates[c].playlist = candidateRows[c].release
    BY CandidateReads, PrunedHasExpired
  <2>2. \A c \in Candidates : candidateRows[c] # None <=> AbstractCandidates[c] # None
    BY CandidateReads
  <2>3. \A c \in Candidates : candidateRows[c] # None =>
           AbstractCandidates[c].playlist = candidateRows[c].release
    BY CandidateReads
  <2>4. ASSUME NEW a \in assignmentRows
        PROVE  \E c \in Candidates \ P : candidateRows[c] # None
                                         /\ candidateRows[c].release = a.release
    <3>1. /\ a.schedule \in Candidates /\ candidateRows[a.schedule] # None
          /\ candidateRows[a.schedule].state = "PUBLISHED"
          /\ a = AssignmentOf(a.schedule, a.state)
      BY ScheduleAssignments
    <3>2. a.release = candidateRows[a.schedule].release
      BY <3>1 DEF AssignmentOf
    <3>3. a.schedule \notin P
      BY <3>1, PrunedHasExpired
    <3> QED BY <3>1, <3>2, <3>3
  <2>5. ASSUME NEW q \in publishedReleases
        PROVE  q \in Workflow!ReleasesLeft(P) <=> q \notin UnreferencedReleases(P)
    <3>1. q \in Workflow!ReleasesLeft(P) <=>
            \/ \A c \in P : AbstractCandidates[c].playlist # q
            \/ \E c \in Candidates \ P : AbstractCandidates[c] # None
                                         /\ AbstractCandidates[c].playlist = q
      BY DEF Workflow!ReleasesLeft, AbstractCandidates
    <3>2. q \in UnreferencedReleases(P) <=>
            /\ \E c \in P : candidateRows[c].release = q
            /\ \A c \in Candidates \ P : candidateRows[c] # None => candidateRows[c].release # q
            /\ \A a \in assignmentRows : a.release # q
      BY DEF UnreferencedReleases
    <3>3. (\A c \in P : AbstractCandidates[c].playlist # q)
             <=> ~\E c \in P : candidateRows[c].release = q
      BY <2>1
    <3>4. (\E c \in Candidates \ P : AbstractCandidates[c] # None
                                     /\ AbstractCandidates[c].playlist = q)
             <=> ~\A c \in Candidates \ P : candidateRows[c] # None => candidateRows[c].release # q
      BY <2>2, <2>3
    <3>5. (\E a \in assignmentRows : a.release = q) =>
             \E c \in Candidates \ P : candidateRows[c] # None /\ candidateRows[c].release = q
      BY <2>4
    <3> QED BY <3>1, <3>2, <3>3, <3>4, <3>5
  <2> QED BY <2>5 DEF Workflow!ReleasesLeft
<1> QED BY <1>4, <1>5

LEMMA RefuseSimulates ==
    ASSUME StoreInv, NEW u \in Users, NEW p \in Playlists, NEW S \in SUBSET Screens,
           RefuseCandidate(u, p, S)
    PROVE  Workflow!RefuseCandidate(u, p, S)
<1>1. PICK P \in PruneChoices :
          /\ ~MayCreate(P, p, S)
          /\ candidateRows' = [d \in Candidates |->
                                  IF d \in P THEN None ELSE candidateRows[d]]
          /\ candidateTargets' =
               [d \in Candidates |->
                  IF d \in P THEN NoTargets ELSE candidateTargets[d]]
          /\ approvals' = [d \in Candidates |->
                              IF d \in P THEN None ELSE approvals[d]]
          /\ publishedReleases' = publishedReleases \ UnreferencedReleases(P)
          /\ idempotency' = ForgetPruned(idempotency, P)
  BY DEF RefuseCandidate
<1>2. /\ UNCHANGED <<now, users, screens, media, playlists, assignmentRows>>
      /\ Workflow!Can(u, "create") /\ Prunable # {}
  BY SharedReads DEF RefuseCandidate, library
<1>3. P \in SUBSET Prunable
  BY DEF PruneChoices
<1>4. AbstractCandidates' = Workflow!CandidatesLeft(P)
  <2>1. ASSUME NEW d \in Candidates
        PROVE  CandidateValue(d)' = IF d \in P THEN None ELSE CandidateValue(d)
    <3>1. CASE d \in P
      BY <1>1, <3>1 DEF CandidateValue
    <3>2. CASE d \notin P
      <4>1. /\ candidateRows'[d] = candidateRows[d] /\ approvals'[d] = approvals[d]
            /\ TargetNames(candidateTargets[d])' = TargetNames(candidateTargets[d])
        BY <1>1, <3>2 DEF TargetNames
      <4> QED BY <3>2, <4>1, ValueKept
    <3> QED BY <3>1, <3>2
  <2> QED BY <2>1 DEF AbstractCandidates, Workflow!CandidatesLeft
<1>5. AbstractRecords' = AbstractRecords
  <2>1. ASSUME NEW o \in Operations, NEW d \in Candidates
        PROVE  RecordValue(idempotency'[o][d]) = RecordValue(idempotency[o][d])
    <3>1. Compacted(idempotency[o][d], idempotency'[o][d])
      BY <1>1, <1>3, Forgotten
    <3>2. idempotency[o][d] \in Maybe(Records)
      BY DEF StoreInv, StoreTypeOK
    <3> QED BY <3>1, <3>2, RecordValueKept
  <2> QED BY <2>1 DEF AbstractRecords
<1>6. AbstractAssignments' = AbstractAssignments
  BY <1>2, AssignmentsSame
<1>7. /\ P \in Workflow!PruneChoices /\ Workflow!Prunable # {}
      /\ ~Workflow!MayCreate(P, p, S) /\ publishedReleases' = Workflow!ReleasesLeft(P)
  BY <1>1, <1>2, <1>3, PruneShared, CreationShared
<1> QED BY <1>2, <1>4, <1>5, <1>6, <1>7 DEF Workflow!RefuseCandidate, AbstractCandidates,
       AbstractAssignments, AbstractRecords

LEMMA CreateSimulates ==
    ASSUME StoreInv, NEW u \in Users, NEW c \in Candidates, NEW p \in Playlists,
           NEW S \in SUBSET Screens, NEW life \in 1 .. MaxLifetime,
           CreateCandidate(u, c, p, S, life)
    PROVE  Workflow!CreateCandidate(u, c, p, S, life)
<1> DEFINE body == [id |-> c, state |-> "DRAFT",
                    digest |-> CandidateDigest(p, S, now + life),
                    author |-> u, playlist |-> p, screens |-> S,
                    expiresAt |-> now + life, submittedAt |-> None,
                    approvedAt |-> None, publishedAt |-> None,
                    approval |-> None, publication |-> None]
           targets == [s \in Screens |-> IF s \in S THEN "live" ELSE "none"]
           value == [state |-> "DRAFT", author |-> u, playlist |-> p, screens |-> S,
                     expiresAt |-> now + life, approval |-> None]
           expiry == now + life
<1>1. PICK P \in PruneChoices :
        /\ MayCreate(P, p, S)
        /\ candidateRows' =
             [d \in Candidates |-> IF d = c THEN NewRow(u, p, S, life)
                                   ELSE IF d \in P THEN None ELSE candidateRows[d]]
        /\ candidateTargets' =
             [d \in Candidates |-> IF d = c THEN targets
                                   ELSE IF d \in P THEN NoTargets ELSE candidateTargets[d]]
        /\ approvals' = [d \in Candidates |-> IF d \in P THEN None ELSE approvals[d]]
        /\ publishedReleases' = (publishedReleases \ UnreferencedReleases(P)) \cup {p}
        /\ RememberIn(ForgetPruned(idempotency, P), "create", c, u, body)
  BY DEF CreateCandidate
<1>2. /\ UNCHANGED <<now, users, screens, media, playlists, assignmentRows>>
      /\ idempotency["create"][c] = None /\ Workflow!Can(u, "create")
  BY SharedReads DEF CreateCandidate, library, KeyIsNew
<1>3. P \in SUBSET Prunable /\ "create" \in Operations
  BY DEF PruneChoices, Operations
<1>4. now \in Nat /\ expiry \in Nat
  BY Numbers DEF StoreInv, StoreTypeOK
<1>5. candidateRows[c] = None /\ approvals[c] = None
  BY <1>2 DEF StoreInv, CandidatesShaped, CandidateShaped
<1>6. body \in Bodies /\ NewRow(u, p, S, life) \in Rows
  <2>1. ReleaseDigest(p) \in ReleaseDigests /\ CandidateDigest(p, S, expiry) \in CandidateDigests
    BY <1>4, ReleaseAssumption DEF ReleaseDigest, CandidateDigest, ReleaseDigests, CandidateDigests
  <2> QED BY <1>4, <2>1 DEF Bodies, Rows, Maybe, States, NewRow
<1> HIDE DEF body, expiry
<1>7. AbstractCandidates' = [Workflow!CandidatesLeft(P) EXCEPT ![c] = value]
  <2>1. CandidateValue(c)' = value
    <3>1. TargetNames(targets) = S
      BY DEF TargetNames
    <3>2. /\ candidateRows'[c] = NewRow(u, p, S, life) /\ candidateRows'[c] # None
          /\ approvals'[c] = None /\ candidateTargets'[c] = targets
      BY <1>1, <1>5, <1>6, NullAssumption
    <3>3. TargetNames(candidateTargets[c])' = S
      BY <3>1, <3>2 DEF TargetNames
    <3>4. /\ candidateRows'[c].state = "DRAFT" /\ candidateRows'[c].author = u
          /\ candidateRows'[c].release = p /\ candidateRows'[c].expiresAt = now + life
      BY <3>2 DEF NewRow
    <3> HIDE DEF targets
    <3> QED BY <3>2, <3>3, <3>4 DEF CandidateValue
  <2>2. ASSUME NEW d \in Candidates \ {c}
        PROVE  CandidateValue(d)' = IF d \in P THEN None ELSE CandidateValue(d)
    <3>1. CASE d \in P
      BY <1>1, <3>1 DEF CandidateValue
    <3>2. CASE d \notin P
      <4>1. /\ candidateRows'[d] = candidateRows[d] /\ approvals'[d] = approvals[d]
            /\ TargetNames(candidateTargets[d])' = TargetNames(candidateTargets[d])
        BY <1>1, <3>2 DEF TargetNames
      <4> QED BY <3>2, <4>1, ValueKept
    <3> QED BY <3>1, <3>2
  <2> HIDE DEF value
  <2> QED BY <2>1, <2>2 DEF AbstractCandidates, Workflow!CandidatesLeft
<1>8. AbstractRecords' =
        [AbstractRecords EXCEPT
           !["create"][c] = [actor |-> u, expiresAt |-> now + Retention]]
  <2>1. /\ ForgetPruned(idempotency, P) \in RecordTable
        /\ \A o \in Operations, d \in Candidates :
              Compacted(idempotency[o][d], ForgetPruned(idempotency, P)[o][d])
    BY <1>3, Forgotten
  <2> DEFINE records == ForgetPruned(idempotency, P)
  <2> HIDE DEF records
  <2>2. RememberIn(records, "create", c, u, body) /\ records \in RecordTable
    BY <1>1, <2>1 DEF records
  <2>3. /\ idempotency'["create"][c] =
             [actor |-> u, expiresAt |-> now + Retention, body |-> body]
        /\ \A o \in Operations, d \in Candidates : o # "create" \/ d # c =>
             Compacted(records[o][d], idempotency'[o][d])
    BY <1>3, <1>4, <1>6, <2>2, Remembered
  <2>4. \A o \in Operations, d \in Candidates : idempotency[o][d] \in Maybe(Records)
    BY DEF StoreInv, StoreTypeOK
  <2>5. ASSUME NEW o \in Operations, NEW d \in Candidates, o # "create" \/ d # c
        PROVE  Compacted(idempotency[o][d], idempotency'[o][d])
    <3>1. Compacted(idempotency[o][d], records[o][d])
      BY <2>1 DEF records
    <3>2. Compacted(records[o][d], idempotency'[o][d])
      BY <2>3, <2>5
    <3> QED BY <2>4, <3>1, <3>2, CompactedTwice
  <2> QED BY <1>3, <1>4, <1>6, <2>3, <2>4, <2>5, RecordedValue
<1>9. AbstractAssignments' = AbstractAssignments
  BY <1>2, AssignmentsSame
<1>10. AbstractRecords["create"][c] = None
  BY <1>2, <1>3 DEF AbstractRecords, RecordValue
<1>11. /\ P \in Workflow!PruneChoices /\ Workflow!MayCreate(P, p, S)
       /\ publishedReleases' = Workflow!ReleasesLeft(P) \cup {p}
  BY <1>1, <1>3, PruneShared, CreationShared
<1>12. Workflow!Remember("create", c, u)
  BY <1>8 DEF Workflow!Remember, AbstractRecords
<1> QED BY <1>2, <1>7, <1>9, <1>10, <1>11, <1>12 DEF Workflow!CreateCandidate,
       AbstractCandidates, AbstractAssignments, AbstractRecords

LEMMA OperationRecorded ==
    ASSUME StoreInv, NEW u \in Users, NEW op \in Operations, NEW c \in Candidates,
           NEW response \in Bodies, RememberIn(idempotency, op, c, u, response)
    PROVE  Workflow!Remember(op, c, u)
<1>1. now \in Nat /\ idempotency \in RecordTable
  BY DEF StoreInv, StoreTypeOK, RecordTable
<1>2. /\ idempotency'[op][c] =
           [actor |-> u, expiresAt |-> now + Retention, body |-> response]
      /\ \A o \in Operations, d \in Candidates : o # op \/ d # c =>
           Compacted(idempotency[o][d], idempotency'[o][d])
  BY <1>1, Remembered
<1>3. \A o \in Operations, d \in Candidates : idempotency[o][d] \in Maybe(Records)
  BY <1>1 DEF RecordTable
<1>4. AbstractRecords' =
        [AbstractRecords EXCEPT ![op][c] = [actor |-> u, expiresAt |-> now + Retention]]
  BY <1>1, <1>2, <1>3, RecordedValue
<1> QED BY <1>4 DEF Workflow!Remember, AbstractRecords

\* One candidate advances to a state.
LEMMA ValueAdvances ==
    ASSUME StoreInv, NEW c \in Candidates, candidateRows[c] # None, NEW state,
           candidateRows'[c] # None, candidateRows'[c].state = state,
           candidateRows'[c].author = candidateRows[c].author,
           candidateRows'[c].release = candidateRows[c].release,
           candidateRows'[c].expiresAt = candidateRows[c].expiresAt,
           UNCHANGED candidateTargets,
           \A d \in Candidates \ {c} : /\ candidateRows'[d] = candidateRows[d]
                                       /\ approvals'[d] = approvals[d]
    PROVE  /\ approvals'[c] = approvals[c] =>
                AbstractCandidates' = [AbstractCandidates EXCEPT ![c].state = state]
           /\ \A approver, authn, authz, at :
                 LET approval == [approver |-> approver, authn |-> authn, authz |-> authz]
                 IN approvals'[c] # None /\ approvals'[c] =
                       [approver |-> approver, authn |-> authn, authz |-> authz,
                        approvedAt |-> at]
                    => AbstractCandidates' = [AbstractCandidates EXCEPT
                          ![c].state = state, ![c].approval = approval]
<1> DEFINE a == IF approvals[c] = None THEN None
                ELSE [approver |-> approvals[c].approver,
                      authn |-> approvals[c].authn, authz |-> approvals[c].authz]
           value(st, appr) ==
             [state |-> st, author |-> candidateRows[c].author,
              playlist |-> candidateRows[c].release,
              screens |-> TargetNames(candidateTargets[c]),
              expiresAt |-> candidateRows[c].expiresAt, approval |-> appr]
<1>1. TargetNames(candidateTargets[c])' = TargetNames(candidateTargets[c])
  OBVIOUS
<1>2. CandidateValue(c) = value(candidateRows[c].state, a)
  BY DEF CandidateValue
<1>3. \A d \in Candidates \ {c} : CandidateValue(d)' = CandidateValue(d)
  <2>1. \A d \in Candidates :
           TargetNames(candidateTargets[d])' = TargetNames(candidateTargets[d])
    OBVIOUS
  <2> QED BY <2>1, ValueKept
<1>4. ASSUME approvals'[c] = approvals[c]
      PROVE  AbstractCandidates' = [AbstractCandidates EXCEPT ![c].state = state]
  <2>1. CandidateValue(c)' = value(state, a)
    BY <1>1, <1>4 DEF CandidateValue
  <2>2. value(state, a) = [CandidateValue(c) EXCEPT !.state = state]
    BY <1>2
  <2> HIDE DEF value, a
  <2> QED BY <1>3, <2>1, <2>2 DEF AbstractCandidates
<1>5. ASSUME NEW approver, NEW authn, NEW authz, NEW at, approvals'[c] # None,
             approvals'[c] = [approver |-> approver, authn |-> authn, authz |-> authz,
                              approvedAt |-> at]
      PROVE  LET approval == [approver |-> approver, authn |-> authn, authz |-> authz]
             IN AbstractCandidates' = [AbstractCandidates EXCEPT
                   ![c].state = state, ![c].approval = approval]
  <2> DEFINE approval == [approver |-> approver, authn |-> authn, authz |-> authz]
  <2>1. CandidateValue(c)' = value(state, approval)
    BY <1>1, <1>5 DEF CandidateValue
  <2> HIDE DEF approval
  <2>2. value(state, approval) = [[CandidateValue(c) EXCEPT !.state = state] EXCEPT !.approval = approval]
    <3>1. [CandidateValue(c) EXCEPT !.state = state] = value(state, a)
      BY <1>2
    <3>2. [value(state, a) EXCEPT !.approval = approval] = value(state, approval)
      OBVIOUS
    <3> QED BY <3>1, <3>2
  <2> HIDE DEF value, a
  <2>3. AbstractCandidates' = [AbstractCandidates EXCEPT ![c].state = state,
                                                         ![c].approval = approval]
    BY <1>3, <2>1, <2>2 DEF AbstractCandidates
  <2> QED BY <2>3 DEF approval
<1> QED BY <1>4, <1>5

LEMMA SubmitSimulates ==
    ASSUME StoreInv, NEW u \in Users, NEW c \in Candidates, SubmitCandidate(u, c)
    PROVE  Workflow!SubmitCandidate(u, c)
<1> DEFINE response == [CandidateDto(c) EXCEPT !.state = "IN_REVIEW", !.submittedAt = now]
           next == [candidateRows[c] EXCEPT !.state = "IN_REVIEW", !.submittedAt = now]
<1>1. /\ idempotency["submit"][c] = None /\ candidateRows[c] # None
      /\ candidateRows[c].expiresAt > now /\ candidateRows[c].state = "DRAFT"
      /\ candidateRows[c].author = u /\ Workflow!Can(u, "submit")
      /\ RememberIn(idempotency, "submit", c, u, response)
      /\ UNCHANGED <<now, users, screens, media, playlists, publishedReleases,
                     candidateTargets, approvals, assignmentRows>>
      /\ "submit" \in Operations
  BY SharedReads DEF SubmitCandidate, KeyIsNew, Operations, library
<1>2. candidateRows' = [candidateRows EXCEPT ![c] = next]
  BY DEF SubmitCandidate, StoreInv, StoreTypeOK
<1>3. candidateRows[c] \in Rows /\ CandidateDto(c) \in Bodies /\ now \in Nat
  BY <1>1, CandidateFound
<1>4. /\ next \in Rows /\ next.state = "IN_REVIEW" /\ next.author = candidateRows[c].author
      /\ next.release = candidateRows[c].release
      /\ next.expiresAt = candidateRows[c].expiresAt
  BY <1>3 DEF Rows, Maybe, States
<1>5. response \in Bodies
  BY <1>3, SubmitResponse
<1> HIDE DEF next, response
<1>6. AbstractCandidates' = [AbstractCandidates EXCEPT ![c].state = "IN_REVIEW"]
  <2>1. /\ candidateRows'[c] = next /\ candidateRows'[c] # None
        /\ \A d \in Candidates \ {c} : candidateRows'[d] = candidateRows[d]
    BY <1>2, <1>4, NullAssumption DEF StoreInv, StoreTypeOK
  <2>2. /\ candidateRows'[c].state = "IN_REVIEW"
        /\ candidateRows'[c].author = candidateRows[c].author
        /\ candidateRows'[c].release = candidateRows[c].release
        /\ candidateRows'[c].expiresAt = candidateRows[c].expiresAt
        /\ UNCHANGED candidateTargets /\ candidateRows[c] # None
        /\ approvals'[c] = approvals[c]
        /\ \A d \in Candidates \ {c} : /\ candidateRows'[d] = candidateRows[d]
                                       /\ approvals'[d] = approvals[d]
    BY <1>1, <1>4, <2>1
  <2> QED BY <2>1, <2>2, ValueAdvances
<1>7. Workflow!Remember("submit", c, u)
  BY <1>1, <1>5, OperationRecorded
<1>8. AbstractAssignments' = AbstractAssignments
  BY <1>1, AssignmentsSame
<1>9. /\ AbstractRecords["submit"][c] = None /\ AbstractCandidates[c] # None
      /\ ~Workflow!Expired(c) /\ AbstractCandidates[c].author = u
      /\ AbstractCandidates[c].state = "DRAFT"
  BY <1>1, CandidateReads DEF AbstractRecords, RecordValue
<1> QED BY <1>1, <1>6, <1>7, <1>8, <1>9 DEF Workflow!SubmitCandidate, AbstractCandidates,
       AbstractAssignments, AbstractRecords

LEMMA ApproveSimulates ==
    ASSUME StoreInv, NEW u \in Users, NEW c \in Candidates, ApproveCandidate(u, c)
    PROVE  Workflow!ApproveCandidate(u, c)
<1> DEFINE approval == [approver |-> u, authn |-> users[u].authn,
                        authz |-> users[u].authz, approvedAt |-> now]
           response == [CandidateDto(c) EXCEPT !.state = "APPROVED", !.approvedAt = now,
                                               !.approval = approval]
           next == [candidateRows[c] EXCEPT !.state = "APPROVED", !.approvedAt = now]
<1>1. /\ idempotency["approve"][c] = None /\ candidateRows[c] # None
      /\ candidateRows[c].expiresAt > now /\ candidateRows[c].state = "IN_REVIEW"
      /\ candidateRows[c].author # u /\ Workflow!Can(u, "approve")
      /\ RememberIn(idempotency, "approve", c, u, response)
      /\ approvals' = [approvals EXCEPT ![c] = approval]
      /\ UNCHANGED <<now, users, screens, media, playlists, publishedReleases,
                     candidateTargets, assignmentRows>>
      /\ "approve" \in Operations
  BY SharedReads DEF ApproveCandidate, KeyIsNew, Operations, library
<1>2. candidateRows' = [candidateRows EXCEPT ![c] = next]
  BY DEF ApproveCandidate, StoreInv, StoreTypeOK
<1>3. /\ candidateRows[c] \in Rows /\ CandidateDto(c) \in Bodies /\ now \in Nat
      /\ users[u].authn \in Nat /\ users[u].authz \in Nat
  BY <1>1, CandidateFound DEF StoreInv, StoreTypeOK, UserRows
<1>4. /\ next \in Rows /\ next.state = "APPROVED" /\ next.author = candidateRows[c].author
      /\ next.release = candidateRows[c].release
      /\ next.expiresAt = candidateRows[c].expiresAt
  BY <1>3 DEF Rows, Maybe, States
<1>5. approval \in Approvals
  BY <1>3 DEF Approvals
<1>6. response \in Bodies
  BY <1>3, <1>5, ApproveResponse
<1>7. /\ candidateRows'[c] = next /\ candidateRows'[c] # None
      /\ approvals'[c] = approval /\ approvals'[c] # None
      /\ \A d \in Candidates \ {c} : /\ candidateRows'[d] = candidateRows[d]
                                     /\ approvals'[d] = approvals[d]
  <2> HIDE DEF next, approval
  <2> QED BY <1>1, <1>2, <1>4, <1>5, NullAssumption DEF StoreInv, StoreTypeOK
<1> HIDE DEF next, response
<1>8. AbstractCandidates' =
        [AbstractCandidates EXCEPT
           ![c].state = "APPROVED",
           ![c].approval = [approver |-> u, authn |-> users[u].authn, authz |-> users[u].authz]]
  BY <1>1, <1>4, <1>7, ValueAdvances
<1>9. Workflow!Remember("approve", c, u)
  <2> HIDE DEF approval
  <2> QED BY <1>1, <1>6, OperationRecorded
<1>10. AbstractAssignments' = AbstractAssignments
  BY <1>1, AssignmentsSame
<1>11. /\ AbstractRecords["approve"][c] = None /\ AbstractCandidates[c] # None
       /\ ~Workflow!Expired(c) /\ AbstractCandidates[c].author # u
       /\ AbstractCandidates[c].state = "IN_REVIEW"
  BY <1>1, CandidateReads DEF AbstractRecords, RecordValue
<1> QED BY <1>1, <1>8, <1>9, <1>10, <1>11 DEF Workflow!ApproveCandidate, AbstractCandidates,
       AbstractAssignments, AbstractRecords

\* The rows of one schedule grow; what is assigned of the others stays.
LEMMA AssignmentAdvances ==
    ASSUME StoreInv, NEW c \in Candidates, NEW state \in {"ASSIGNED", "WITHDRAWN"},
           NEW a, a.schedule = c, a.state = state,
           assignmentRows' = assignmentRows \cup {a},
           state = "ASSIGNED" => AssignmentValue(c) # "WITHDRAWN"
    PROVE  AbstractAssignments' = [AbstractAssignments EXCEPT ![c] = state]
<1>1. AssignmentValue(c)' = state
  <2>1. CASE state = "WITHDRAWN"
    BY <2>1 DEF AssignmentValue
  <2>2. CASE state = "ASSIGNED"
    BY <2>2 DEF AssignmentValue
  <2> QED BY <2>1, <2>2
<1>2. \A d \in Candidates \ {c} : AssignmentValue(d)' = AssignmentValue(d)
  BY DEF AssignmentValue
<1> QED BY <1>1, <1>2 DEF AbstractAssignments

LEMMA PublishSimulates ==
    ASSUME StoreInv, LiveTargets, NEW u \in Users, NEW c \in Candidates, PublishCandidate(u, c)
    PROVE  Workflow!PublishCandidate(u, c)
<1> DEFINE publication == [assignment |-> <<c, "ASSIGNED">>, publisher |-> u]
           response == [CandidateDto(c) EXCEPT !.state = "PUBLISHED", !.publishedAt = now,
                                               !.publication = publication]
           next == [candidateRows[c] EXCEPT !.state = "PUBLISHED", !.publishedAt = now]
<1>1. /\ idempotency["publish"][c] = None /\ candidateRows[c] # None
      /\ candidateRows[c].expiresAt > now /\ candidateRows[c].state = "APPROVED"
      /\ approvals[c] # None /\ ApprovalStands(c) /\ PlayableAt(candidateRows[c].release, now)
      /\ AllLive(candidateTargets[c]) /\ Workflow!Can(u, "publish")
      /\ RememberIn(idempotency, "publish", c, u, response)
      /\ assignmentRows' = assignmentRows \cup {AssignmentOf(c, "ASSIGNED")}
      /\ UNCHANGED <<now, users, screens, media, playlists, publishedReleases,
                     candidateTargets, approvals>>
      /\ "publish" \in Operations
  BY SharedReads DEF PublishCandidate, MayPublish, KeyIsNew, Operations, library, AssignmentOf
<1>2. candidateRows' = [candidateRows EXCEPT ![c] = next]
  BY DEF PublishCandidate, StoreInv, StoreTypeOK
<1>3. candidateRows[c] \in Rows /\ CandidateDto(c) \in Bodies /\ now \in Nat
  BY <1>1, CandidateFound
<1>4. /\ next \in Rows /\ next.state = "PUBLISHED" /\ next.author = candidateRows[c].author
      /\ next.release = candidateRows[c].release
      /\ next.expiresAt = candidateRows[c].expiresAt
  BY <1>3 DEF Rows, Maybe, States
<1>5. response \in Bodies
  <2>1. publication \in Publications
    BY DEF Publications, AssignmentIds
  <2> HIDE DEF publication
  <2> QED BY <1>3, <2>1, PublishResponse
<1> HIDE DEF next, response
<1>6. AbstractCandidates' = [AbstractCandidates EXCEPT ![c].state = "PUBLISHED"]
  <2>1. /\ candidateRows'[c] = next /\ candidateRows'[c] # None
        /\ \A d \in Candidates \ {c} : candidateRows'[d] = candidateRows[d]
    BY <1>2, <1>4, NullAssumption DEF StoreInv, StoreTypeOK
  <2>2. /\ candidateRows'[c].state = "PUBLISHED"
        /\ candidateRows'[c].author = candidateRows[c].author
        /\ candidateRows'[c].release = candidateRows[c].release
        /\ candidateRows'[c].expiresAt = candidateRows[c].expiresAt
        /\ UNCHANGED candidateTargets /\ candidateRows[c] # None
        /\ approvals'[c] = approvals[c]
        /\ \A d \in Candidates \ {c} : /\ candidateRows'[d] = candidateRows[d]
                                       /\ approvals'[d] = approvals[d]
    BY <1>1, <1>4, <2>1
  <2> QED BY <2>1, <2>2, ValueAdvances
<1>7. Workflow!Remember("publish", c, u)
  BY <1>1, <1>5, OperationRecorded
<1>8. AbstractAssignments' = [AbstractAssignments EXCEPT ![c] = "ASSIGNED"]
  <2> DEFINE w == AssignmentOf(c, "WITHDRAWN")
             a == AssignmentOf(c, "ASSIGNED")
  <2>1. w.schedule = c /\ a.schedule = c /\ a.state = "ASSIGNED"
    BY DEF AssignmentOf
  <2> HIDE DEF w, a
  <2>2. w \notin assignmentRows
    BY <1>1, <2>1, ScheduleAssignments
  <2>3. AssignmentValue(c) # "WITHDRAWN"
    BY <2>2, AssignmentRead DEF w
  <2>4. assignmentRows' = assignmentRows \cup {a}
    BY <1>1 DEF a
  <2> QED BY <2>1, <2>3, <2>4, AssignmentAdvances
<1>9. /\ AbstractRecords["publish"][c] = None /\ AbstractCandidates[c] # None
      /\ ~Workflow!Expired(c) /\ AbstractCandidates[c].state = "APPROVED"
      /\ Workflow!PlayableAt(AbstractCandidates[c].playlist, now)
  BY <1>1, CandidateReads, SharedReads DEF AbstractRecords, RecordValue
<1>10. Workflow!ApprovalStands(AbstractCandidates[c].approval)
  <2>1. AbstractCandidates[c].approval =
          [approver |-> approvals[c].approver, authn |-> approvals[c].authn,
           authz |-> approvals[c].authz]
    BY <1>1, Joined DEF AbstractCandidates
  <2> QED BY <1>1, <2>1, SharedReads DEF Workflow!ApprovalStands, ApprovalStands
<1>11. \A s \in AbstractCandidates[c].screens : screens[s] = "live"
  BY <1>1, CandidateReads DEF LiveTargets, AllLive, TargetNames
<1> QED BY <1>1, <1>6, <1>7, <1>8, <1>9, <1>10, <1>11 DEF Workflow!PublishCandidate,
       AbstractCandidates, AbstractAssignments, AbstractRecords

LEMMA WithdrawSimulates ==
    ASSUME StoreInv, NEW u \in Users, NEW c \in Candidates, WithdrawSchedule(u, c)
    PROVE  Workflow!WithdrawSchedule(u, c)
<1>1. /\ UNCHANGED <<now, users, screens, media, playlists, publishedReleases,
                     candidateRows, candidateTargets, approvals, idempotency>>
      /\ Workflow!Can(u, "withdraw")
  BY SharedReads DEF WithdrawSchedule, library
<1>2. PICK previous \in Latest(c) :
        /\ previous.state = "ASSIGNED"
        /\ \E a : /\ a.schedule = c /\ a.state = "WITHDRAWN"
                  /\ assignmentRows' = assignmentRows \cup {a}
  <2>1. PICK previous \in Latest(c) :
        /\ previous.state = "ASSIGNED"
        /\ assignmentRows' = assignmentRows \cup
              {[id |-> <<c, "WITHDRAWN">>, schedule |-> c,
                release |-> previous.release, state |-> "WITHDRAWN",
                previous |-> previous.id, targets |-> WithdrawalTargets(previous),
                digest |-> AssignmentDigest(previous.release, "WITHDRAWN",
                               TargetNames(previous.targets), previous.id)]}
    BY DEF WithdrawSchedule
  <2> DEFINE a == [id |-> <<c, "WITHDRAWN">>, schedule |-> c,
                release |-> previous.release, state |-> "WITHDRAWN",
                previous |-> previous.id, targets |-> WithdrawalTargets(previous),
                digest |-> AssignmentDigest(previous.release, "WITHDRAWN",
                               TargetNames(previous.targets), previous.id)]
  <2>2. a.schedule = c /\ a.state = "WITHDRAWN"
    OBVIOUS
  <2>3. assignmentRows' = assignmentRows \cup {a}
    BY <2>1
  <2> HIDE DEF a
  <2> QED BY <2>1, <2>2, <2>3
<1>3. /\ previous \in assignmentRows /\ previous.schedule = c
      /\ \A b \in assignmentRows : b.previous # previous.id
  BY DEF Latest
<1>4. AssignmentValue(c) = "ASSIGNED"
  <2> DEFINE w == AssignmentOf(c, "WITHDRAWN")
  <2>1. previous = AssignmentOf(c, "ASSIGNED")
    BY <1>2, <1>3, ScheduleAssignments
  <2>2. w.previous = previous.id
    BY <2>1 DEF AssignmentOf
  <2>3. w \notin assignmentRows
    BY <1>3, <2>2
  <2> HIDE DEF w
  <2> QED BY <1>3, <2>1, <2>3, AssignmentRead DEF w
<1>5. AbstractAssignments' = [AbstractAssignments EXCEPT ![c] = "WITHDRAWN"]
  BY <1>2, AssignmentAdvances
<1>6. AbstractCandidates' = AbstractCandidates /\ AbstractRecords' = AbstractRecords
  <2>1. \A d \in Candidates :
           TargetNames(candidateTargets[d])' = TargetNames(candidateTargets[d])
    BY <1>1
  <2> QED BY <1>1, <2>1, AbstractKept
<1>7. AbstractAssignments[c] = "ASSIGNED"
  BY <1>4 DEF AbstractAssignments
<1> QED BY <1>1, <1>5, <1>6, <1>7 DEF Workflow!WithdrawSchedule, AbstractCandidates,
       AbstractAssignments, AbstractRecords

LEMMA NextSimulates ==
    ASSUME StoreInv, LiveTargets, Next
    PROVE  Workflow!WorkflowNext
<1>1. CASE Tick
  BY <1>1, TickSimulates DEF Workflow!WorkflowNext
<1>2. ASSUME NEW u \in Users, NEW p \in Playlists, NEW S \in SUBSET Screens,
             \/ \E c \in Candidates, life \in 1 .. MaxLifetime : CreateCandidate(u, c, p, S, life)
             \/ RefuseCandidate(u, p, S)
      PROVE  Workflow!WorkflowNext
  <2>1. CASE RefuseCandidate(u, p, S)
    BY <2>1, RefuseSimulates DEF Workflow!WorkflowNext
  <2>2. ASSUME NEW c \in Candidates, NEW life \in 1 .. MaxLifetime,
               CreateCandidate(u, c, p, S, life)
        PROVE  Workflow!WorkflowNext
    <3>1. Workflow!CreateCandidate(u, c, p, S, life)
      BY <2>2, CreateSimulates
    <3> QED BY <3>1 DEF Workflow!WorkflowNext
  <2> QED BY <1>2, <2>1, <2>2
<1>3. ASSUME NEW u \in Users, NEW c \in Candidates,
             \/ SubmitCandidate(u, c) \/ ApproveCandidate(u, c)
             \/ PublishCandidate(u, c) \/ WithdrawSchedule(u, c)
      PROVE  Workflow!WorkflowNext
  BY <1>3, SubmitSimulates, ApproveSimulates, PublishSimulates, WithdrawSimulates
     DEF Workflow!WorkflowNext
<1>4. ASSUME NEW u \in Users,
             \/ \E s \in Screens : CreateScreen(u, s) \/ DeleteScreen(u, s)
             \/ \E m \in Media : CreateMedia(u, m) \/ DeleteMedia(u, m)
             \/ \E p \in Playlists : CreatePlaylist(u, p) \/ DeletePlaylist(u, p)
      PROVE  Workflow!WorkflowNext
  BY <1>4, LibrarySimulates DEF Workflow!WorkflowNext
<1>5. ASSUME NEW u \in Users,
             \/ \E role \in OfferedRoles : ChangeRole(u, role)
             \/ RemoveMembership(u) \/ DisableUser(u) \/ RotatePassword(u)
      PROVE  Workflow!WorkflowNext
  BY <1>5, AuthoritySimulates DEF Workflow!WorkflowNext
<1> QED BY <1>1, <1>2, <1>3, <1>4, <1>5 DEF Next

LEMMA InitSimulates == Init => Workflow!WorkflowInit
<1> SUFFICES ASSUME Init PROVE Workflow!WorkflowInit
  OBVIOUS
<1>1. AbstractCandidates = [c \in Candidates |-> None]
  BY DEF Init, AbstractCandidates, CandidateValue
<1>2. AbstractAssignments = [c \in Candidates |-> "NONE"]
  BY DEF Init, AbstractAssignments, AssignmentValue
<1>3. AbstractRecords = [o \in Operations |-> [c \in Candidates |-> None]]
  BY DEF Init, AbstractRecords, RecordValue
<1> QED BY <1>1, <1>2, <1>3, SharedReads DEF Init, Workflow!WorkflowInit, AbstractCandidates,
       AbstractAssignments, AbstractRecords

\* Every transaction of the tables is a step of the workflow of whole values,
\* or nothing to it.
THEOREM TablesImplementWorkflow == Spec => ImplementsWorkflow
<1>1. StoreInv /\ LiveTargets /\ [Next]_storeVars => [Workflow!WorkflowNext]_Workflow!workflowVars
  <2> SUFFICES ASSUME StoreInv, LiveTargets, [Next]_storeVars
               PROVE  [Workflow!WorkflowNext]_Workflow!workflowVars
    OBVIOUS
  <2>1. CASE Next
    BY <2>1, NextSimulates
  <2>2. CASE UNCHANGED storeVars
    <3>1. \A c \in Candidates :
             TargetNames(candidateTargets[c])' = TargetNames(candidateTargets[c])
      BY <2>2 DEF storeVars
    <3>2. /\ AbstractCandidates' = AbstractCandidates /\ AbstractRecords' = AbstractRecords
          /\ AbstractAssignments' = AbstractAssignments
      BY <2>2, <3>1, AbstractKept, AssignmentsSame DEF storeVars
    <3> QED BY <2>2, <3>2 DEF storeVars, Workflow!workflowVars, AbstractCandidates,
               AbstractAssignments, AbstractRecords
  <2> QED BY <2>1, <2>2
<1> QED BY <1>1, InitSimulates, StoreInvAlways, LiveTargetsAlways, PTL
        DEF Spec, ImplementsWorkflow, Workflow!WorkflowSpec
=============================================================================
