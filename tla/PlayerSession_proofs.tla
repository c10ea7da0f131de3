------------------------ MODULE PlayerSession_proofs ------------------------
(***************************************************************************)
(* Proofs about PlayerSession, for any releases, identities and bounds.    *)
(* The first part: the player shows only what was signed for the Screen    *)
(* of the identity it runs as, and a withdrawal stays.                     *)
(*                                                                         *)
(* The second part: a player that runs comes back with the same identity,  *)
(* and the slots of its live identity have their assets. A flight that     *)
(* outlives its credentials may still deprovision and erase the device     *)
(* when it has been paired again; the history variables of PlayerSession   *)
(* tell what it took, and both theorems hold of all the rest.              *)
(***************************************************************************)
EXTENDS PlayerSession, SequenceTheorems, TLAPS

-----------------------------------------------------------------------------
(* Types.  The state of a component is typed by what its own steps need. *)

Causes == {"ERROR", "DEADLINE"}

Ops ==
    [kind : {"ACTIVATE"}]
    \union [kind : {"RECOVER"}, trust : Keys, epoch : Nat]
    \union [kind : {"ROLLBACK"}, trust : Keys, epoch : Nat, expected : Versions, cause : Causes]
    \union [kind : {"SWAP"}, trust : Keys, epoch : Nat, expected : Versions, cause : Causes,
            until : Nat]

Staged ==
    [step : StageSteps, manifest : Manifest \union {None}, trust : Keys \union {None},
     generation : Nat, todo : SUBSET Assets, fetching : SUBSET Assets, failed : BOOLEAN,
     result : Manifest \union {None}]

ContentTypes ==
    /\ active \in Manifest \union {None} /\ previous \in Manifest \union {None}
    /\ cached \in SUBSET Assets

StagingTypes ==
    /\ generation \in Nat
    /\ stage \in Staged
    /\ sweep \in SweepRow
    /\ stagingQueue \in Seq({"stage", "sweep"})

\* The head of the staging queue runs: a release from its first collection of the
\* cache to its last, or a collection that a recovery asked for.
Activates(step) == step \in {"ACTIVATING", "CLEARED"}
Running == {"PRUNING", "PREFETCH", "ACTIVATING", "CLEARED", "TIDYING"}

StagingOK ==
    /\ stage.step = "IDLE" => stage = NoStage
    /\ stage.step # "IDLE" => stage.manifest \in Manifest /\ stage.trust \in Keys
    /\ stage.result \in {None, stage.manifest}
    /\ stage.step \in Running => stagingQueue # <<>> /\ Head(stagingQueue) = "stage"
    /\ sweep.step # "IDLE" =>
          /\ stagingQueue # <<>>
          /\ Head(stagingQueue) = "stage" => stage.step \in {"PRUNING", "TIDYING"}

\* The state queue holds at most one activation and one recovery: the release that is
\* being staged, and the flight that failed.  Whatever else waits was put there under
\* credentials that are current, or of an earlier epoch.
Single(q, kind) == \A i, j \in 1 .. Len(q) : q[i].kind = kind /\ q[j].kind = kind => i = j
SwapFirst(q) == \A i \in 1 .. Len(q) : q[i].kind = "SWAP" => i = 1

Honest(op, staging, syncing, era, who) ==
    /\ op.kind = "ACTIVATE" => Activates(staging)
    /\ op.kind = "RECOVER" => syncing = "RECOVERING"
    /\ op.kind # "ACTIVATE" => op.epoch <= era
    /\ op.kind # "ACTIVATE" /\ op.epoch = era => who = op.trust

Queue(q, staging, syncing, era, who) ==
    /\ q \in Seq(Ops)
    /\ Single(q, "ACTIVATE") /\ Single(q, "RECOVER") /\ SwapFirst(q)
    /\ \A i \in 1 .. Len(q) : Honest(q[i], staging, syncing, era, who)

QueueOK == Queue(stateQueue, stage.step, sync.step, epoch, creds)

\* While a swap waits to be decided, the slots are the two it compared, or erased.
Swappable(op, a, p) ==
    \/ a = None /\ p = None
    \/ /\ Verified(a, op.trust) /\ Verified(p, op.trust)
       /\ op.until = Deadline[p.version] \/ (~Emergency(a) /\ op.until = Deadline[a.version])

SwapOK == stateQueue # <<>> /\ Head(stateQueue).kind = "SWAP" =>
              Swappable(Head(stateQueue), active, previous)

\* The flight of a synchronization keeps the identity it began with; what is staged
\* is what it was given for that identity.
Flights == [step : SyncSteps, trust : Keys \union {None}, epoch : Nat,
            answer : Manifest \union {None}]

FlightTypes == sync \in Flights /\ epoch \in Nat /\ creds \in Keys \union {None}

FlightOK ==
    /\ sync.step = "IDLE" => sync = NoSync
    /\ sync.step # "IDLE" => sync.trust \in Keys /\ sync.epoch <= epoch
    /\ sync.step # "IDLE" /\ sync.epoch = epoch => creds = sync.trust
    /\ sync.answer # None => sync.answer.owner = sync.trust
    /\ stage.step # "IDLE" => /\ sync.step = "STAGING" /\ stage.trust = sync.trust
                              /\ stage.manifest.owner = sync.trust

\* A withdrawn release is no rollback baseline, and has none.
Baseline(a, p) ==
    /\ p # None => ~Withdrawn(p)
    /\ a # None /\ Withdrawn(a) => p = None

BaselineOK == Baseline(active, previous)

\* Slots that did not verify stay empty until the activation that blanked them ends.
ClearedOK == stage.step = "CLEARED" => active = None /\ previous = None

\* The application before its boot is over: nothing is under way yet.
Fresh ==
    /\ creds = None /\ shown = None /\ sync = NoSync /\ stage = NoStage
    /\ stateQueue = <<>> /\ pairing = NoPairing /\ deprovision = "NO"
    /\ screen # "READY"

BootOK == screen \in {"BOOT", "ERASING"} \/ erasing["BOOT"] # {} => Fresh

\* A saved pairing is the one of the active identity, and is being resumed or will be.
PairingOK ==
    /\ pairing.step = "IDLE" => pairing = NoPairing
    /\ pairing.step # "IDLE" => pairing.key \in Keys /\ creds = None
    /\ pairing.step \in {"WAITING", "FINALIZING"} => pairing.key = alias
    /\ pending # None => pending = alias /\ (pairing.step = "WAITING" \/ Fresh)

ScreenTypes ==
    /\ screen \in {"BOOT", "ERASING", "READY", "FATAL"}
    /\ erasing \in [Erasers -> SUBSET Everything]
    /\ deprovision \in {"NO", "CLEARING", "STUCK"}

PairingTypes ==
    /\ stored \in Keys \union {None} /\ pending \in Keys \union {None}
    /\ keystore \in SUBSET Keys /\ alias \in Keys
    /\ pairing \in [step : PairingSteps, key : Keys \union {None}]

ServerTypes ==
    /\ now \in 0 .. MaxNow
    /\ published \in [version : Versions, generatedAt : 1 .. MaxGeneratedAt]
    /\ live \in SUBSET Keys /\ revoked \in SUBSET Keys /\ proven \in SUBSET Keys

StagingInv == StagingTypes /\ StagingOK
FlightInv == FlightTypes /\ FlightOK
ContentInv == ContentTypes /\ BaselineOK
ScreenInv == ScreenTypes /\ BootOK
PairingInv == PairingTypes /\ PairingOK
ShownInv == shown \in Manifest \union {None} /\ ShownForScreen
HistoryTypes ==
    /\ late \in BOOLEAN /\ orphaned \in Keys \union {None} /\ stolen \in SUBSET Assets

SessionInv ==
    /\ StagingInv /\ FlightInv /\ QueueOK /\ SwapOK /\ ContentInv
    /\ ScreenInv /\ PairingInv /\ ServerTypes /\ ShownInv /\ ClearedOK /\ HistoryTypes

-----------------------------------------------------------------------------
(* Queues. *)

\* A queue that gets another member.
LEMMA Appended ==
    ASSUME NEW S, NEW q \in Seq(S), NEW x \in S
    PROVE  /\ Append(q, x) \in Seq(S) /\ Append(q, x) # <<>>
           /\ Len(q) \in Nat /\ Len(Append(q, x)) = Len(q) + 1
           /\ \A i \in 1 .. Len(q) : Append(q, x)[i] = q[i]
           /\ Append(q, x)[Len(q) + 1] = x
           /\ q # <<>> => Head(Append(q, x)) = Head(q)
<1>1. /\ Append(q, x) \in Seq(S) /\ Append(q, x) # <<>>
      /\ Len(q) \in Nat /\ Len(Append(q, x)) = Len(q) + 1
      /\ \A i \in 1 .. Len(q) : Append(q, x)[i] = q[i]
      /\ Append(q, x)[Len(q) + 1] = x
  BY AppendProperties, LenProperties
<1>2. ASSUME q # <<>> PROVE Head(Append(q, x)) = Head(q)
  <2>1. Head(q) = q[1] /\ 1 \in 1 .. Len(q)
    BY <1>1, <1>2
  <2>2. Head(Append(q, x)) = Append(q, x)[1]
    BY <1>1
  <2> QED BY <1>1, <2>1, <2>2
<1> QED BY <1>1, <1>2

\* A queue without its head.
LEMMA Popped ==
    ASSUME NEW S, NEW q \in Seq(S), q # <<>>
    PROVE  /\ Tail(q) \in Seq(S) /\ Head(q) \in S /\ Head(q) = q[1]
           /\ Len(q) \in Nat \ {0} /\ Len(Tail(q)) = Len(q) - 1
           /\ \A i \in 1 .. Len(Tail(q)) : Tail(q)[i] = q[i + 1]
OBVIOUS

\* A queue whose head is replaced.
LEMMA HeadReplaced ==
    ASSUME NEW S, NEW q \in Seq(S), q # <<>>, NEW x \in S
    PROVE  /\ <<x>> \o Tail(q) \in Seq(S) /\ <<x>> \o Tail(q) # <<>>
           /\ Len(<<x>> \o Tail(q)) = Len(q)
           /\ (<<x>> \o Tail(q))[1] = x /\ Head(<<x>> \o Tail(q)) = x
           /\ \A i \in 2 .. Len(q) : (<<x>> \o Tail(q))[i] = q[i]
<1>1. <<x>> \in Seq(S) /\ Len(<<x>>) = 1 /\ <<x>>[1] = x
  OBVIOUS
<1>2. Tail(q) \in Seq(S) /\ Len(Tail(q)) = Len(q) - 1 /\ Len(q) \in Nat \ {0}
      /\ \A i \in 1 .. Len(Tail(q)) : Tail(q)[i] = q[i + 1]
  BY Popped
<1> DEFINE r == <<x>> \o Tail(q)
<1>3. /\ r \in Seq(S) /\ Len(r) = 1 + Len(Tail(q))
      /\ \A i \in 1 .. Len(r) : r[i] = IF i <= 1 THEN <<x>>[i] ELSE Tail(q)[i - 1]
  BY <1>1, <1>2, ConcatProperties
<1> HIDE DEF r
<1>4. Len(r) = Len(q) /\ r[1] = x
  BY <1>1, <1>2, <1>3
<1>5. r # <<>> /\ Head(r) = r[1]
  BY <1>2, <1>3, <1>4
<1>6. \A i \in 2 .. Len(q) : r[i] = q[i]
  BY <1>2, <1>3, <1>4
<1> QED BY <1>3, <1>4, <1>5, <1>6 DEF r

\* An operation on the slots other than an activation knows whom it is for.
LEMMA OpFields ==
    ASSUME NEW op \in Ops, op.kind # "ACTIVATE"
    PROVE  /\ op.trust \in Keys /\ op.epoch \in Nat
           /\ op.kind \in {"ROLLBACK", "SWAP"} => op.expected \in Versions /\ op.cause \in Causes
           /\ op.kind = "SWAP" => op.until \in Nat
BY DEF Ops

\* The operations that are queued.
LEMMA MakeOps ==
    ASSUME NEW k \in Keys, NEW e \in Nat, NEW v \in Versions, NEW c \in Causes
    PROVE  /\ Activation \in Ops /\ Activation.kind = "ACTIVATE"
           /\ Recovery(k, e) \in Ops /\ Recovery(k, e).kind = "RECOVER"
           /\ Recovery(k, e).trust = k /\ Recovery(k, e).epoch = e
           /\ Rollback(k, v, e, c) \in Ops /\ Rollback(k, v, e, c).kind = "ROLLBACK"
           /\ Rollback(k, v, e, c).trust = k /\ Rollback(k, v, e, c).epoch = e
BY DEF Ops, Activation, Recovery, Rollback

\* A rollback that has come to its swap.
LEMMA MakeSwap ==
    ASSUME NEW op \in Ops, op.kind = "ROLLBACK", NEW u \in Nat
    PROVE  /\ Swap(op, u) \in Ops /\ Swap(op, u).kind = "SWAP"
           /\ Swap(op, u).trust = op.trust /\ Swap(op, u).epoch = op.epoch
           /\ Swap(op, u).until = u
BY DEF Ops, Swap

\* None is no value of the program.
LEMMA NotNone == /\ None \notin Manifest /\ None \notin Keys /\ None \notin Versions
BY ManifestNoneAssumption

\* What a release consists of.
LEMMA ManifestFields ==
    ASSUME NEW m \in Manifest
    PROVE  /\ m.version \in Versions /\ m.owner \in Keys /\ m.generatedAt \in Nat
           /\ Deadline[m.version] \in Nat /\ ItemsOf(m) \in SUBSET Assets
           /\ m # None
<1>1. m.version \in Versions /\ m.owner \in Keys /\ m.generatedAt \in Nat
  BY ManifestAssumption DEF Manifest, ManifestAssumption
<1>2. Deadline[m.version] \in Nat /\ Items[m.version] \in SUBSET Assets
  BY <1>1, ManifestAssumption DEF ManifestAssumption
<1> QED BY <1>1, <1>2, NotNone DEF ItemsOf

\* An operation that waits stays what it was: the release is still being activated,
\* the flight still recovers, and a later epoch makes it stale.
LEMMA HonestKept ==
    ASSUME NEW op \in Ops, NEW a, NEW b, NEW e \in Nat, NEW c, Honest(op, a, b, e, c),
           NEW a2, NEW b2, NEW e2 \in Nat, NEW c2,
           op.kind = "ACTIVATE" => (Activates(a) => Activates(a2)),
           op.kind = "RECOVER" => (b = "RECOVERING" => b2 = "RECOVERING"),
           e < e2 \/ (e = e2 /\ c = c2)
    PROVE  Honest(op, a2, b2, e2, c2)
<1>1. CASE op.kind = "ACTIVATE"
  BY <1>1 DEF Honest
<1>2. CASE op.kind # "ACTIVATE"
  <2>1. op.epoch \in Nat
    BY <1>2, OpFields
  <2>2. op.epoch <= e2 /\ (op.epoch = e2 => c2 = op.trust)
    BY <1>2, <2>1 DEF Honest
  <2>3. op.kind = "RECOVER" => b2 = "RECOVERING"
    BY DEF Honest
  <2> QED BY <1>2, <2>2, <2>3 DEF Honest
<1> QED BY <1>1, <1>2

\* So does a queue of them.
LEMMA QueueKept ==
    ASSUME NEW q, NEW a, NEW b, NEW e \in Nat, NEW c, Queue(q, a, b, e, c),
           NEW a2, NEW b2, NEW e2 \in Nat, NEW c2,
           Activates(a) => Activates(a2), b = "RECOVERING" => b2 = "RECOVERING",
           e < e2 \/ (e = e2 /\ c = c2)
    PROVE  Queue(q, a2, b2, e2, c2)
<1>1. q \in Seq(Ops) /\ Single(q, "ACTIVATE") /\ Single(q, "RECOVER") /\ SwapFirst(q)
  BY DEF Queue
<1>2. ASSUME NEW i \in 1 .. Len(q) PROVE Honest(q[i], a2, b2, e2, c2)
  <2>1. q[i] \in Ops /\ Honest(q[i], a, b, e, c)
    BY <1>1 DEF Queue
  <2> QED BY <2>1, HonestKept
<1> QED BY <1>1, <1>2 DEF Queue

\* Nothing waits in an empty queue.
LEMMA QueueEmpty ==
    ASSUME NEW a, NEW b, NEW e, NEW c PROVE Queue(<<>>, a, b, e, c)
<1>1. <<>> \in Seq(Ops) /\ Len(<<>>) = 0
  OBVIOUS
<1> QED BY <1>1 DEF Queue, Single, SwapFirst

\* An operation is queued; the first activation, or recovery, only.
LEMMA QueueGrows ==
    ASSUME NEW q, NEW a, NEW b, NEW e \in Nat, NEW c, Queue(q, a, b, e, c),
           NEW a2, NEW b2,
           Activates(a) => Activates(a2), b = "RECOVERING" => b2 = "RECOVERING",
           NEW x \in Ops, Honest(x, a2, b2, e, c), x.kind # "SWAP",
           x.kind = "ACTIVATE" => ~Activates(a), x.kind = "RECOVER" => b # "RECOVERING"
    PROVE  /\ Queue(Append(q, x), a2, b2, e, c)
           /\ Append(q, x) # <<>>
           /\ Head(Append(q, x)).kind = "SWAP" => q # <<>> /\ Head(Append(q, x)) = Head(q)
<1> DEFINE r == Append(q, x)
<1>1. /\ q \in Seq(Ops) /\ Single(q, "ACTIVATE") /\ Single(q, "RECOVER") /\ SwapFirst(q)
      /\ Queue(q, a2, b2, e, c)
  <2>1. Queue(q, a2, b2, e, c)
    BY QueueKept
  <2> QED BY <2>1 DEF Queue
<1>2. /\ r \in Seq(Ops) /\ r # <<>> /\ Len(q) \in Nat /\ Len(r) = Len(q) + 1
      /\ \A i \in 1 .. Len(q) : r[i] = q[i]
      /\ r[Len(q) + 1] = x
      /\ q # <<>> => Head(r) = Head(q)
  BY <1>1, Appended
<1> HIDE DEF r
<1>3. \A i \in 1 .. Len(q) : q[i].kind # x.kind \/ x.kind \notin {"ACTIVATE", "RECOVER"}
  BY DEF Queue, Honest
<1>4. \A i \in 1 .. Len(r) : i \in 1 .. Len(q) \/ (i = Len(q) + 1 /\ r[i] = x)
  BY <1>2
<1>5. Single(r, "ACTIVATE") /\ Single(r, "RECOVER")
  <2>1. ASSUME NEW kind \in {"ACTIVATE", "RECOVER"}, NEW i \in 1 .. Len(r), NEW j \in 1 .. Len(r),
               r[i].kind = kind, r[j].kind = kind
        PROVE  i = j
    <3>1. CASE i \in 1 .. Len(q) /\ j \in 1 .. Len(q)
      BY <1>1, <1>2, <2>1, <3>1 DEF Single
    <3>2. CASE i = Len(q) + 1 /\ j \in 1 .. Len(q)
      BY <1>2, <1>3, <2>1, <3>2
    <3>3. CASE j = Len(q) + 1 /\ i \in 1 .. Len(q)
      BY <1>2, <1>3, <2>1, <3>3
    <3> QED BY <1>4, <3>1, <3>2, <3>3
  <2> QED BY <2>1 DEF Single
<1>6. SwapFirst(r)
  BY <1>1, <1>2, <1>4 DEF SwapFirst
<1>7. \A i \in 1 .. Len(r) : Honest(r[i], a2, b2, e, c)
  BY <1>1, <1>2, <1>4 DEF Queue
<1>8. Head(r).kind = "SWAP" => q # <<>>
  BY <1>1, <1>2
<1> QED BY <1>2, <1>5, <1>6, <1>7, <1>8 DEF Queue, r

\* The head of the queue has run: what it waited for is over.
LEMMA QueueShrinks ==
    ASSUME NEW q, q # <<>>, NEW a, NEW b, NEW e \in Nat, NEW c, Queue(q, a, b, e, c),
           NEW a2, NEW b2,
           Head(q).kind = "ACTIVATE" \/ (Activates(a) => Activates(a2)),
           Head(q).kind = "RECOVER" \/ (b = "RECOVERING" => b2 = "RECOVERING")
    PROVE  /\ Queue(Tail(q), a2, b2, e, c)
           /\ Tail(q) # <<>> => Head(Tail(q)).kind # "SWAP"
<1> DEFINE r == Tail(q)
<1>1. q \in Seq(Ops) /\ Single(q, "ACTIVATE") /\ Single(q, "RECOVER") /\ SwapFirst(q)
  BY DEF Queue
<1>2. /\ r \in Seq(Ops) /\ Head(q) = q[1] /\ Len(q) \in Nat \ {0} /\ Len(r) = Len(q) - 1
      /\ \A i \in 1 .. Len(r) : r[i] = q[i + 1]
  BY <1>1, Popped
<1> HIDE DEF r
<1>3. \A i \in 1 .. Len(r) : i + 1 \in 1 .. Len(q) /\ i + 1 # 1
  BY <1>2
<1>4. Single(r, "ACTIVATE") /\ Single(r, "RECOVER")
  <2>1. ASSUME NEW kind, Single(q, kind), NEW i \in 1 .. Len(r), NEW j \in 1 .. Len(r),
               r[i].kind = kind, r[j].kind = kind
        PROVE  i = j
    <3>1. /\ i + 1 \in 1 .. Len(q) /\ j + 1 \in 1 .. Len(q)
          /\ r[i] = q[i + 1] /\ r[j] = q[j + 1]
      BY <1>2, <1>3
    <3>2. i + 1 = j + 1
      BY <2>1, <3>1, Zenon DEF Single
    <3> QED BY <1>2, <3>2
  <2> QED BY <1>1, <2>1 DEF Single
<1>5. SwapFirst(r) /\ \A i \in 1 .. Len(r) : r[i].kind # "SWAP"
  BY <1>1, <1>2, <1>3 DEF SwapFirst
<1>6. ASSUME NEW i \in 1 .. Len(r) PROVE Honest(r[i], a2, b2, e, c)
  <2>1. r[i] = q[i + 1] /\ i + 1 \in 1 .. Len(q) /\ i + 1 # 1 /\ 1 \in 1 .. Len(q)
    BY <1>2, <1>3
  <2>2. r[i] \in Ops /\ Honest(r[i], a, b, e, c)
    BY <1>1, <2>1 DEF Queue
  <2>3. Head(q).kind = "ACTIVATE" => r[i].kind # "ACTIVATE"
    BY <1>1, <1>2, <2>1 DEF Single
  <2>4. Head(q).kind = "RECOVER" => r[i].kind # "RECOVER"
    BY <1>1, <1>2, <2>1 DEF Single
  <2> QED BY <2>2, <2>3, <2>4, HonestKept
<1>7. r # <<>> => Head(r).kind # "SWAP"
  BY <1>2, <1>5
<1> QED BY <1>2, <1>4, <1>5, <1>6, <1>7 DEF Queue, r

\* A rollback at the head goes on as a swap.
LEMMA QueueSwaps ==
    ASSUME NEW q, q # <<>>, NEW a, NEW b, NEW e \in Nat, NEW c, Queue(q, a, b, e, c),
           Head(q).kind = "ROLLBACK", NEW x \in Ops, x.kind = "SWAP",
           x.trust = Head(q).trust, x.epoch = Head(q).epoch
    PROVE  /\ Queue(<<x>> \o Tail(q), a, b, e, c)
           /\ <<x>> \o Tail(q) # <<>> /\ Head(<<x>> \o Tail(q)) = x
<1> DEFINE r == <<x>> \o Tail(q)
<1>1. q \in Seq(Ops) /\ Single(q, "ACTIVATE") /\ Single(q, "RECOVER") /\ SwapFirst(q)
  BY DEF Queue
<1>2. /\ r \in Seq(Ops) /\ r # <<>> /\ Len(r) = Len(q) /\ r[1] = x /\ Head(r) = x
      /\ \A i \in 2 .. Len(q) : r[i] = q[i]
  BY <1>1, HeadReplaced
<1>3. Head(q) = q[1] /\ Len(q) \in Nat \ {0}
  BY <1>1, Popped
<1> HIDE DEF r
<1>4. \A i \in 1 .. Len(r) : (i = 1 /\ r[i] = x) \/ (i \in 2 .. Len(q) /\ i \in 1 .. Len(q) /\ r[i] = q[i])
  BY <1>2, <1>3
<1>5. Single(r, "ACTIVATE") /\ Single(r, "RECOVER")
  BY <1>1, <1>2, <1>4 DEF Single
<1>6. SwapFirst(r)
  BY <1>1, <1>4 DEF SwapFirst
<1>7. Honest(x, a, b, e, c)
  <2>1. Honest(q[1], a, b, e, c)
    BY <1>3 DEF Queue
  <2> QED BY <1>3, <2>1 DEF Honest
<1>8. \A i \in 1 .. Len(r) : Honest(r[i], a, b, e, c)
  BY <1>4, <1>7 DEF Queue
<1> QED BY <1>2, <1>5, <1>6, <1>8 DEF Queue, r

\* The head of the queue is an operation like the others.
LEMMA HeadHonest ==
    ASSUME NEW q, q # <<>>, NEW a, NEW b, NEW e, NEW c, Queue(q, a, b, e, c)
    PROVE  Head(q) \in Ops /\ Honest(Head(q), a, b, e, c)
<1>1. q \in Seq(Ops)
  BY DEF Queue
<1>2. Head(q) \in Ops /\ Head(q) = q[1] /\ Len(q) \in Nat \ {0}
  BY <1>1, Popped
<1> QED BY <1>2 DEF Queue

-----------------------------------------------------------------------------
(* Staging. *)

\* No release is staged.
LEMMA NoStageFields ==
    /\ NoStage.step = "IDLE" /\ NoStage.manifest = None /\ NoStage.trust = None
    /\ NoStage.result = None /\ NoStage.failed = FALSE /\ NoStage.todo = {}
    /\ NoStage.fetching = {} /\ NoStage.generation = 0 /\ NoStage \in Staged
BY DEF NoStage, Staged, StageSteps

\* No collection is under way.
LEMMA NoSweepFields == NoSweep.step = "IDLE" /\ NoSweep \in SweepRow
BY DEF NoSweep, SweepRow

\* A release that is under way stays the same release, for the same identity.
Carries ==
    \/ UNCHANGED stage
    \/ /\ stage.step # "IDLE" /\ stage'.step # "IDLE"
       /\ stage'.manifest = stage.manifest /\ stage'.trust = stage.trust
Steady ==
    /\ Activates(stage.step) => Activates(stage'.step)
    /\ stage'.step = "CLEARED" => stage.step = "CLEARED"

\* The running release, or the collection, leaves the queue.
LEMMA Finishes ==
    ASSUME StagingInv, NEW step \in {"DONE", "FAILED"}, Finish(step),
           stagingQueue # <<>>, stage.step # "IDLE"
    PROVE  /\ stage' \in Staged /\ stage'.step = step
           /\ stage'.manifest = stage.manifest /\ stage'.trust = stage.trust
           /\ stage'.result = stage.result
           /\ stagingQueue' \in Seq({"stage", "sweep"})
<1>1. stage \in Staged /\ stagingQueue \in Seq({"stage", "sweep"})
  BY DEF StagingInv, StagingTypes
<1>2. stage' = [stage EXCEPT !.step = step, !.todo = {}] /\ stagingQueue' = Tail(stagingQueue)
  BY DEF Finish
<1>3. stagingQueue' \in Seq({"stage", "sweep"})
  BY <1>1, <1>2, Popped
<1> QED BY <1>1, <1>2, <1>3 DEF Staged, StageSteps

\* The steps of a staging, one by one: the first decision,
LEMMA StageBeginStages ==
    ASSUME StagingInv, StageBegin PROVE StagingInv' /\ Carries /\ Steady
<1>0. /\ stage.step = "QUEUED" /\ stagingQueue # <<>> /\ Head(stagingQueue) = "stage"
      /\ UNCHANGED generation /\ generation \in Nat /\ stage \in Staged
      /\ stagingQueue \in Seq({"stage", "sweep"})
      /\ stage.manifest \in Manifest /\ stage.trust \in Keys
      /\ stage.result \in {None, stage.manifest} /\ sweep \in SweepRow
  BY DEF StageBegin, StagingInv, StagingTypes, StagingOK
<1>1. CASE Finish("FAILED") /\ UNCHANGED sweep
  <2>1. sweep.step = "IDLE"
    BY <1>0 DEF StagingInv, StagingOK
  <2>2. /\ stage' \in Staged /\ stage'.step = "FAILED"
        /\ stage'.manifest = stage.manifest /\ stage'.trust = stage.trust
        /\ stage'.result = stage.result /\ stagingQueue' \in Seq({"stage", "sweep"})
    BY <1>0, <1>1, Finishes
  <2> QED BY <1>0, <1>1, <2>1, <2>2 DEF Carries, Steady, Activates, StagingInv, StagingTypes, StagingOK,
         Running
<1>2. CASE /\ stage' = [stage EXCEPT !.step = "PRUNING"]
           /\ sweep' = [NoSweep EXCEPT !.step = "ACTIVE"] /\ UNCHANGED stagingQueue
  <2>1. /\ stage' \in Staged /\ stage'.step = "PRUNING"
        /\ stage'.manifest = stage.manifest /\ stage'.trust = stage.trust
        /\ stage'.result = stage.result
    BY <1>0, <1>2 DEF Staged, StageSteps
  <2>2. sweep' \in SweepRow
    BY <1>2 DEF NoSweep, SweepRow
  <2> QED BY <1>0, <1>2, <2>1, <2>2 DEF Carries, Steady, Activates, StagingInv, StagingTypes, StagingOK
<1> QED BY <1>1, <1>2 DEF StageBegin

\* the collection of the cache,
LEMMA SweepStages ==
    ASSUME StagingInv, ContentTypes, SweepBegin \/ SweepActive \/ SweepPrevious
    PROVE  StagingInv' /\ UNCHANGED stage
<1>0. UNCHANGED <<generation, stage, stagingQueue>> /\ stagingQueue # <<>>
  BY DEF SweepBegin, SweepActive, SweepPrevious, StagingInv, StagingOK
<1>1. ItemsOf(active) \in SUBSET Assets /\ ItemsOf(previous) \in SUBSET Assets
  BY ManifestFields DEF ContentTypes, ItemsOf
<1>2. sweep' \in SweepRow
  BY <1>1 DEF SweepBegin, SweepActive, SweepPrevious, StagingInv, StagingTypes, SweepRow, NoSweep
<1>3. Head(stagingQueue) = "stage" => stage.step \in {"PRUNING", "TIDYING"}
  BY DEF SweepBegin, SweepActive, SweepPrevious, StagingInv, StagingOK
<1> QED BY <1>0, <1>2, <1>3 DEF StagingInv, StagingTypes, StagingOK

\* its deletion, after which the release goes on,
LEMMA SweepDeleteStages ==
    ASSUME StagingInv, SweepDelete PROVE StagingInv' /\ Carries /\ Steady
<1>0. /\ sweep.step = "DELETE" /\ sweep' = NoSweep /\ UNCHANGED generation /\ generation \in Nat
      /\ stage \in Staged /\ stagingQueue \in Seq({"stage", "sweep"}) /\ stagingQueue # <<>>
      /\ stage.result \in {None, stage.manifest}
      /\ stage.step # "IDLE" => stage.manifest \in Manifest /\ stage.trust \in Keys
  BY DEF SweepDelete, StagingInv, StagingTypes, StagingOK
<1>1. sweep' \in SweepRow /\ sweep'.step = "IDLE"
  BY <1>0, NoSweepFields
<1>2. CASE \/ Finish("FAILED") /\ stage.step = "PRUNING"
           \/ Finish("DONE") /\ stage.step = "TIDYING"
  <2>1. PICK step \in {"FAILED", "DONE"} : Finish(step) /\ stage.step # "IDLE"
    BY <1>2
  <2>2. /\ stage' \in Staged /\ stage'.step = step
        /\ stage'.manifest = stage.manifest /\ stage'.trust = stage.trust
        /\ stage'.result = stage.result /\ stagingQueue' \in Seq({"stage", "sweep"})
    BY <1>0, <2>1, Finishes
  <2> QED BY <1>0, <1>1, <2>1, <2>2 DEF Carries, Steady, Activates, StagingInv, StagingTypes, StagingOK,
         Running
<1>3. CASE /\ stage.step = "PRUNING" /\ UNCHANGED stagingQueue
           /\ stage' = [stage EXCEPT !.step = "PREFETCH",
                  !.todo = IF Ended(stage.manifest) THEN {} ELSE ItemsOf(stage.manifest)]
  <2> DEFINE todo == IF Ended(stage.manifest) THEN {} ELSE ItemsOf(stage.manifest)
  <2>1. todo \in SUBSET Assets
    BY <1>0, <1>3, ManifestFields
  <2>2. stage' = [stage EXCEPT !.step = "PREFETCH", !.todo = todo]
    BY <1>3
  <2> HIDE DEF todo
  <2>3. /\ stage' \in Staged /\ stage'.step = "PREFETCH"
        /\ stage'.manifest = stage.manifest /\ stage'.trust = stage.trust
        /\ stage'.result = stage.result
    BY <1>0, <2>1, <2>2 DEF Staged, StageSteps
  <2>4. Head(stagingQueue) = "stage"
    BY <1>3 DEF StagingInv, StagingOK, Running
  <2> QED BY <1>0, <1>1, <1>3, <2>3, <2>4 DEF Carries, Steady, Activates, StagingInv, StagingTypes, StagingOK
<1>4. CASE /\ stage.step \notin {"PRUNING", "TIDYING"}
           /\ stagingQueue' = Tail(stagingQueue) /\ UNCHANGED stage
  <2>1. stage.step \notin Running
    BY <1>0, <1>4 DEF StagingInv, StagingOK
  <2>2. stagingQueue' \in Seq({"stage", "sweep"})
    BY <1>0, <1>4, Popped
  <2>3. StagingTypes'
    BY <1>0, <1>1, <1>4, <2>2 DEF StagingTypes
  <2>4. stage'.step \notin Running /\ stage' = stage
    BY <1>4, <2>1
  <2>5. StagingOK'
    BY <1>0, <1>1, <2>4 DEF StagingInv, StagingOK
  <2> QED BY <2>3, <2>4, <2>5 DEF Carries, Steady, Activates, StagingInv
<1>5. \/ Finish("FAILED") /\ stage.step = "PRUNING"
      \/ Finish("DONE") /\ stage.step = "TIDYING"
      \/ /\ stage.step = "PRUNING" /\ UNCHANGED stagingQueue
         /\ stage' = [stage EXCEPT !.step = "PREFETCH",
                !.todo = IF Ended(stage.manifest) THEN {} ELSE ItemsOf(stage.manifest)]
      \/ /\ stage.step \notin {"PRUNING", "TIDYING"}
         /\ stagingQueue' = Tail(stagingQueue) /\ UNCHANGED stage
  <2> DEFINE outcome ==
        CASE stage.step = "PRUNING" /\ Cancelled -> Finish("FAILED")
          [] stage.step = "PRUNING" /\ ~Cancelled ->
                /\ stage' = [stage EXCEPT !.step = "PREFETCH",
                      !.todo = IF Ended(stage.manifest) THEN {} ELSE ItemsOf(stage.manifest)]
                /\ UNCHANGED stagingQueue
          [] stage.step = "TIDYING" -> Finish("DONE")
          [] OTHER -> stagingQueue' = Tail(stagingQueue) /\ UNCHANGED stage
  <2>0. outcome
    BY DEF SweepDelete
  <2>1. CASE stage.step = "PRUNING" /\ Cancelled
    BY <2>0, <2>1
  <2>2. CASE stage.step = "PRUNING" /\ ~Cancelled
    BY <2>0, <2>2
  <2>3. CASE stage.step = "TIDYING"
    BY <2>0, <2>3
  <2>4. CASE stage.step \notin {"PRUNING", "TIDYING"}
    BY <2>0, <2>4
  <2> QED BY <2>1, <2>2, <2>3, <2>4
<1> QED BY <1>2, <1>3, <1>4, <1>5

\* the downloads,
LEMMA PrefetchStages ==
    ASSUME StagingInv, NEW a \in Assets,
           PrefetchClaim(a) \/ PrefetchLand(a) \/ PrefetchFail(a)
    PROVE  StagingInv' /\ Carries /\ Steady
<1>0. /\ UNCHANGED <<generation, sweep, stagingQueue>> /\ generation \in Nat
      /\ stage \in Staged /\ stagingQueue \in Seq({"stage", "sweep"}) /\ sweep \in SweepRow
      /\ stage.result \in {None, stage.manifest}
      /\ stage.step = "IDLE" => stage = NoStage
      /\ stage.step # "IDLE" => stage.manifest \in Manifest /\ stage.trust \in Keys
  BY DEF PrefetchClaim, PrefetchLand, PrefetchFail, StagingInv, StagingTypes, StagingOK
<1>1. /\ stage' \in Staged /\ stage'.step = stage.step /\ stage'.step # "IDLE"
      /\ stage'.manifest = stage.manifest /\ stage'.trust = stage.trust
      /\ stage'.result = stage.result
  <2> DEFINE F == stage.failed \/ Cancelled
  <2>0. F \in BOOLEAN /\ TRUE \in BOOLEAN
    BY Zenon
  <2>1. CASE PrefetchClaim(a)
    <3>1. stage.step = "PREFETCH"
      BY <2>1 DEF PrefetchClaim
    <3>2. \/ stage' = [stage EXCEPT !.failed = TRUE]
          \/ stage' = [stage EXCEPT !.todo = @ \ {a}, !.fetching = @ \union {a}]
      BY <2>1 DEF PrefetchClaim
    <3>3. CASE stage' = [stage EXCEPT !.failed = TRUE]
      BY <1>0, <3>1, <3>3 DEF Staged
    <3>4. CASE stage' = [stage EXCEPT !.todo = @ \ {a}, !.fetching = @ \union {a}]
      BY <1>0, <3>1, <3>4 DEF Staged
    <3> QED BY <3>2, <3>3, <3>4
  <2>2. CASE PrefetchLand(a)
    <3>1. stage.step # "IDLE"
      BY <1>0, <2>2, NoStageFields DEF PrefetchLand
    <3>2. stage' = [stage EXCEPT !.fetching = stage.fetching \ {a}, !.failed = F]
      BY <2>2 DEF PrefetchLand
    <3> HIDE DEF F
    <3> QED BY <1>0, <2>0, <3>1, <3>2 DEF Staged
  <2>3. CASE PrefetchFail(a)
    <3>1. stage.step # "IDLE"
      BY <1>0, <2>3, NoStageFields DEF PrefetchFail
    <3>2. stage' = [stage EXCEPT !.fetching = stage.fetching \ {a}, !.failed = TRUE]
      BY <2>3 DEF PrefetchFail
    <3> QED BY <1>0, <3>1, <3>2 DEF Staged
  <2> QED BY <2>1, <2>2, <2>3
<1> QED BY <1>0, <1>1 DEF Carries, Steady, Activates, StagingInv, StagingTypes, StagingOK

\* their end,
LEMMA PrefetchEndStages ==
    ASSUME StagingInv, PrefetchEnd PROVE StagingInv' /\ Carries /\ Steady
<1>0. /\ UNCHANGED <<generation, sweep>> /\ generation \in Nat
      /\ stage \in Staged /\ stagingQueue \in Seq({"stage", "sweep"}) /\ sweep \in SweepRow
      /\ stage.step = "PREFETCH" /\ stage.result \in {None, stage.manifest}
      /\ stage.manifest \in Manifest /\ stage.trust \in Keys
  BY DEF PrefetchEnd, StagingInv, StagingTypes, StagingOK
<1>1. stagingQueue # <<>> /\ Head(stagingQueue) = "stage" /\ sweep.step = "IDLE"
  BY <1>0 DEF StagingInv, StagingOK, Running
<1>2. CASE Finish("FAILED")
  <2>1. /\ stage' \in Staged /\ stage'.step = "FAILED"
        /\ stage'.manifest = stage.manifest /\ stage'.trust = stage.trust
        /\ stage'.result = stage.result /\ stagingQueue' \in Seq({"stage", "sweep"})
    BY <1>0, <1>1, <1>2, Finishes
  <2> QED BY <1>0, <1>1, <2>1 DEF Carries, Steady, Activates, StagingInv, StagingTypes, StagingOK,
         Running
<1>3. CASE stage' = [stage EXCEPT !.step = "ACTIVATING"] /\ UNCHANGED stagingQueue
  <2>1. /\ stage' \in Staged /\ stage'.step = "ACTIVATING"
        /\ stage'.manifest = stage.manifest /\ stage'.trust = stage.trust
        /\ stage'.result = stage.result
    BY <1>0, <1>3 DEF Staged, StageSteps
  <2> QED BY <1>0, <1>1, <1>3, <2>1 DEF Carries, Steady, Activates, StagingInv, StagingTypes, StagingOK,
         Running
<1> QED BY <1>2, <1>3 DEF PrefetchEnd

\* and the activation, which may blank the slots first.
LEMMA ActivationEnds ==
    ASSUME StagingInv, Activates(stage.step), UNCHANGED generation,
           \/ Finish("FAILED") /\ UNCHANGED sweep
           \/ \E result \in {None, stage.manifest} : Tidy(result)
           \/ \E result \in {None, stage.manifest} :
                 /\ stage' = [stage EXCEPT !.step = "CLEARED", !.result = result]
                 /\ UNCHANGED <<sweep, stagingQueue>>
    PROVE  StagingInv' /\ Carries
<1>0. /\ generation' = generation /\ generation \in Nat
      /\ stage \in Staged /\ stagingQueue \in Seq({"stage", "sweep"}) /\ sweep \in SweepRow
      /\ stage.step \in {"ACTIVATING", "CLEARED"} /\ stage.result \in {None, stage.manifest}
      /\ stage.manifest \in Manifest /\ stage.trust \in Keys
  BY DEF StagingInv, StagingTypes, StagingOK, Activates
<1>1. stagingQueue # <<>> /\ Head(stagingQueue) = "stage" /\ sweep.step = "IDLE"
  BY <1>0 DEF StagingInv, StagingOK, Running
<1>2. CASE Finish("FAILED") /\ UNCHANGED sweep
  <2>1. /\ stage' \in Staged /\ stage'.step = "FAILED"
        /\ stage'.manifest = stage.manifest /\ stage'.trust = stage.trust
        /\ stage'.result = stage.result /\ stagingQueue' \in Seq({"stage", "sweep"})
    BY <1>0, <1>1, <1>2, Finishes
  <2> QED BY <1>0, <1>1, <1>2, <2>1 DEF Carries, StagingInv, StagingTypes, StagingOK, Running
<1>3. ASSUME NEW result \in {None, stage.manifest}, Tidy(result) PROVE StagingInv' /\ Carries
  <2>1. stage' = [stage EXCEPT !.step = "TIDYING", !.result = result]
    BY <1>3 DEF Tidy
  <2>2. /\ stage' \in Staged /\ stage'.step = "TIDYING"
        /\ stage'.manifest = stage.manifest /\ stage'.trust = stage.trust
        /\ stage'.result = result
    BY <1>0, <1>3, <2>1 DEF Staged, StageSteps
  <2>3. sweep' \in SweepRow /\ stagingQueue' = stagingQueue
    BY <1>3 DEF Tidy, NoSweep, SweepRow
  <2> QED BY <1>0, <1>1, <1>3, <2>2, <2>3 DEF Carries, StagingInv, StagingTypes, StagingOK, Running
<1>4. ASSUME NEW result \in {None, stage.manifest},
             stage' = [stage EXCEPT !.step = "CLEARED", !.result = result],
             UNCHANGED <<sweep, stagingQueue>>
      PROVE  StagingInv' /\ Carries
  <2>1. /\ stage' \in Staged /\ stage'.step = "CLEARED"
        /\ stage'.manifest = stage.manifest /\ stage'.trust = stage.trust
        /\ stage'.result = result
    BY <1>0, <1>4 DEF Staged, StageSteps
  <2> QED BY <1>0, <1>1, <1>4, <2>1 DEF Carries, StagingInv, StagingTypes, StagingOK, Running
<1> QED BY <1>2, <1>3, <1>4

LEMMA ActivateStages ==
    ASSUME StagingInv, Activate \/ ActivateCleared PROVE StagingInv' /\ Carries
<1>1. StageResult \in {None, stage.manifest} /\ stage.result \in {None, stage.manifest}
  BY DEF StageResult, StagingInv, StagingOK
<1>2. CASE Activate
  <2>1. Activates(stage.step) /\ UNCHANGED generation
    BY <1>2 DEF Activate, Activates
  <2>2. \/ Finish("FAILED") /\ UNCHANGED sweep
        \/ Tidy(StageResult)
        \/ /\ stage' = [stage EXCEPT !.step = "CLEARED", !.result = StageResult]
           /\ UNCHANGED <<sweep, stagingQueue>>
    BY <1>2 DEF Activate
  <2> QED BY <1>1, <2>1, <2>2, ActivationEnds
<1>3. CASE ActivateCleared
  <2>1. Activates(stage.step) /\ UNCHANGED generation
    BY <1>3 DEF ActivateCleared, Activates
  <2>2. \/ Finish("FAILED") /\ UNCHANGED sweep
        \/ Tidy(stage.result)
    BY <1>3 DEF ActivateCleared
  <2> QED BY <1>1, <2>1, <2>2, ActivationEnds
<1> QED BY <1>2, <1>3

\* What joins the staging queue waits behind its head.
LEMMA QueuedBehind ==
    ASSUME StagingInv, NEW x \in {"stage", "sweep"},
           stagingQueue' = Append(stagingQueue, x), UNCHANGED sweep, generation' \in Nat,
           \/ UNCHANGED stage
           \/ /\ stage = NoStage /\ stage' \in Staged /\ stage'.step = "QUEUED"
              /\ stage'.manifest \in Manifest /\ stage'.trust \in Keys /\ stage'.result = None
    PROVE  StagingInv'
<1>1. /\ stagingQueue' \in Seq({"stage", "sweep"}) /\ stagingQueue' # <<>>
      /\ stagingQueue # <<>> => Head(stagingQueue') = Head(stagingQueue)
  BY Appended DEF StagingInv, StagingTypes
<1>2. StagingTypes'
  BY <1>1 DEF StagingInv, StagingTypes
<1>3. CASE UNCHANGED stage
  BY <1>1, <1>2, <1>3 DEF StagingInv, StagingOK
<1>4. CASE /\ stage = NoStage /\ stage' \in Staged /\ stage'.step = "QUEUED"
           /\ stage'.manifest \in Manifest /\ stage'.trust \in Keys /\ stage'.result = None
  <2>1. stage'.step \notin Running /\ stage'.step # "IDLE"
    BY <1>4 DEF Running
  <2>2. sweep'.step # "IDLE" => stagingQueue' # <<>> /\ Head(stagingQueue') # "stage"
    BY <1>1, <1>4, NoStageFields DEF StagingInv, StagingTypes, StagingOK
  <2> QED BY <1>2, <1>4, <2>1, <2>2 DEF StagingInv, StagingOK
<1> QED BY <1>2, <1>3, <1>4 DEF StagingInv

\* The release was handed over, or its queue emptied by a restart.
LEMMA StageCleared ==
    ASSUME StagingInv, stage' = NoStage, generation' \in Nat,
           \/ /\ stage.step \in {"DONE", "FAILED"} /\ UNCHANGED <<sweep, stagingQueue>>
           \/ sweep' = NoSweep /\ stagingQueue' = <<>>
    PROVE  StagingInv'
<1>1. StagingTypes'
  <2>1. sweep' \in SweepRow
    BY NoSweepFields DEF StagingInv, StagingTypes
  <2>2. stagingQueue' \in Seq({"stage", "sweep"})
    <3>1. <<>> \in Seq({"stage", "sweep"})
      OBVIOUS
    <3> QED BY <3>1 DEF StagingInv, StagingTypes
  <2> QED BY <2>1, <2>2, NoStageFields DEF StagingTypes
<1>2. stage'.step \notin Running
  BY NoStageFields DEF Running
<1>3. sweep'.step # "IDLE" => stagingQueue' # <<>> /\ Head(stagingQueue') # "stage"
  BY NoSweepFields DEF StagingInv, StagingTypes, StagingOK
<1> QED BY <1>1, <1>2, <1>3, NoStageFields DEF StagingInv, StagingOK

-----------------------------------------------------------------------------
(* Which steps touch what. *)

\* The releases being staged.
LEMMA StagingFrame ==
    ASSUME SessionNext
    PROVE  \/ UNCHANGED stagingVars
           \/ Manager
           \/ Restart \/ BootResume \/ HeartbeatDenied \/ SyncAnswered
           \/ SyncDenied \/ SyncStageFailed \/ SyncStaged \/ RunRecovery
<1> USE DEF managerVars, stagingVars
<1>1. CASE Environment
  BY <1>1 DEF Environment, Tick, Publish, Revoke, Approve
<1>2. CASE Erasure
  BY <1>2 DEF Erasure, EraseStore, EraseAssets, EraseFails
<1>3. CASE Boot
  BY <1>3 DEF Boot, BootErase, BootErased
<1>4. CASE Pair
  BY <1>4 DEF Pair, PairSave, PairPoll, PairRejected, PairActivated, PairFinalized,
     RotateGenerate, RotateCommit
<1>5. CASE Session
  BY <1>5 DEF Session, Deprovisioned, SyncAsk, SyncLost, SyncEnds, PlaybackError,
     EmergencyEnds, PlaybackEnds, RunRollback, RunSwap, RollbackThrows
<1> QED BY <1>1, <1>2, <1>3, <1>4, <1>5 DEF SessionNext

\* The slots and the cache.
LEMMA ContentFrame ==
    ASSUME SessionNext
    PROVE  \/ UNCHANGED <<slots, cached>>
           \/ /\ \/ SweepDelete \/ Activate \/ ActivateCleared
                 \/ \E a \in Assets : PrefetchLand(a)
              /\ stolen' = stolen \ cached'
              /\ UNCHANGED <<serverVars, diskVars, appVars, late, orphaned>>
           \/ BootResume \/ RunRecovery \/ RunRollback \/ RunSwap
           \/ \E e \in Erasers : EraseStore(e) \/ EraseAssets(e)
<1> USE DEF managerVars, slots
<1>1. CASE Manager
  BY <1>1 DEF Manager, ManagerStep, StageBegin, SweepBegin, SweepActive, SweepPrevious,
     PrefetchClaim, PrefetchFail, PrefetchEnd
<1>2. CASE Environment
  BY <1>2 DEF Environment, Tick, Publish, Revoke, Approve, Restart
<1>3. CASE Erasure
  BY <1>3 DEF Erasure, EraseFails
<1>4. CASE Boot
  BY <1>4 DEF Boot, BootErase, BootErased
<1>5. CASE Pair
  BY <1>5 DEF Pair, PairSave, PairPoll, PairRejected, PairActivated, PairFinalized,
     RotateGenerate, RotateCommit
<1>6. CASE Session
  BY <1>6 DEF Session, HeartbeatDenied, Deprovisioned, SyncAsk, SyncLost, SyncAnswered,
     SyncDenied, SyncStageFailed, SyncStaged, SyncEnds, PlaybackError, EmergencyEnds,
     PlaybackEnds, RollbackThrows
<1> QED BY <1>1, <1>2, <1>3, <1>4, <1>5, <1>6 DEF SessionNext

\* The flight of the synchronization, and the credentials it is for.
LEMMA FlightFrame ==
    ASSUME SessionNext
    PROVE  \/ UNCHANGED <<stage, sync, epoch, creds>>
           \/ Manager
           \/ Restart \/ BootResume \/ PairFinalized \/ HeartbeatDenied
           \/ SyncAsk \/ SyncLost \/ SyncAnswered \/ SyncDenied
           \/ SyncStageFailed \/ SyncStaged \/ SyncEnds \/ RunRecovery
           \/ \E e \in Erasers : EraseFails(e)
<1> USE DEF appVars, managerVars, stagingVars
<1>1. CASE Environment
  BY <1>1 DEF Environment, Tick, Publish, Revoke, Approve
<1>2. CASE Erasure
  BY <1>2 DEF Erasure, EraseStore, EraseAssets
<1>3. CASE Boot
  BY <1>3 DEF Boot, BootErase, BootErased
<1>4. CASE Pair
  BY <1>4 DEF Pair, PairSave, PairPoll, PairRejected, PairActivated, RotateGenerate,
     RotateCommit
<1>5. CASE Session
  BY <1>5 DEF Session, Deprovisioned, PlaybackError, EmergencyEnds, PlaybackEnds,
     RunRollback, RunSwap, RollbackThrows
<1> QED BY <1>1, <1>2, <1>3, <1>4, <1>5 DEF SessionNext

\* The state queue.
LEMMA QueueFrame ==
    ASSUME SessionNext
    PROVE  \/ UNCHANGED stateQueue
           \/ /\ PrefetchEnd \/ Activate \/ ActivateCleared
              /\ UNCHANGED <<serverVars, diskVars, appVars>>
           \/ Restart \/ SyncLost \/ SyncStageFailed \/ PlaybackError
           \/ EmergencyEnds \/ RunRecovery \/ RunRollback \/ RunSwap \/ RollbackThrows
<1> USE DEF managerVars
<1>1. CASE Manager
  BY <1>1 DEF Manager, ManagerStep, StageBegin, SweepBegin, SweepActive, SweepPrevious, SweepDelete,
     PrefetchClaim, PrefetchLand, PrefetchFail
<1>2. CASE Environment
  BY <1>2 DEF Environment, Tick, Publish, Revoke, Approve
<1>3. CASE Erasure
  BY <1>3 DEF Erasure, EraseStore, EraseAssets, EraseFails
<1>4. CASE Boot
  BY <1>4 DEF Boot, BootErase, BootErased, BootResume
<1>5. CASE Pair
  BY <1>5 DEF Pair, PairSave, PairPoll, PairRejected, PairActivated, PairFinalized,
     RotateGenerate, RotateCommit
<1>6. CASE Session
  BY <1>6 DEF Session, HeartbeatDenied, Deprovisioned, SyncAsk, SyncAnswered, SyncDenied,
     SyncStaged, SyncEnds, PlaybackEnds
<1> QED BY <1>1, <1>2, <1>3, <1>4, <1>5, <1>6 DEF SessionNext

\* The screen and whose it is.
LEMMA ShownFrame ==
    ASSUME SessionNext
    PROVE  \/ UNCHANGED <<shown, creds>>
           \/ Restart \/ BootResume \/ PairFinalized \/ HeartbeatDenied
           \/ SyncDenied \/ SyncStaged \/ EmergencyEnds \/ PlaybackEnds
           \/ RunRecovery \/ RunRollback \/ RunSwap \/ RollbackThrows
<1> USE DEF appVars
<1>1. CASE Manager
  BY <1>1 DEF Manager, ManagerStep, StageBegin, SweepBegin, SweepActive, SweepPrevious, SweepDelete,
     PrefetchClaim, PrefetchLand, PrefetchFail, PrefetchEnd, Activate, ActivateCleared
<1>2. CASE Environment
  BY <1>2 DEF Environment, Tick, Publish, Revoke, Approve
<1>3. CASE Erasure
  BY <1>3 DEF Erasure, EraseStore, EraseAssets, EraseFails
<1>4. CASE Boot
  BY <1>4 DEF Boot, BootErase, BootErased
<1>5. CASE Pair
  BY <1>5 DEF Pair, PairSave, PairPoll, PairRejected, PairActivated, RotateGenerate,
     RotateCommit
<1>6. CASE Session
  BY <1>6 DEF Session, Deprovisioned, SyncAsk, SyncLost, SyncAnswered, SyncStageFailed,
     SyncEnds, PlaybackError
<1> QED BY <1>1, <1>2, <1>3, <1>4, <1>5, <1>6 DEF SessionNext

\* What is being erased.
LEMMA ScreenFrame ==
    ASSUME SessionNext
    PROVE  \/ UNCHANGED <<screen, erasing, deprovision>>
           \/ Restart \/ BootErase \/ BootErased \/ BootResume \/ PairFinalized
           \/ HeartbeatDenied \/ Deprovisioned \/ SyncDenied \/ SyncStaged
           \/ RunRollback \/ RunSwap \/ RollbackThrows
           \/ \E e \in Erasers : EraseStore(e) \/ EraseAssets(e) \/ EraseFails(e)
<1> USE DEF appVars
<1>1. CASE Manager
  BY <1>1 DEF Manager, ManagerStep, StageBegin, SweepBegin, SweepActive, SweepPrevious, SweepDelete,
     PrefetchClaim, PrefetchLand, PrefetchFail, PrefetchEnd, Activate, ActivateCleared
<1>2. CASE Environment
  BY <1>2 DEF Environment, Tick, Publish, Revoke, Approve
<1>3. CASE Erasure
  BY <1>3 DEF Erasure
<1>4. CASE Boot
  BY <1>4 DEF Boot
<1>5. CASE Pair
  BY <1>5 DEF Pair, PairSave, PairPoll, PairRejected, PairActivated, RotateGenerate,
     RotateCommit
<1>6. CASE Session
  BY <1>6 DEF Session, SyncAsk, SyncLost, SyncAnswered, SyncStageFailed, SyncEnds,
     PlaybackError, EmergencyEnds, PlaybackEnds, RunRecovery
<1> QED BY <1>1, <1>2, <1>3, <1>4, <1>5, <1>6 DEF SessionNext

\* What is on disk of a pairing, and the pairing form.
LEMMA PairingFrame ==
    ASSUME SessionNext
    PROVE  \/ UNCHANGED <<diskVars, pairing>>
           \/ Restart \/ BootErase \/ BootErased \/ BootResume \/ PairSave
           \/ PairPoll \/ PairRejected \/ PairActivated \/ PairFinalized
           \/ RotateCommit
           \/ \E e \in Erasers : EraseStore(e)
           \/ \E k \in Keys : RotateGenerate(k)
<1> USE DEF appVars, diskVars
<1>1. CASE Manager
  BY <1>1 DEF Manager, ManagerStep, StageBegin, SweepBegin, SweepActive, SweepPrevious, SweepDelete,
     PrefetchClaim, PrefetchLand, PrefetchFail, PrefetchEnd, Activate, ActivateCleared
<1>2. CASE Environment
  BY <1>2 DEF Environment, Tick, Publish, Revoke, Approve
<1>3. CASE Erasure
  BY <1>3 DEF Erasure, EraseAssets, EraseFails
<1>4. CASE Boot
  BY <1>4 DEF Boot
<1>5. CASE Pair
  BY <1>5 DEF Pair
<1>6. CASE Session
  BY <1>6 DEF Session, HeartbeatDenied, Deprovisioned, SyncAsk, SyncLost, SyncAnswered,
     SyncDenied, SyncStageFailed, SyncStaged, SyncEnds, PlaybackError, EmergencyEnds,
     PlaybackEnds, RunRecovery, RunRollback, RunSwap, RollbackThrows
<1> QED BY <1>1, <1>2, <1>3, <1>4, <1>5, <1>6 DEF SessionNext

\* The server and the clock.
LEMMA ServerFrame ==
    ASSUME SessionNext
    PROVE  \/ UNCHANGED <<now, serverVars>>
           \/ Tick \/ PairPoll
           \/ \E v \in Versions : Publish(v)
           \/ \E k \in Keys : Revoke(k) \/ Approve(k)
<1> USE DEF managerVars, serverVars
<1>1. CASE Manager
  BY <1>1 DEF Manager, ManagerStep, StageBegin, SweepBegin, SweepActive, SweepPrevious, SweepDelete,
     PrefetchClaim, PrefetchLand, PrefetchFail, PrefetchEnd, Activate, ActivateCleared
<1>2. CASE Environment
  BY <1>2 DEF Environment, Restart
<1>3. CASE Erasure
  BY <1>3 DEF Erasure, EraseStore, EraseAssets, EraseFails
<1>4. CASE Boot
  BY <1>4 DEF Boot, BootErase, BootErased, BootResume
<1>5. CASE Pair
  BY <1>5 DEF Pair, PairSave, PairRejected, PairActivated, PairFinalized, RotateGenerate,
     RotateCommit
<1>6. CASE Session
  BY <1>6 DEF Session, HeartbeatDenied, Deprovisioned, SyncAsk, SyncLost, SyncAnswered,
     SyncDenied, SyncStageFailed, SyncStaged, SyncEnds, PlaybackError, EmergencyEnds,
     PlaybackEnds, RunRecovery, RunRollback, RunSwap, RollbackThrows
<1> QED BY <1>1, <1>2, <1>3, <1>4, <1>5, <1>6 DEF SessionNext

-----------------------------------------------------------------------------
(* The releases being staged, step by step. *)

\* A step of the manager keeps the staging queue and the release in order.
LEMMA ManagerStages ==
    ASSUME StagingInv, ContentTypes, ManagerStep
    PROVE  StagingInv' /\ Carries /\ (Steady \/ Activate \/ ActivateCleared)
<1>1. CASE StageBegin
  BY <1>1, StageBeginStages
<1>2. CASE SweepBegin \/ SweepActive \/ SweepPrevious
  <2>1. StagingInv' /\ UNCHANGED stage
    BY <1>2, SweepStages
  <2> QED BY <2>1 DEF Carries, Steady
<1>3. CASE SweepDelete
  BY <1>3, SweepDeleteStages
<1>4. CASE \E a \in Assets : PrefetchClaim(a) \/ PrefetchLand(a) \/ PrefetchFail(a)
  BY <1>4, PrefetchStages
<1>5. CASE PrefetchEnd
  BY <1>5, PrefetchEndStages
<1>6. CASE Activate \/ ActivateCleared
  BY <1>6, ActivateStages
<1> QED BY <1>1, <1>2, <1>3, <1>4, <1>5, <1>6 DEF ManagerStep

\* A release joins the staging queue when the flight it is for has its answer: no other
\* one is being staged.
LEMMA AnswerStages ==
    ASSUME StagingInv, FlightInv, SyncAnswered
    PROVE  /\ StagingInv' /\ stage = NoStage
           /\ stage'.step = "QUEUED" /\ stage'.trust = sync.trust /\ stage'.manifest = sync.answer
<1>1. /\ sync \in Flights /\ sync.step = "ASKING" /\ sync.trust \in Keys
      /\ sync.answer \in Manifest
  BY DEF SyncAnswered, FlightInv, FlightTypes, FlightOK, Flights
<1>2. stage = NoStage
  BY <1>1 DEF FlightInv, FlightOK, StagingInv, StagingOK
<1>3. generation \in Nat /\ UNCHANGED <<generation, sweep>>
  BY DEF SyncAnswered, StagingInv, StagingTypes
<1>4. /\ stagingQueue' = Append(stagingQueue, "stage")
      /\ stage' = [NoStage EXCEPT !.step = "QUEUED", !.manifest = sync.answer,
                                  !.trust = sync.trust, !.generation = generation]
  BY DEF SyncAnswered, EnqueueStage
<1>5. /\ stage' \in Staged /\ stage'.step = "QUEUED" /\ stage'.result = None
      /\ stage'.trust = sync.trust /\ stage'.manifest = sync.answer
  BY <1>1, <1>3, <1>4 DEF NoStage, Staged, StageSteps
<1>6. StagingInv'
  BY <1>1, <1>2, <1>3, <1>4, <1>5, QueuedBehind
<1> QED BY <1>2, <1>5, <1>6

\* So does every step.
LEMMA StagingStep ==
    ASSUME StagingInv, ContentTypes, FlightInv, SessionNext
    PROVE  StagingInv'
<1>0. generation \in Nat
  BY DEF StagingInv, StagingTypes
<1>1. CASE UNCHANGED stagingVars
  BY <1>1 DEF stagingVars, StagingInv, StagingTypes, StagingOK
<1>2. CASE Manager
  BY <1>2, ManagerStages DEF Manager
<1>3. CASE BootResume \/ RunRecovery
  <2>1. /\ stagingQueue' = Append(stagingQueue, "sweep")
        /\ UNCHANGED <<generation, sweep, stage>>
    BY <1>3 DEF BootResume, RunRecovery
  <2> QED BY <1>0, <2>1, QueuedBehind
<1>4. CASE HeartbeatDenied \/ SyncDenied
  <2>1. UNCHANGED <<stage, sweep, stagingQueue>> /\ generation' \in Nat
    BY <1>0, <1>4 DEF HeartbeatDenied, SyncDenied, Deprovision, Cancel
  <2> QED BY <2>1 DEF StagingInv, StagingTypes, StagingOK
<1>5. CASE SyncAnswered
  BY <1>5, AnswerStages
<1>6. CASE SyncStageFailed \/ SyncStaged
  <2>1. /\ stage.step \in {"DONE", "FAILED"} /\ stage' = NoStage
        /\ UNCHANGED <<sweep, stagingQueue>> /\ generation' \in Nat
    BY <1>0, <1>6 DEF SyncStageFailed, SyncStaged, RecoverAfter, Cancel
  <2> QED BY <2>1, StageCleared
<1>7. CASE Restart
  <2>1. generation' \in Nat /\ stage' = NoStage /\ sweep' = NoSweep /\ stagingQueue' = <<>>
    BY <1>7 DEF Restart
  <2> QED BY <2>1, StageCleared
<1> QED BY <1>1, <1>2, <1>3, <1>4, <1>5, <1>6, <1>7, StagingFrame

-----------------------------------------------------------------------------
(* The flight of a synchronization. *)

\* No synchronization is under way.
LEMMA NoSyncFields ==
    /\ NoSync.step = "IDLE" /\ NoSync.answer = None /\ NoSync.trust = None
    /\ NoSync \in Flights
BY DEF NoSync, Flights, SyncSteps

\* The flight goes on to another step, or loses its answer.
LEMMA FlightGoesOn ==
    ASSUME FlightInv, NEW step \in SyncSteps \ {"IDLE"},
           \/ sync' = [sync EXCEPT !.step = step]
           \/ sync' = [sync EXCEPT !.step = step, !.answer = None]
    PROVE  /\ sync' \in Flights /\ sync'.step = step /\ sync'.trust = sync.trust
           /\ sync'.epoch = sync.epoch /\ sync'.answer \in {sync.answer, None}
BY DEF FlightInv, FlightTypes, Flights

\* A flight under way stays for the identity it began with: its own steps,
LEMMA FlightMoves ==
    ASSUME FlightInv, StagingInv, UNCHANGED <<epoch, creds>>, NEW step \in SyncSteps \ {"IDLE"},
           sync.step # "IDLE",
           \/ sync' = [sync EXCEPT !.step = step]
           \/ sync' = [sync EXCEPT !.step = step, !.answer = None],
           stage'.step = "IDLE" \/ (step = "STAGING" /\ stage'.trust = sync.trust
                                    /\ stage'.manifest.owner = sync.trust)
    PROVE  FlightInv'
<1>1. /\ sync' \in Flights /\ sync'.step = step /\ sync'.trust = sync.trust
      /\ sync'.epoch = sync.epoch /\ sync'.answer \in {sync.answer, None}
  BY FlightGoesOn
<1> QED BY <1>1 DEF FlightInv, FlightTypes, FlightOK

\* its end,
LEMMA FlightEnds ==
    ASSUME FlightInv, UNCHANGED <<epoch, creds>>, sync' = NoSync, stage'.step = "IDLE"
    PROVE  FlightInv'
BY NoSyncFields DEF FlightInv, FlightTypes, FlightOK

\* and a new epoch, of other credentials or of none.
LEMMA FlightOutdated ==
    ASSUME FlightInv, epoch' = epoch + 1, creds' \in Keys \union {None},
           UNCHANGED <<sync, stage>>
    PROVE  FlightInv'
<1>1. epoch \in Nat /\ sync.epoch \in Nat
  BY DEF FlightInv, FlightTypes, Flights
<1>2. sync.step # "IDLE" => sync.epoch < epoch'
  BY <1>1 DEF FlightInv, FlightOK
<1> QED BY <1>1, <1>2 DEF FlightInv, FlightTypes, FlightOK

\* The first failure of an erasure ends the flight that waits for it.
LEMMA FailedErasure ==
    ASSUME NEW e \in Erasers, EraseFails(e)
    PROVE  /\ UNCHANGED <<stage, epoch, creds, shown, pairing, stateQueue, slots, cached>>
           /\ \/ UNCHANGED sync
              \/ sync' = NoSync /\ sync.step \in {"ERASING", "REVOKED"}
           /\ screen' \in {screen, "FATAL"}
           /\ \/ UNCHANGED deprovision
              \/ deprovision' = "STUCK" /\ deprovision = "CLEARING"
           /\ \A f \in Erasers : erasing'[f] \subseteq erasing[f] \/ erasing \notin [Erasers -> SUBSET Everything]
<1>1. /\ UNCHANGED <<stage, epoch, creds, shown, pairing, stateQueue, slots, cached>>
      /\ \E part \in erasing[e] : erasing' = [erasing EXCEPT ![e] = @ \ {part}]
  BY DEF EraseFails, managerVars, stagingVars
<1>2. \A f \in Erasers : erasing'[f] \subseteq erasing[f] \/ erasing \notin [Erasers -> SUBSET Everything]
  BY <1>1
<1>3. PICK awaited \in Awaited(e) :
        IF awaited
        THEN /\ screen' = "FATAL"
             /\ deprovision' = IF e = "DEPROVISION" /\ deprovision = "CLEARING" THEN "STUCK"
                               ELSE deprovision
             /\ sync' = IF \/ e = "SYNC"
                           \/ e = "DEPROVISION" /\ sync.step = "REVOKED"
                        THEN NoSync ELSE sync
        ELSE UNCHANGED <<screen, deprovision, sync>>
  BY Zenon DEF EraseFails
<1>4. e = "SYNC" => awaited = (sync.step = "ERASING")
  BY <1>3 DEF Awaited
<1> QED BY <1>1, <1>2, <1>3, <1>4

\* The flight keeps the identity it began with.
LEMMA FlightStep ==
    ASSUME SessionInv, SessionNext
    PROVE  FlightInv'
<1>0. /\ StagingInv /\ FlightInv /\ QueueOK /\ ContentTypes /\ BootOK /\ PairingInv
      /\ sync \in Flights /\ epoch \in Nat /\ creds \in Keys \union {None}
  BY DEF SessionInv, ContentInv, ScreenInv, FlightInv, FlightTypes
<1>1. CASE UNCHANGED <<stage, sync, epoch, creds>>
  BY <1>0, <1>1 DEF FlightInv, FlightTypes, FlightOK
<1>2. CASE Manager
  <2>1. Carries /\ UNCHANGED <<sync, epoch, creds>>
    BY <1>0, <1>2, ManagerStages DEF Manager, appVars
  <2> QED BY <1>0, <2>1 DEF Carries, FlightInv, FlightTypes, FlightOK
<1>3. CASE Restart
  <2>1. sync' = NoSync /\ stage' = NoStage /\ epoch' = 0 /\ creds' = None
    BY <1>3 DEF Restart
  <2> QED BY <2>1, NoSyncFields, NoStageFields DEF FlightInv, FlightTypes, FlightOK
<1>4. CASE BootResume
  <2>1. Fresh /\ UNCHANGED <<sync, stage, epoch>> /\ creds' \in {creds, stored}
    BY <1>0, <1>4 DEF BootResume, Booting, BootOK
  <2>2. stored \in Keys \union {None}
    BY <1>0 DEF PairingInv, PairingTypes
  <2> QED BY <1>0, <2>1, <2>2, NoSyncFields, NoStageFields DEF Fresh, FlightInv, FlightTypes, FlightOK
<1>5. CASE HeartbeatDenied
  <2>1. epoch' = epoch + 1 /\ creds' = None /\ UNCHANGED <<sync, stage>>
    BY <1>5 DEF HeartbeatDenied, Deprovision
  <2> QED BY <1>0, <2>1, FlightOutdated
<1>6. CASE PairFinalized
  <2>1. UNCHANGED <<sync, stage>>
    BY <1>6 DEF PairFinalized, managerVars, stagingVars
  <2>2. CASE UNCHANGED <<epoch, creds>>
    BY <1>0, <2>1, <2>2 DEF FlightInv, FlightTypes, FlightOK
  <2>3. CASE epoch' = epoch + 1 /\ creds' = pairing.key
    <3>1. pairing.key \in Keys \union {None}
      BY <1>0 DEF PairingInv, PairingTypes
    <3> QED BY <1>0, <2>1, <2>3, <3>1, FlightOutdated
  <2> QED BY <1>6, <2>2, <2>3 DEF PairFinalized
<1>7. CASE SyncAsk
  <2> DEFINE answer == IF creds \in live
                       THEN [version |-> published.version,
                             generatedAt |-> published.generatedAt, owner |-> creds]
                       ELSE None
  <2>1. /\ creds \in Keys /\ sync = NoSync /\ UNCHANGED <<stage, epoch, creds>>
        /\ sync' = [step |-> "ASKING", trust |-> creds, epoch |-> epoch, answer |-> answer]
    BY <1>0, <1>7 DEF SyncAsk, managerVars, stagingVars
  <2>2. published \in [version : Versions, generatedAt : 1 .. MaxGeneratedAt]
    BY DEF SessionInv, ServerTypes
  <2>3. answer \in Manifest \union {None} /\ (answer # None => answer.owner = creds)
    BY <2>1, <2>2 DEF Manifest
  <2> HIDE DEF answer
  <2>4. /\ sync' \in Flights /\ sync'.step = "ASKING" /\ sync'.trust = creds
        /\ sync'.epoch = epoch /\ sync'.answer = answer
    BY <1>0, <2>1, <2>3 DEF Flights, SyncSteps
  <2>5. stage'.step = "IDLE"
    BY <1>0, <2>1, NoSyncFields DEF FlightInv, FlightOK
  <2> QED BY <1>0, <2>1, <2>3, <2>4, <2>5 DEF FlightInv, FlightTypes, FlightOK
<1>8. CASE SyncLost \/ (SyncDenied /\ deprovision # "NO")
  <2>1. /\ sync.step = "ASKING" /\ UNCHANGED <<stage, epoch, creds>>
        /\ \/ sync' = [sync EXCEPT !.step = "RECOVERING", !.answer = None]
           \/ sync' = [sync EXCEPT !.step = "REVOKED"]
    BY <1>8 DEF SyncLost, SyncDenied, RecoverAfter, stagingVars
  <2>2. stage'.step = "IDLE"
    BY <1>0, <2>1 DEF FlightInv, FlightOK
  <2> QED BY <1>0, <2>1, <2>2, FlightMoves DEF SyncSteps
<1>9. CASE SyncAnswered
  <2>1. /\ sync.step = "ASKING" /\ UNCHANGED <<epoch, creds>>
        /\ sync' = [sync EXCEPT !.step = "STAGING"] /\ sync.answer # None
    BY <1>9 DEF SyncAnswered
  <2>2. stage'.trust = sync.trust /\ stage'.manifest.owner = sync.trust
    BY <1>0, <1>9, <2>1, AnswerStages DEF FlightInv, FlightOK
  <2> QED BY <1>0, <2>1, <2>2, FlightMoves DEF SyncSteps
<1>10. CASE SyncDenied /\ deprovision = "NO"
  <2>1. /\ sync.step = "ASKING" /\ sync' = [sync EXCEPT !.step = "REVOKED"]
        /\ UNCHANGED stage /\ epoch' = epoch + 1 /\ creds' = None
    BY <1>10 DEF SyncDenied, Deprovision
  <2>2. /\ sync' \in Flights /\ sync'.step = "REVOKED" /\ sync'.trust = sync.trust
        /\ sync'.epoch = sync.epoch /\ sync'.answer = sync.answer
    BY <1>0, <2>1 DEF Flights, SyncSteps
  <2>3. sync.epoch < epoch' /\ epoch' \in Nat /\ sync.epoch \in Nat
    BY <1>0, <2>1 DEF Flights, FlightInv, FlightOK
  <2>4. /\ stage'.step = "IDLE" /\ sync'.trust \in Keys
        /\ sync'.answer # None => sync'.answer.owner = sync'.trust
    BY <1>0, <2>1, <2>2 DEF FlightInv, FlightOK
  <2>5. sync'.epoch <= epoch' /\ sync'.epoch # epoch'
    BY <1>0, <2>2, <2>3
  <2> QED BY <2>1, <2>2, <2>3, <2>4, <2>5 DEF FlightInv, FlightTypes, FlightOK
<1>11. CASE SyncStageFailed
  <2>1. /\ sync.step = "STAGING" /\ stage' = NoStage /\ UNCHANGED <<epoch, creds>>
        /\ sync' = [sync EXCEPT !.step = "RECOVERING", !.answer = None]
    BY <1>11 DEF SyncStageFailed, RecoverAfter
  <2> QED BY <1>0, <2>1, NoStageFields, FlightMoves DEF SyncSteps
<1>12. CASE SyncStaged
  <2>1. /\ sync.step = "STAGING" /\ stage' = NoStage /\ UNCHANGED <<epoch, creds>>
        /\ sync' = NoSync \/ sync' = [sync EXCEPT !.step = "ERASING"]
    BY <1>12 DEF SyncStaged
  <2> QED BY <1>0, <2>1, NoStageFields, FlightMoves, FlightEnds DEF SyncSteps
<1>13. CASE SyncEnds \/ (sync' # sync /\ \E e \in Erasers : EraseFails(e))
  <2>1. /\ sync.step \in {"ERASING", "REVOKED"} /\ sync' = NoSync
        /\ UNCHANGED <<stage, epoch, creds>>
    BY <1>13, FailedErasure DEF SyncEnds, managerVars, stagingVars
  <2>2. stage'.step = "IDLE"
    BY <1>0, <2>1 DEF FlightInv, FlightOK
  <2> QED BY <1>0, <2>1, <2>2, FlightEnds
<1>14. CASE UNCHANGED sync /\ \E e \in Erasers : EraseFails(e)
  BY <1>1, <1>14, FailedErasure
<1>15. CASE RunRecovery
  <2>1. /\ stateQueue # <<>> /\ Head(stateQueue).kind = "RECOVER" /\ sync' = NoSync
        /\ UNCHANGED <<stage, epoch, creds>>
    BY <1>15 DEF RunRecovery, HeadIs
  <2>2. sync.step = "RECOVERING"
    BY <1>0, <2>1, HeadHonest DEF QueueOK, Honest
  <2>3. stage'.step = "IDLE"
    BY <1>0, <2>1, <2>2 DEF FlightInv, FlightOK
  <2> QED BY <1>0, <2>1, <2>3, FlightEnds
<1> QED BY <1>1, <1>2, <1>3, <1>4, <1>5, <1>6, <1>7, <1>8, <1>9, <1>10, <1>11, <1>12, <1>13,
           <1>14, <1>15, FlightFrame

-----------------------------------------------------------------------------
(* The state queue. *)

\* What is put behind the queue leaves the swap at its head alone.
LEMMA SwapBehind ==
    ASSUME SwapOK, UNCHANGED <<active, previous>>,
           Head(stateQueue').kind = "SWAP" =>
               stateQueue # <<>> /\ Head(stateQueue') = Head(stateQueue)
    PROVE  SwapOK'
BY DEF SwapOK

\* The deadline of a rollback is that of one of its two releases.
LEMMA DeadlineTypes ==
    ASSUME NEW m \in Manifest, NEW n \in Manifest
    PROVE  /\ RollbackDeadline(m, n) \in Nat
           /\ \/ RollbackDeadline(m, n) = Deadline[n.version]
              \/ ~Emergency(m) /\ RollbackDeadline(m, n) = Deadline[m.version]
<1> DEFINE bounds == {Deadline[x.version] : x \in {y \in {m} : ~Emergency(y)} \union {n}}
<1>1. Deadline[m.version] \in Nat /\ Deadline[n.version] \in Nat
  BY ManifestFields
<1>2. bounds \in {{Deadline[n.version]}, {Deadline[m.version], Deadline[n.version]}}
  <2>1. CASE Emergency(m)
    BY <2>1
  <2>2. CASE ~Emergency(m)
    BY <2>2
  <2> QED BY <2>1, <2>2
<1> HIDE DEF bounds
<1>3. \E d \in bounds : \A e \in bounds : d <= e
  BY <1>1, <1>2
<1>4. /\ bounds \subseteq Nat
      /\ \A d \in bounds : d = Deadline[n.version] \/ (~Emergency(m) /\ d = Deadline[m.version])
  BY <1>1 DEF bounds
<1>5. RollbackDeadline(m, n) \in bounds
  BY <1>3, Zenon DEF RollbackDeadline, bounds
<1> QED BY <1>4, <1>5

\* The operations that wait, when the queue stays as it is: nothing they depend on
\* changes under them.
LEMMA QueueWaits ==
    ASSUME SessionInv, SessionNext, UNCHANGED stateQueue
    PROVE  QueueOK'
<1>0. /\ StagingInv /\ FlightInv /\ QueueOK /\ ContentTypes /\ BootOK
      /\ sync \in Flights /\ epoch \in Nat
      /\ Queue(stateQueue, stage.step, sync.step, epoch, creds)
  BY DEF SessionInv, ContentInv, ScreenInv, FlightInv, FlightTypes, QueueOK
<1>a. ASSUME epoch' \in Nat, Activates(stage.step) => Activates(stage'.step),
             sync.step = "RECOVERING" => sync'.step = "RECOVERING",
             epoch < epoch' \/ (epoch = epoch' /\ creds = creds')
      PROVE  QueueOK'
  <2>1. Queue(stateQueue, stage'.step, sync'.step, epoch', creds')
    BY <1>0, <1>a, QueueKept
  <2> QED BY <2>1 DEF QueueOK
<1>b. ASSUME stateQueue = <<>> PROVE QueueOK'
  BY <1>b, QueueEmpty DEF QueueOK
<1>1. CASE UNCHANGED <<stage, sync, epoch, creds>>
  BY <1>0, <1>1, <1>a
<1>2. CASE Manager
  <2>1. UNCHANGED <<sync, epoch, creds>>
    BY <1>2 DEF Manager, appVars
  <2>2. stateQueue # <<>> => stateQueue # Tail(stateQueue)
    <3>1. ASSUME stateQueue # <<>>, stateQueue = Tail(stateQueue) PROVE FALSE
      <4>1. stateQueue \in Seq(Ops)
        BY <1>0 DEF Queue
      <4>2. Len(stateQueue) = Len(stateQueue) - 1 /\ Len(stateQueue) \in Nat
        BY <3>1, <4>1, Popped
      <4> QED BY <4>2
    <3> QED BY <3>1
  <2>3. CASE Activate
    <3>1. stage' = [stage EXCEPT !.step = "CLEARED", !.result = StageResult]
      BY <2>2, <2>3 DEF Activate, Tidy
    <3>2. stage'.step = "CLEARED"
      BY <1>0, <3>1 DEF StagingInv, StagingTypes, Staged
    <3> QED BY <1>0, <1>a, <2>1, <3>2 DEF Activates
  <2>4. ~ActivateCleared
    BY <2>2 DEF ActivateCleared, Tidy
  <2>5. CASE ~Activate
    <3>1. Steady
      BY <1>0, <1>2, <2>4, <2>5, ManagerStages DEF Manager
    <3> QED BY <1>0, <1>a, <2>1, <3>1 DEF Steady
  <2> QED BY <2>3, <2>5
<1>3. CASE Restart \/ BootResume
  <2>1. stateQueue = <<>>
    BY <1>0, <1>3 DEF Restart, BootResume, Booting, BootOK, Fresh
  <2> QED BY <1>b, <2>1
<1>4. CASE HeartbeatDenied \/ PairFinalized
  <2>1. /\ UNCHANGED <<stage, sync>>
        /\ epoch' = epoch + 1 \/ UNCHANGED <<epoch, creds>>
    BY <1>4 DEF HeartbeatDenied, PairFinalized, Deprovision, managerVars, stagingVars
  <2>2. epoch' \in Nat /\ (epoch < epoch' \/ (epoch = epoch' /\ creds = creds'))
    BY <1>0, <2>1
  <2> QED BY <1>a, <2>1, <2>2
<1>5. CASE SyncDenied
  <2>1. /\ UNCHANGED stage /\ sync.step = "ASKING"
        /\ epoch' = epoch + 1 \/ UNCHANGED <<epoch, creds>>
    BY <1>5 DEF SyncDenied, Deprovision
  <2>2. epoch' \in Nat /\ (epoch < epoch' \/ (epoch = epoch' /\ creds = creds'))
    BY <1>0, <2>1
  <2> QED BY <1>a, <2>1, <2>2
<1>6. CASE SyncAsk \/ SyncAnswered \/ SyncStaged \/ SyncEnds
  <2>1. /\ UNCHANGED <<epoch, creds>> /\ sync.step # "RECOVERING"
        /\ UNCHANGED stage \/ stage.step = "IDLE" \/ stage.step = "DONE"
    <3>1. CASE SyncAsk \/ SyncEnds
      BY <3>1, NoSyncFields DEF SyncAsk, SyncEnds, managerVars, stagingVars
    <3>2. CASE SyncAnswered
      BY <1>0, <3>2, AnswerStages, NoStageFields DEF SyncAnswered
    <3>3. CASE SyncStaged
      BY <3>3 DEF SyncStaged
    <3> QED BY <1>6, <3>1, <3>2, <3>3
  <2> QED BY <1>0, <1>a, <2>1 DEF Activates
<1>7. CASE SyncLost \/ SyncStageFailed
  <2>1. /\ UNCHANGED <<epoch, creds>> /\ sync.step # "RECOVERING"
        /\ UNCHANGED stage \/ stage.step = "FAILED"
    BY <1>7 DEF SyncLost, SyncStageFailed, RecoverAfter, stagingVars
  <2> QED BY <1>0, <1>a, <2>1 DEF Activates
<1>8. CASE \E e \in Erasers : EraseFails(e)
  <2>1. /\ UNCHANGED <<stage, epoch, creds>>
        /\ UNCHANGED sync \/ sync.step # "RECOVERING"
    BY <1>8, FailedErasure
  <2> QED BY <1>0, <1>a, <2>1
<1>9. CASE RunRecovery
  <2>1. stateQueue # <<>> /\ stateQueue \in Seq(Ops) /\ stateQueue = Tail(stateQueue)
    BY <1>0, <1>9 DEF RunRecovery, HeadIs, Queue
  <2>2. Len(stateQueue) = Len(stateQueue) - 1 /\ Len(stateQueue) \in Nat
    BY <2>1, Popped
  <2> QED BY <2>2
<1> QED BY <1>1, <1>2, <1>3, <1>4, <1>5, <1>6, <1>7, <1>8, <1>9, FlightFrame

\* An operation joins the queue.
LEMMA QueueJoined ==
    ASSUME SessionInv, NEW x \in Ops, stateQueue' = Append(stateQueue, x), x.kind # "SWAP",
           UNCHANGED <<active, previous, epoch, creds>>,
           Honest(x, stage'.step, sync'.step, epoch, creds),
           ~Activates(stage.step) \/ (UNCHANGED stage /\ x.kind # "ACTIVATE"),
           sync.step # "RECOVERING" \/ (UNCHANGED sync /\ x.kind # "RECOVER")
    PROVE  QueueOK' /\ SwapOK'
<1>0. /\ epoch \in Nat /\ SwapOK
      /\ Queue(stateQueue, stage.step, sync.step, epoch, creds)
  BY DEF SessionInv, FlightInv, FlightTypes, QueueOK
<1>1. /\ Queue(Append(stateQueue, x), stage'.step, sync'.step, epoch, creds)
      /\ Head(Append(stateQueue, x)).kind = "SWAP" =>
              stateQueue # <<>> /\ Head(Append(stateQueue, x)) = Head(stateQueue)
  BY <1>0, QueueGrows
<1>2. QueueOK'
  BY <1>1 DEF QueueOK
<1> QED BY <1>0, <1>1, <1>2, SwapBehind

\* The head of the queue has been run.
LEMMA QueueRun ==
    ASSUME SessionInv, stateQueue # <<>>, stateQueue' = Tail(stateQueue),
           UNCHANGED <<epoch, creds>>,
           Head(stateQueue).kind = "ACTIVATE" \/ UNCHANGED stage,
           Head(stateQueue).kind = "RECOVER" \/ UNCHANGED sync
    PROVE  QueueOK' /\ SwapOK'
<1>0. epoch \in Nat /\ Queue(stateQueue, stage.step, sync.step, epoch, creds)
  BY DEF SessionInv, FlightInv, FlightTypes, QueueOK
<1>1. /\ Queue(Tail(stateQueue), stage'.step, sync'.step, epoch, creds)
      /\ Tail(stateQueue) # <<>> => Head(Tail(stateQueue)).kind # "SWAP"
  BY <1>0, QueueShrinks
<1> QED BY <1>1 DEF QueueOK, SwapOK

\* What waits for the slots stays what it was, and a swap may still be made.
LEMMA QueueStep ==
    ASSUME SessionInv, SessionNext
    PROVE  QueueOK' /\ SwapOK'
<1>0. /\ StagingInv /\ FlightInv /\ QueueOK /\ SwapOK /\ BootOK /\ ContentTypes
      /\ stateQueue \in Seq(Ops) /\ sync \in Flights /\ epoch \in Nat
      /\ creds \in Keys \union {None}
  BY DEF SessionInv, FlightInv, FlightTypes, ContentInv, ScreenInv, QueueOK, Queue
<1>1. CASE PrefetchEnd /\ UNCHANGED <<serverVars, diskVars, appVars>>
  <2>1. stage.step = "PREFETCH" /\ UNCHANGED slots
    BY <1>1 DEF PrefetchEnd
  <2>2. CASE UNCHANGED stateQueue
    BY <1>0, <2>1, <2>2, QueueWaits DEF SwapOK, slots
  <2>3. CASE stateQueue' = Append(stateQueue, Activation) /\ stage' = [stage EXCEPT !.step = "ACTIVATING"]
    <3>1. stage'.step = "ACTIVATING"
      BY <1>0, <2>3 DEF StagingInv, StagingTypes, Staged
    <3>2. Activation \in Ops /\ Activation.kind = "ACTIVATE"
      BY DEF Activation, Ops
    <3>3. UNCHANGED <<sync, epoch, creds>>
      BY <1>1 DEF appVars
    <3>4. Honest(Activation, stage'.step, sync'.step, epoch, creds)
      BY <3>1, <3>2 DEF Honest, Activates
    <3>5. ~Activates(stage.step)
      BY <2>1, <3>3 DEF Activates
    <3> QED BY <2>1, <2>3, <3>2, <3>3, <3>4, <3>5, QueueJoined DEF slots, Activates
  <2> QED BY <1>1, <2>2, <2>3 DEF PrefetchEnd
<1>2. CASE (Activate \/ ActivateCleared) /\ UNCHANGED <<serverVars, diskVars, appVars>>
  <2>1. /\ stateQueue # <<>> /\ Head(stateQueue).kind = "ACTIVATE"
        /\ stateQueue' = Tail(stateQueue) \/ UNCHANGED stateQueue
    BY <1>2 DEF Activate, ActivateCleared, Tidy
  <2>2. UNCHANGED <<sync, epoch, creds>>
    BY <1>2 DEF appVars
  <2>3. CASE stateQueue' = Tail(stateQueue)
    BY <2>1, <2>2, <2>3, QueueRun
  <2>4. CASE UNCHANGED stateQueue
    BY <2>1, <2>4, QueueWaits DEF SwapOK
  <2> QED BY <2>1, <2>3, <2>4
<1>3. CASE Restart
  BY <1>3, QueueEmpty DEF Restart, QueueOK, SwapOK
<1>4. CASE SyncLost \/ SyncStageFailed
  <2>1. /\ sync.step \in {"ASKING", "STAGING"}
        /\ sync' = [sync EXCEPT !.step = "RECOVERING", !.answer = None]
        /\ stateQueue' = Append(stateQueue, Recovery(sync.trust, sync.epoch))
        /\ UNCHANGED <<active, previous, epoch, creds>>
        /\ UNCHANGED stage \/ stage.step = "FAILED"
    BY <1>4 DEF SyncLost, SyncStageFailed, RecoverAfter, slots, stagingVars
  <2>2. sync'.step = "RECOVERING"
    BY <1>0, <2>1 DEF Flights
  <2>3. /\ sync.trust \in Keys /\ sync.epoch \in Nat /\ sync.epoch <= epoch
        /\ sync.epoch = epoch => creds = sync.trust
    BY <1>0, <2>1 DEF FlightInv, FlightOK, Flights
  <2> DEFINE op == Recovery(sync.trust, sync.epoch)
  <2>4. /\ op \in Ops /\ op.kind = "RECOVER" /\ op.trust = sync.trust /\ op.epoch = sync.epoch
    BY <2>3 DEF Recovery, Ops
  <2>5. stateQueue' = Append(stateQueue, op)
    BY <2>1
  <2> HIDE DEF op
  <2>6. Honest(op, stage'.step, sync'.step, epoch, creds)
    BY <2>2, <2>3, <2>4 DEF Honest
  <2> QED BY <2>1, <2>4, <2>5, <2>6, QueueJoined DEF Activates
<1>5. CASE PlaybackError \/ EmergencyEnds
  <2>1. PICK cause \in Causes :
           /\ stateQueue' = Append(stateQueue, Rollback(creds, shown.version, epoch, cause))
           /\ shown # None /\ creds # None
           /\ UNCHANGED <<active, previous, epoch, creds, stage, sync>>
    BY <1>5 DEF PlaybackError, EmergencyEnds, slots, stagingVars, appVars, Causes
  <2> DEFINE op == Rollback(creds, shown.version, epoch, cause)
  <2>2. shown \in Manifest /\ shown.version \in Versions
    BY <2>1, ManifestFields DEF SessionInv, ShownInv
  <2>3. op \in Ops /\ op.kind = "ROLLBACK" /\ op.trust = creds /\ op.epoch = epoch
    BY <1>0, <2>1, <2>2 DEF Rollback, Ops
  <2>4. stateQueue' = Append(stateQueue, op)
    BY <2>1
  <2> HIDE DEF op
  <2>5. Honest(op, stage'.step, sync'.step, epoch, creds)
    BY <1>0, <2>3 DEF Honest
  <2> QED BY <2>1, <2>3, <2>4, <2>5, QueueJoined
<1>6. CASE RunRecovery
  <2>1. /\ stateQueue # <<>> /\ stateQueue' = Tail(stateQueue)
        /\ Head(stateQueue).kind = "RECOVER" /\ UNCHANGED <<epoch, creds, stage>>
    BY <1>6 DEF RunRecovery, HeadIs
  <2> QED BY <2>1, QueueRun
<1>7. CASE RunRollback
  <2> DEFINE op == Head(stateQueue)
             swap == Swap(op, RollbackDeadline(active, previous))
  <2>1. stateQueue # <<>> /\ op.kind = "ROLLBACK" /\ UNCHANGED <<epoch, creds, stage, sync>>
    BY <1>7 DEF RunRollback, HeadIs, stagingVars
  <2>2. CASE stateQueue' = Tail(stateQueue)
    BY <2>1, <2>2, QueueRun
  <2>3. CASE /\ Swaps(op.trust, op.expected) /\ stateQueue' = <<swap>> \o Tail(stateQueue)
             /\ UNCHANGED slots
    <3>1. op \in Ops
      BY <1>0, <2>1, HeadHonest DEF QueueOK
    <3>2. Verified(active, op.trust) /\ Verified(previous, op.trust)
      BY <2>3 DEF Swaps
    <3>3. /\ RollbackDeadline(active, previous) \in Nat
          /\ \/ RollbackDeadline(active, previous) = Deadline[previous.version]
             \/ /\ ~Emergency(active)
                /\ RollbackDeadline(active, previous) = Deadline[active.version]
      BY <1>0, <3>2, DeadlineTypes DEF ContentTypes, Verified
    <3>4. /\ swap \in Ops /\ swap.kind = "SWAP" /\ swap.trust = op.trust /\ swap.epoch = op.epoch
          /\ swap.until = RollbackDeadline(active, previous)
      BY <2>1, <3>1, <3>3, MakeSwap
    <3> HIDE DEF swap
    <3>5. /\ Queue(stateQueue', stage.step, sync.step, epoch, creds) /\ Head(stateQueue') = swap
      BY <1>0, <2>1, <2>3, <3>4, QueueSwaps DEF QueueOK
    <3>6. QueueOK'
      BY <2>1, <3>5 DEF QueueOK
    <3>7. Swappable(swap, active', previous')
      BY <2>3, <3>2, <3>3, <3>4 DEF Swappable, slots
    <3> QED BY <3>5, <3>6, <3>7 DEF SwapOK
  <2> QED BY <1>7, <2>2, <2>3 DEF RunRollback, RolledBack
<1>8. CASE RunSwap \/ RollbackThrows
  <2>1. /\ stateQueue # <<>> /\ stateQueue' = Tail(stateQueue)
        /\ UNCHANGED <<epoch, creds, stage, sync>>
    BY <1>8 DEF RunSwap, RollbackThrows, RolledBack, HeadIs, stagingVars
  <2> QED BY <2>1, QueueRun
<1>9. CASE /\ UNCHANGED stateQueue
           /\ ~((Activate \/ ActivateCleared) /\ UNCHANGED <<serverVars, diskVars, appVars>>)
           /\ ~(RunRecovery \/ RunRollback \/ RunSwap)
  <2>1. QueueOK'
    BY <1>9, QueueWaits
  <2>2. CASE UNCHANGED slots
    BY <1>0, <1>9, <2>1, <2>2 DEF SwapOK, slots
  <2>3. CASE \E e \in Erasers : EraseStore(e)
    BY <1>0, <1>9, <2>1, <2>3 DEF SwapOK, EraseStore, Swappable
  <2>4. CASE BootResume
    BY <1>0, <2>1, <2>4 DEF BootResume, Booting, BootOK, Fresh, SwapOK
  <2>5. ASSUME SweepDelete \/ (\E a \in Assets : PrefetchLand(a)) \/ \E e \in Erasers : EraseAssets(e)
        PROVE  UNCHANGED slots
    BY <2>5 DEF SweepDelete, PrefetchLand, EraseAssets
  <2> QED BY <1>9, <2>2, <2>3, <2>4, <2>5, ContentFrame
<1> QED BY <1>1, <1>2, <1>3, <1>4, <1>5, <1>6, <1>7, <1>8, <1>9, QueueFrame

-----------------------------------------------------------------------------
(* The slots and the screen. *)

\* An operation on the slots leaves releases that were in them, and a baseline.
LEMMA OutcomeOfSlots ==
    ASSUME ContentInv, NEW o, NEW trust, NEW expected, NEW until,
           o \in {RecoverOutcome(trust), RollbackOutcome(trust, expected),
                  SwapOutcome(expected, until)}
    PROVE  /\ o.active \in {active, previous, None} /\ o.previous \in {previous, None}
           /\ o.result \in {active, previous, None} /\ Baseline(o.active, o.previous)
<1>1. o \in {Blank, Drop, Keep(active), Keep(None), Restore}
  BY DEF RecoverOutcome, RollbackOutcome, SwapOutcome, PlayableOrNone
<1> QED BY <1>1 DEF Blank, Drop, Keep, Restore, Outcome, ContentInv, BaselineOK, Baseline

\* What a recovery or a rollback shows was verified for the identity it runs for.
LEMMA ResultIsVerified ==
    ASSUME NEW o, NEW trust, NEW expected,
           o \in {RecoverOutcome(trust), RollbackOutcome(trust, expected)}, o.result # None
    PROVE  Verified(o.result, trust)
<1>1. CASE ~Verified(active, trust)
  BY <1>1 DEF RecoverOutcome, RollbackOutcome, Blank, Outcome
<1>2. CASE Verified(active, trust)
  <2>1. o \in {Blank, Drop, Keep(active), Keep(None)} \/ (o = Restore /\ Verified(previous, trust))
    BY <1>2 DEF RecoverOutcome, RollbackOutcome, PlayableOrNone
  <2> QED BY <1>2, <2>1 DEF Blank, Drop, Keep, Restore, Outcome
<1> QED BY <1>1, <1>2

\* An activation puts the staged release into the active slot, and leaves no release
\* there that is newer; slots that do not verify are blanked.
LEMMA ActivateSlots ==
    ASSUME ContentInv, StagingInv, FlightInv, ClearedOK, Activate \/ ActivateCleared
    PROVE  \/ UNCHANGED slots
           \/ active' = None /\ previous' = None
           \/ /\ active' = stage.manifest /\ active' \in Manifest /\ active'.owner = stage.trust
              /\ previous' \in {active, previous, None} /\ Baseline(active', previous')
              /\ NotOlder(stage.manifest, active)
<1>1. stage.manifest \in Manifest /\ stage.manifest.owner = stage.trust /\ stage.manifest # None
  BY NotNone DEF Activate, ActivateCleared, StagingInv, StagingOK, FlightInv, FlightOK
<1>2. \/ UNCHANGED slots
      \/ Apply(Blank)
      \/ Activated(stage.manifest) /\ NotOlder(stage.manifest, active)
  <2>1. CASE Activate
    <3>1. \/ UNCHANGED slots
          \/ Apply(Blank)
          \/ /\ Activated(stage.manifest)
             /\ ~(Verified(active, stage.trust) /\ ~NotOlder(stage.manifest, active))
             /\ ~(active # None /\ ~Verified(active, stage.trust))
      BY <2>1 DEF Activate
    <3> QED BY <3>1 DEF NotOlder
  <2>2. CASE ActivateCleared
    <3>1. active = None /\ (UNCHANGED slots \/ Activated(stage.manifest))
      BY <2>2 DEF ActivateCleared, ClearedOK
    <3> QED BY <3>1 DEF NotOlder
  <2> QED BY <2>1, <2>2
<1>3. CASE Apply(Blank)
  BY <1>3 DEF Apply, Blank, Outcome
<1>4. CASE Activated(stage.manifest) /\ NotOlder(stage.manifest, active)
  <2>1. active' = stage.manifest /\ previous' \in {active, previous, None}
    BY <1>4 DEF Activated
  <2>2. Baseline(active', previous')
    BY <1>1, <1>4 DEF Activated, ContentInv, BaselineOK, Baseline
  <2> QED BY <1>1, <1>4, <2>1, <2>2
<1> QED BY <1>2, <1>3, <1>4

\* Every other step leaves in the slots what was in them, or less.
LEMMA SlotsShrink ==
    ASSUME ContentInv, SessionNext, ~Activate, ~ActivateCleared
    PROVE  active' \in {active, previous, None} /\ previous' \in {previous, None}
<1>1. CASE UNCHANGED slots
  BY <1>1 DEF slots
<1>2. CASE SweepDelete \/ \E a \in Assets : PrefetchLand(a)
  BY <1>1, <1>2 DEF SweepDelete, PrefetchLand
<1>3. CASE \E e \in Erasers : EraseStore(e) \/ EraseAssets(e)
  BY <1>1, <1>3 DEF EraseStore, EraseAssets
<1>4. ASSUME NEW o, NEW trust, NEW expected, NEW until, Apply(o),
             o \in {RecoverOutcome(trust), RollbackOutcome(trust, expected),
                    SwapOutcome(expected, until)}
      PROVE  active' \in {active, previous, None} /\ previous' \in {previous, None}
  BY <1>4, OutcomeOfSlots DEF Apply
<1>5. CASE BootResume
  BY <1>4, <1>5 DEF BootResume
<1>6. CASE RunRecovery
  BY <1>4, <1>6 DEF RunRecovery
<1>7. CASE RunRollback
  BY <1>1, <1>4, <1>7 DEF RunRollback
<1>8. CASE RunSwap
  BY <1>4, <1>8 DEF RunSwap
<1> QED BY <1>1, <1>2, <1>3, <1>5, <1>6, <1>7, <1>8, ContentFrame

\* While an activation waits to fill the slots it blanked, nothing else does.
LEMMA ClearedStep ==
    ASSUME SessionInv, SessionNext
    PROVE  ClearedOK'
<1>0. StagingInv /\ ContentInv /\ ContentTypes /\ ClearedOK /\ stage \in Staged
  BY DEF SessionInv, ContentInv, StagingInv, StagingTypes
<1> SUFFICES ASSUME stage'.step = "CLEARED" PROVE active' = None /\ previous' = None
  BY DEF ClearedOK
<1>1. CASE Activate
  <2>1. CASE stage' = [stage EXCEPT !.step = "CLEARED", !.result = StageResult] /\ Apply(Blank)
    BY <2>1 DEF Apply, Blank, Outcome
  <2>2. CASE Finish("FAILED")
    BY <1>0, <2>2 DEF Finish, Staged
  <2>3. CASE Tidy(StageResult)
    BY <1>0, <2>3 DEF Tidy, Staged
  <2> QED BY <1>1, <2>1, <2>2, <2>3 DEF Activate
<1>2. ~ActivateCleared
  <2>1. ~Finish("FAILED")
    BY <1>0 DEF Finish, Staged
  <2>2. ~Tidy(stage.result)
    BY <1>0 DEF Tidy, Staged
  <2> QED BY <2>1, <2>2 DEF ActivateCleared
<1>3. CASE ~Activate
  <2>1. stage.step = "CLEARED"
    <3>1. CASE UNCHANGED stage
      BY <3>1
    <3>2. CASE Manager
      BY <1>0, <1>2, <1>3, <3>2, ManagerStages DEF Manager, Steady
    <3>3. CASE stage' = NoStage
      BY <3>3, NoStageFields
    <3>4. ~SyncAnswered
      BY DEF SyncAnswered, EnqueueStage, NoStage
    <3>5. ASSUME Restart \/ BootResume \/ HeartbeatDenied \/ SyncDenied \/ SyncStageFailed
                 \/ SyncStaged \/ RunRecovery
          PROVE  UNCHANGED stage \/ stage' = NoStage
      BY <3>5 DEF Restart, BootResume, HeartbeatDenied, SyncDenied, SyncStageFailed, SyncStaged,
         RunRecovery
    <3> QED BY <3>1, <3>2, <3>3, <3>4, <3>5, StagingFrame DEF stagingVars
  <2>2. active = None /\ previous = None
    BY <1>0, <2>1 DEF ClearedOK
  <2> QED BY <1>0, <1>2, <1>3, <2>2, SlotsShrink
<1> QED BY <1>1, <1>3

\* The slots have a baseline that is not withdrawn, and none beside a withdrawal.
LEMMA ContentStep ==
    ASSUME SessionInv, SessionNext
    PROVE  ContentInv'
<1>0. /\ active \in Manifest \union {None} /\ previous \in Manifest \union {None}
      /\ cached \in SUBSET Assets /\ BaselineOK /\ ContentInv /\ StagingInv /\ ClearedOK /\ FlightInv
  BY DEF SessionInv, ContentInv, ContentTypes
<1>1. CASE UNCHANGED <<slots, cached>>
  BY <1>0, <1>1 DEF slots, ContentInv, ContentTypes, BaselineOK
<1>2. CASE SweepDelete \/ \E a \in Assets : PrefetchLand(a)
  <2>1. UNCHANGED slots /\ cached' \in SUBSET Assets
    BY <1>0, <1>2 DEF SweepDelete, PrefetchLand, Retained
  <2> QED BY <1>0, <2>1 DEF slots, ContentInv, ContentTypes, BaselineOK
<1>3. CASE Activate \/ ActivateCleared
  <2>1. UNCHANGED cached
    BY <1>3 DEF Activate, ActivateCleared
  <2> QED BY <1>0, <1>3, <2>1, ActivateSlots DEF slots, ContentInv, ContentTypes, BaselineOK, Baseline
<1>4. CASE \E e \in Erasers : EraseStore(e) \/ EraseAssets(e)
  BY <1>0, <1>4 DEF EraseStore, EraseAssets, slots, ContentInv, ContentTypes, BaselineOK, Baseline
<1>5. CASE BootResume \/ RunRecovery \/ RunRollback \/ RunSwap
  <2>1. UNCHANGED cached
    BY <1>5 DEF BootResume, RunRecovery, RunRollback, RunSwap
  <2>2. CASE UNCHANGED slots
    BY <1>0, <2>1, <2>2 DEF slots, ContentInv, ContentTypes, BaselineOK
  <2>3. ASSUME NEW o, NEW trust, NEW expected, NEW until, Apply(o),
               o \in {RecoverOutcome(trust), RollbackOutcome(trust, expected),
                      SwapOutcome(expected, until)}
        PROVE  ContentInv'
    BY <1>0, <2>1, <2>3, OutcomeOfSlots DEF Apply, ContentInv, ContentTypes, BaselineOK
  <2>4. \/ UNCHANGED slots
        \/ \E trust, expected, until :
               \/ Apply(RecoverOutcome(trust)) \/ Apply(RollbackOutcome(trust, expected))
               \/ Apply(SwapOutcome(expected, until))
    <3>1. CASE BootResume
      BY <3>1 DEF BootResume
    <3>2. CASE RunRecovery
      BY <3>2 DEF RunRecovery
    <3>3. CASE RunRollback
      BY <3>3 DEF RunRollback
    <3>4. CASE RunSwap
      BY <3>4 DEF RunSwap
    <3> QED BY <1>5, <3>1, <3>2, <3>3, <3>4
  <2>5. CASE \E trust, expected, until :
               \/ Apply(RecoverOutcome(trust)) \/ Apply(RollbackOutcome(trust, expected))
               \/ Apply(SwapOutcome(expected, until))
    BY <2>3, <2>5
  <2> QED BY <2>2, <2>4, <2>5
<1> QED BY <1>1, <1>2, <1>3, <1>4, <1>5, ContentFrame

-----------------------------------------------------------------------------
(* The boot. *)

\* No pairing is under way.
LEMMA NoPairingFields ==
    NoPairing.step = "IDLE" /\ NoPairing.key = None
BY DEF NoPairing

\* Nothing happens to an application that boots but its boot.
LEMMA FreshStays ==
    ASSUME SessionInv, Fresh, SessionNext
    PROVE  Fresh' \/ (BootErased /\ screen' = "READY") \/ (BootResume /\ screen' = "READY")
<1>0. /\ creds = None /\ shown = None /\ sync.step = "IDLE" /\ stage.step = "IDLE"
      /\ stateQueue = <<>> /\ pairing.step = "IDLE" /\ deprovision = "NO" /\ screen # "READY"
      /\ sync = NoSync /\ stage = NoStage /\ pairing = NoPairing /\ stage.fetching = {}
  BY NoSyncFields, NoStageFields, NoPairingFields DEF Fresh
<1>1. CASE Manager
  <2>1. UNCHANGED stage
    BY <1>0, <1>1, ManagerStages DEF Manager, Carries, SessionInv, ContentInv
  <2>2. UNCHANGED stateQueue
    BY <1>0, <1>1, QueueFrame DEF PrefetchEnd, Activate, ActivateCleared, Restart, SyncLost,
       SyncStageFailed, RecoverAfter, PlaybackError, EmergencyEnds, RunRecovery, RunRollback,
       RunSwap, RollbackThrows, HeadIs
  <2> QED BY <1>0, <1>1, <2>1, <2>2 DEF Manager, Fresh, appVars
<1>2. CASE Environment
  BY <1>0, <1>2 DEF Environment, Tick, Publish, Revoke, Approve, Restart, Fresh, appVars,
     managerVars, stagingVars
<1>3. CASE Erasure
  <2>1. CASE \E e \in Erasers : EraseFails(e)
    BY <1>0, <2>1, FailedErasure DEF Fresh
  <2>2. CASE \E e \in Erasers : EraseStore(e) \/ EraseAssets(e)
    BY <1>0, <2>2 DEF EraseStore, EraseAssets, Fresh, stagingVars
  <2> QED BY <1>3, <2>1, <2>2 DEF Erasure
<1>4. CASE Boot
  BY <1>0, <1>4 DEF Boot, BootErase, BootErased, BootResume, Fresh, managerVars, stagingVars
<1>5. CASE Pair
  BY <1>0, <1>5 DEF Pair, PairSave, PairPoll, PairRejected, PairActivated, PairFinalized,
     RotateGenerate, RotateCommit, PairingForm
<1>6. CASE Session
  BY <1>0, <1>6, NotNone DEF Session, HeartbeatDenied, Deprovisioned, SyncAsk, SyncLost, SyncAnswered,
     SyncDenied, SyncStageFailed, SyncStaged, SyncEnds, PlaybackError, EmergencyEnds,
     PlaybackEnds, RunRecovery, RunRollback, RunSwap, RollbackThrows, RecoverAfter, HeadIs
<1> QED BY <1>1, <1>2, <1>3, <1>4, <1>5, <1>6 DEF SessionNext

BootRuns == screen \in {"BOOT", "ERASING"} \/ erasing["BOOT"] # {}

\* Only a restart begins a boot.
LEMMA BootBegins ==
    ASSUME ScreenTypes, SessionNext, ~BootRuns
    PROVE  ~BootRuns' \/ Restart
<1>0. /\ screen \notin {"BOOT", "ERASING"} /\ erasing["BOOT"] = {}
      /\ erasing \in [Erasers -> SUBSET Everything] /\ "BOOT" \in Erasers
      /\ "SYNC" \in Erasers /\ "DEPROVISION" \in Erasers
  BY DEF BootRuns, ScreenTypes, Erasers
<1>1. CASE UNCHANGED <<screen, erasing, deprovision>>
  BY <1>0, <1>1 DEF BootRuns
<1>2. CASE \E e \in Erasers : EraseStore(e) \/ EraseAssets(e) \/ EraseFails(e)
  <2>1. PICK e \in Erasers, part \in Everything : erasing' = [erasing EXCEPT ![e] = @ \ {part}]
    BY <1>0, <1>2 DEF EraseStore, EraseAssets, EraseFails, Everything
  <2>2. erasing'["BOOT"] = {}
    BY <1>0, <2>1
  <2>3. screen' \in {screen, "FATAL"}
    BY <1>2, FailedErasure DEF EraseStore, EraseAssets
  <2> QED BY <1>0, <2>2, <2>3 DEF BootRuns
<1>3. CASE BootErase \/ BootErased \/ BootResume
  BY <1>0, <1>3 DEF BootErase, BootErased, BootResume, Booting
<1>4. CASE HeartbeatDenied \/ SyncDenied
  <2>1. \/ UNCHANGED <<screen, erasing>>
        \/ screen' = "READY" /\ erasing' = [erasing EXCEPT !["DEPROVISION"] = Everything]
    BY <1>4 DEF HeartbeatDenied, SyncDenied, Deprovision
  <2> QED BY <1>0, <2>1 DEF BootRuns
<1>5. CASE SyncStaged
  <2>1. /\ screen' \in {screen, "READY"}
        /\ \/ UNCHANGED erasing
           \/ erasing' = [erasing EXCEPT !["SYNC"] = Everything]
    BY <1>5 DEF SyncStaged
  <2> QED BY <1>0, <2>1 DEF BootRuns
<1>6. CASE Deprovisioned \/ PairFinalized
  BY <1>0, <1>6 DEF Deprovisioned, PairFinalized, BootRuns
<1>7. CASE RunRollback \/ RunSwap \/ RollbackThrows
  BY <1>0, <1>7 DEF RunRollback, RunSwap, RollbackThrows, RolledBack, BootRuns
<1> QED BY <1>1, <1>2, <1>3, <1>4, <1>5, <1>6, <1>7, ScreenFrame

\* Nothing is under way before the boot is over.
LEMMA ScreenStep ==
    ASSUME SessionInv, SessionNext
    PROVE  ScreenInv'
<1>0. ScreenTypes /\ BootOK
  BY DEF SessionInv, ScreenInv
<1>1. BootOK'
  <2>1. CASE BootRuns
    <3>1. Fresh
      BY <1>0, <2>1 DEF BootOK, BootRuns
    <3>2. CASE (BootErased \/ BootResume) /\ screen' = "READY"
      BY <3>2 DEF BootErased, BootResume, Booting, BootOK
    <3> QED BY <3>1, <3>2, FreshStays DEF BootOK
  <2>2. CASE Restart
    BY <2>2 DEF Restart, BootOK, Fresh
  <2>3. CASE ~BootRuns'
    BY <2>3 DEF BootRuns, BootOK
  <2> QED BY <1>0, <2>1, <2>2, <2>3, BootBegins
<1>2. ScreenTypes'
  <2>0. /\ screen \in {"BOOT", "ERASING", "READY", "FATAL"}
        /\ erasing \in [Erasers -> SUBSET Everything]
        /\ deprovision \in {"NO", "CLEARING", "STUCK"}
    BY <1>0 DEF ScreenTypes
  <2>1. CASE UNCHANGED <<screen, erasing, deprovision>>
    BY <2>0, <2>1 DEF ScreenTypes
  <2>2. CASE \E e \in Erasers : EraseStore(e) \/ EraseAssets(e) \/ EraseFails(e)
    <3>1. PICK e \in Erasers, part \in Everything : erasing' = [erasing EXCEPT ![e] = @ \ {part}]
      BY <2>0, <2>2 DEF EraseStore, EraseAssets, EraseFails, Everything
    <3>2. erasing' \in [Erasers -> SUBSET Everything]
      BY <2>0, <3>1
    <3>3. screen' \in {screen, "FATAL"} /\ deprovision' \in {deprovision, "STUCK"}
      BY <2>2, FailedErasure DEF EraseStore, EraseAssets
    <3> QED BY <2>0, <3>2, <3>3 DEF ScreenTypes
  <2>3. CASE Restart
    BY <2>3 DEF Restart, ScreenTypes
  <2>4. CASE BootErase
    <3>1. screen' = "ERASING" /\ UNCHANGED deprovision
      BY <2>4 DEF BootErase
    <3>2. \E left \in SUBSET Everything : erasing' = [erasing EXCEPT !["BOOT"] = left]
      BY <2>4 DEF BootErase, Everything
    <3> QED BY <2>0, <3>1, <3>2 DEF ScreenTypes
  <2>5. CASE BootErased \/ BootResume \/ Deprovisioned \/ PairFinalized
    BY <2>0, <2>5 DEF BootErased, BootResume, Deprovisioned, PairFinalized, ScreenTypes
  <2>6. CASE HeartbeatDenied \/ SyncDenied \/ SyncStaged
    <3>1. screen' \in {screen, "READY"} /\ deprovision' \in {deprovision, "CLEARING"}
      BY <2>6 DEF HeartbeatDenied, SyncDenied, SyncStaged, Deprovision
    <3>2. \/ UNCHANGED erasing
          \/ \E e \in Erasers : erasing' = [erasing EXCEPT ![e] = Everything]
      BY <2>6 DEF HeartbeatDenied, SyncDenied, SyncStaged, Deprovision, Erasers
    <3> QED BY <2>0, <3>1, <3>2 DEF ScreenTypes
  <2>7. CASE RunRollback \/ RunSwap \/ RollbackThrows
    <3>1. screen' \in {screen, "FATAL"} /\ UNCHANGED <<erasing, deprovision>>
      BY <2>7 DEF RunRollback, RunSwap, RollbackThrows, RolledBack
    <3> QED BY <2>0, <3>1 DEF ScreenTypes
  <2> QED BY <2>1, <2>2, <2>3, <2>4, <2>5, <2>6, <2>7, ScreenFrame
<1> QED BY <1>1, <1>2 DEF ScreenInv

-----------------------------------------------------------------------------
(* Pairing. *)

\* A saved pairing is for the active identity.
LEMMA PairingStep ==
    ASSUME SessionInv, SessionNext
    PROVE  PairingInv'
<1>0. /\ stored \in Keys \union {None} /\ pending \in Keys \union {None}
      /\ keystore \in SUBSET Keys /\ alias \in Keys
      /\ pairing \in [step : PairingSteps, key : Keys \union {None}]
      /\ PairingOK /\ BootOK
  BY DEF SessionInv, PairingInv, PairingTypes, ScreenInv
<1>1. BootErase \/ BootErased \/ BootResume => Fresh /\ pairing = NoPairing /\ creds = None
  BY <1>0 DEF BootErase, BootErased, BootResume, Booting, BootOK, Fresh
<1>2. /\ pairing' \in [step : PairingSteps, key : Keys \union {None}]
      /\ pairing'.step = "IDLE" => pairing' = NoPairing
      /\ pairing'.step # "IDLE" => pairing'.key \in Keys
  <2>1. CASE pairing' = pairing
    BY <1>0, <2>1 DEF PairingOK
  <2>2. CASE pairing' = NoPairing
    BY <2>2 DEF NoPairing, PairingSteps
  <2>3. CASE \E step \in PairingSteps \ {"IDLE"}, k \in Keys : pairing' = [step |-> step, key |-> k]
    BY <2>3
  <2>4. CASE PairActivated
    <3>1. pairing.step = "WAITING" /\ pairing' = [pairing EXCEPT !.step = "FINALIZING"]
      BY <2>4 DEF PairActivated
    <3>2. pairing.key \in Keys
      BY <1>0, <3>1 DEF PairingOK
    <3>3. pairing' = [step |-> "FINALIZING", key |-> pairing.key] /\ "FINALIZING" \in PairingSteps
      BY <1>0, <3>1 DEF PairingSteps
    <3> QED BY <2>3, <3>2, <3>3
  <2>5. CASE BootErased
    <3>1. pairing' = NoPairing \/ (pending \in Keys /\ pairing' = [step |-> "WAITING", key |-> pending])
      BY <1>0, <2>5 DEF BootErased
    <3> QED BY <2>2, <2>3, <3>1 DEF PairingSteps
  <2>6. CASE PairSave \/ \E k \in Keys : RotateGenerate(k)
    <3>1. \E step \in PairingSteps \ {"IDLE"}, k \in Keys : pairing' = [step |-> step, key |-> k]
      BY <1>0, <2>6 DEF PairSave, RotateGenerate, PairingSteps
    <3> QED BY <2>3, <3>1
  <2>7. CASE PairPoll \/ PairRejected \/ PairFinalized \/ RotateCommit \/ Restart
             \/ BootErase \/ BootResume \/ \E e \in Erasers : EraseStore(e)
    BY <2>1, <2>2, <2>7 DEF PairPoll, PairRejected, PairFinalized, RotateCommit, Restart,
       BootErase, BootResume, EraseStore
  <2> QED BY <2>1, <2>4, <2>5, <2>6, <2>7, PairingFrame
<1>3. PairingTypes'
  <2>1. stored' \in Keys \union {None} /\ pending' \in Keys \union {None}
    <3>1. CASE PairSave \/ PairRejected \/ PairFinalized \/ RotateCommit \/ Restart
               \/ BootErase \/ BootErased \/ BootResume
               \/ (\E e \in Erasers : EraseStore(e)) \/ (\E k \in Keys : RotateGenerate(k))
      BY <1>0, <3>1 DEF PairSave, PairRejected, PairFinalized, RotateCommit, Restart,
         BootErase, BootErased, BootResume, EraseStore, RotateGenerate, Resumable, diskVars
    <3>2. CASE PairPoll \/ PairActivated
      BY <1>0, <3>2 DEF PairPoll, PairActivated, PairingOK
    <3>3. CASE UNCHANGED diskVars
      BY <1>0, <3>3 DEF diskVars
    <3> QED BY <3>1, <3>2, <3>3, PairingFrame
  <2>2. keystore' \in SUBSET Keys /\ alias' \in Keys
    <3>1. CASE PairSave \/ PairRejected \/ PairFinalized \/ Restart
               \/ BootErase \/ BootErased \/ BootResume \/ PairPoll \/ PairActivated
               \/ (\E e \in Erasers : EraseStore(e)) \/ (\E k \in Keys : RotateGenerate(k))
      BY <1>0, <3>1 DEF PairSave, PairRejected, PairFinalized, Restart, PairPoll, PairActivated,
         BootErase, BootErased, BootResume, EraseStore, RotateGenerate, FinalizeRotation, diskVars
    <3>2. CASE RotateCommit
      <4>1. pairing.key \in Keys
        BY <1>0, <3>2 DEF RotateCommit, PairingOK
      <4> QED BY <1>0, <3>2, <4>1 DEF RotateCommit
    <3>3. CASE UNCHANGED diskVars
      BY <1>0, <3>3 DEF diskVars
    <3> QED BY <3>1, <3>2, <3>3, PairingFrame
  <2> QED BY <1>2, <2>1, <2>2 DEF PairingTypes
<1>4. pairing'.step # "IDLE" => creds' = None
  <2>1. CASE BootResume \/ PairFinalized
    BY <1>1, <1>2, <2>1, NoPairingFields DEF BootResume, PairFinalized
  <2>2. CASE creds' = None
    BY <2>2
  <2>3. CASE creds' = creds
    <3>1. CASE pairing.step # "IDLE"
      BY <1>0, <2>3, <3>1 DEF PairingOK
    <3>2. CASE pairing.step = "IDLE" /\ pairing'.step # "IDLE"
      <4>1. BootErased \/ PairSave \/ \E k \in Keys : RotateGenerate(k)
        BY <3>2, NoPairingFields, PairingFrame DEF EraseStore, Restart, BootErase, BootResume,
           PairPoll, PairRejected, PairActivated, PairFinalized, RotateCommit
      <4> QED BY <1>1, <2>3, <4>1 DEF PairSave, RotateGenerate, PairingForm
    <3> QED BY <3>1, <3>2
  <2>4. BootResume \/ PairFinalized \/ creds' \in {creds, None}
    BY ShownFrame DEF Restart, HeartbeatDenied, SyncDenied, Deprovision, SyncStaged, EmergencyEnds,
       PlaybackEnds, RunRecovery, RunRollback, RunSwap, RollbackThrows
  <2> QED BY <2>1, <2>2, <2>3, <2>4
<1>5. pairing'.step \in {"WAITING", "FINALIZING"} => pairing'.key = alias'
  <2>1. CASE UNCHANGED <<diskVars, pairing>>
    BY <1>0, <2>1 DEF PairingOK, diskVars
  <2>2. CASE PairSave \/ PairPoll \/ (\E e \in Erasers : EraseStore(e)) \/ BootErase \/ BootResume
    BY <1>0, <2>2 DEF PairSave, PairPoll, EraseStore, BootErase, BootResume, PairingOK, diskVars
  <2>3. CASE Restart \/ PairRejected \/ PairFinalized \/ RotateCommit
    BY <2>3, NoPairingFields DEF Restart, PairRejected, PairFinalized, RotateCommit
  <2>4. CASE PairActivated
    <3>1. pairing.step = "WAITING" /\ pairing'.key = pairing.key /\ UNCHANGED alias
      BY <1>0, <2>4 DEF PairActivated
    <3> QED BY <1>0, <3>1 DEF PairingOK
  <2>5. CASE BootErased
    BY <1>0, <2>5, NoPairingFields DEF BootErased, PairingOK, diskVars
  <2>6. CASE \E k \in Keys : RotateGenerate(k)
    BY <2>6 DEF RotateGenerate
  <2> QED BY <2>1, <2>2, <2>3, <2>4, <2>5, <2>6, PairingFrame
<1>6. pending' # None => pending' = alias' /\ (pairing'.step = "WAITING" \/ Fresh')
  <2>1. ASSUME pending' = pending, alias' = alias, pairing' = pairing, pending' # None
        PROVE  pending' = alias' /\ (pairing'.step = "WAITING" \/ Fresh')
    <3>1. pending = alias /\ (pairing.step = "WAITING" \/ Fresh)
      BY <1>0, <2>1 DEF PairingOK
    <3>2. CASE Fresh
      <4>1. CASE BootErased \/ BootResume
        BY <2>1, <3>1, <4>1 DEF BootErased, BootResume
      <4> QED BY <2>1, <3>1, <3>2, <4>1, FreshStays
    <3> QED BY <2>1, <3>1, <3>2
  <2>2. CASE UNCHANGED <<diskVars, pairing>> \/ \E e \in Erasers : EraseStore(e)
    BY <2>1, <2>2 DEF diskVars, EraseStore
  <2>3. CASE Restart
    BY <2>3, <1>0 DEF Restart, Fresh, diskVars, PairingOK
  <2>4. CASE BootErase
    <3>1. pending' \in {pending, None} /\ alias' = alias /\ pairing' = pairing
      BY <2>4 DEF BootErase, Resumable
    <3> QED BY <2>1, <3>1
  <2>5. CASE BootErased
    BY <1>0, <2>5 DEF BootErased, PairingOK, diskVars
  <2>6. CASE BootResume \/ PairRejected \/ PairActivated
    BY <2>6 DEF BootResume, PairRejected, PairActivated
  <2>7. CASE PairSave \/ PairPoll
    BY <1>0, <2>7 DEF PairSave, PairPoll, PairingOK
  <2>8. CASE PairFinalized \/ RotateCommit \/ \E k \in Keys : RotateGenerate(k)
    <3>1. pairing.step # "WAITING" /\ ~Fresh /\ UNCHANGED pending
      BY <2>8, NoPairingFields DEF PairFinalized, RotateCommit, RotateGenerate, PairingForm, Fresh
    <3> QED BY <1>0, <3>1 DEF PairingOK
  <2> QED BY <2>2, <2>3, <2>4, <2>5, <2>6, <2>7, <2>8, PairingFrame
<1> QED BY <1>2, <1>3, <1>4, <1>5, <1>6 DEF PairingInv, PairingOK

\* The server and the clock stay within their types.
LEMMA ServerStep ==
    ASSUME SessionInv, SessionNext
    PROVE  ServerTypes'
<1>0. ServerTypes /\ PairingOK
  BY DEF SessionInv, PairingInv
<1>1. CASE UNCHANGED <<now, serverVars>>
  BY <1>0, <1>1 DEF ServerTypes, serverVars
<1>2. CASE Tick
  BY <1>0, <1>2, ManifestAssumption DEF Tick, ServerTypes, serverVars, ManifestAssumption
<1>3. CASE \E v \in Versions : Publish(v)
  BY <1>0, <1>3, ManifestAssumption DEF Publish, ServerTypes, managerVars, ManifestAssumption
<1>4. CASE \E k \in Keys : Revoke(k) \/ Approve(k)
  BY <1>0, <1>4 DEF Revoke, Approve, ServerTypes, managerVars
<1>5. CASE PairPoll
  <2>1. pairing.key \in Keys
    BY <1>0, <1>5 DEF PairPoll, PairingOK
  <2> QED BY <1>0, <1>5, <2>1 DEF PairPoll, ServerTypes, managerVars
<1> QED BY <1>1, <1>2, <1>3, <1>4, <1>5, ServerFrame

-----------------------------------------------------------------------------
(* The screen. *)

\* The result of an operation of the state queue is shown, if at all, under the
\* credentials that it was queued for.
LEMMA ShowsItsOwn ==
    ASSUME SessionInv, stateQueue # <<>>, Head(stateQueue).kind # "ACTIVATE", NEW result,
           result # None => result \in Manifest /\ Verified(result, Head(stateQueue).trust),
           Show(Head(stateQueue), result) \/ UNCHANGED shown, UNCHANGED creds
    PROVE  ShownInv'
<1>1. ShownInv /\ QueueOK
  BY DEF SessionInv
<1>2. Head(stateQueue).epoch = epoch => creds = Head(stateQueue).trust /\ creds # None
  <2>1. Head(stateQueue) \in Ops /\ Honest(Head(stateQueue), stage.step, sync.step, epoch, creds)
    BY <1>1, HeadHonest DEF QueueOK
  <2>2. Head(stateQueue).trust \in Keys
    BY <2>1, OpFields
  <2> QED BY <2>1, <2>2, NotNone DEF Honest
<1>3. CASE UNCHANGED shown
  BY <1>1, <1>3 DEF ShownInv, ShownForScreen
<1>4. CASE Head(stateQueue).epoch = epoch /\ shown' = result
  BY <1>2, <1>4 DEF ShownInv, ShownForScreen, Verified
<1> QED BY <1>3, <1>4 DEF Show

\* Every step that shows a release shows one of the running identity.
LEMMA ShownStep ==
    ASSUME SessionInv, SessionNext
    PROVE  ShownInv'
<1>0. /\ ShownInv /\ PairingInv /\ ContentInv /\ SwapOK /\ BootOK /\ StagingInv /\ FlightInv
      /\ active \in Manifest \union {None} /\ previous \in Manifest \union {None}
  BY DEF SessionInv, ScreenInv, ContentInv, ContentTypes
<1>1. CASE UNCHANGED <<shown, creds>>
  BY <1>0, <1>1 DEF ShownInv, ShownForScreen
<1>2. CASE shown' = None
  BY <1>2 DEF ShownInv, ShownForScreen
<1>3. CASE BootResume
  <2>1. CASE UNCHANGED <<shown, creds>>
    BY <1>1, <2>1
  <2>2. CASE creds' = stored /\ shown' = RecoverOutcome(stored).result
    <3>1. shown' \in {active, previous, None}
      BY <1>0, <2>2, OutcomeOfSlots
    <3>2. shown' # None => Verified(shown', stored)
      BY <2>2, ResultIsVerified
    <3>3. stored # None
      BY <1>0, <1>3, NotNone DEF BootResume, PairingInv, PairingTypes
    <3> QED BY <1>0, <2>2, <3>1, <3>2, <3>3 DEF ShownInv, ShownForScreen, Verified
  <2> QED BY <1>3, <2>1, <2>2 DEF BootResume
<1>4. CASE PairFinalized
  <2>1. shown = None /\ UNCHANGED shown
    BY <1>0, <1>4 DEF PairFinalized, PairingInv, PairingOK, ShownInv, ShownForScreen
  <2> QED BY <1>2, <2>1
<1>5. CASE Restart \/ HeartbeatDenied \/ EmergencyEnds \/ PlaybackEnds
  BY <1>2, <1>5 DEF Restart, HeartbeatDenied, Deprovision, EmergencyEnds, PlaybackEnds
<1>6. CASE SyncDenied
  BY <1>1, <1>2, <1>6 DEF SyncDenied, Deprovision
<1>7. CASE SyncStaged
  <2>1. stage.step = "DONE" /\ UNCHANGED creds
    BY <1>7 DEF SyncStaged
  <2>2. CASE UNCHANGED shown
    BY <1>1, <2>1, <2>2
  <2>3. CASE sync.epoch = epoch /\ shown' = stage.result
    <3>1. /\ stage.result \in {None, stage.manifest} /\ stage.manifest \in Manifest
          /\ stage.manifest.owner = sync.trust /\ sync.step = "STAGING"
      BY <1>0, <2>1 DEF StagingInv, StagingOK, FlightInv, FlightOK
    <3>2. creds = sync.trust /\ creds # None
      BY <1>0, <2>3, <3>1, NotNone DEF FlightInv, FlightOK
    <3> QED BY <2>1, <2>3, <3>1, <3>2 DEF ShownInv, ShownForScreen
  <2> QED BY <1>7, <2>2, <2>3 DEF SyncStaged
<1>8. CASE RunRecovery
  <2> DEFINE op == Head(stateQueue)
             result == RecoverOutcome(op.trust).result
  <2>1. /\ stateQueue # <<>> /\ op.kind = "RECOVER" /\ UNCHANGED creds
        /\ Show(op, result) \/ UNCHANGED shown
    BY <1>8 DEF RunRecovery, HeadIs
  <2>2. result # None => result \in Manifest /\ Verified(result, op.trust)
    BY <1>0, OutcomeOfSlots, ResultIsVerified
  <2> HIDE DEF result
  <2> QED BY <2>1, <2>2, ShowsItsOwn
<1>9. CASE RunRollback
  <2> DEFINE op == Head(stateQueue)
             result == RollbackOutcome(op.trust, op.expected).result
  <2>1. /\ stateQueue # <<>> /\ op.kind = "ROLLBACK" /\ UNCHANGED creds
        /\ Show(op, result) \/ UNCHANGED shown
    BY <1>9 DEF RunRollback, RolledBack, HeadIs
  <2>2. result # None => result \in Manifest /\ Verified(result, op.trust)
    BY <1>0, OutcomeOfSlots, ResultIsVerified
  <2> HIDE DEF result
  <2> QED BY <2>1, <2>2, ShowsItsOwn
<1>10. CASE RunSwap
  <2> DEFINE op == Head(stateQueue)
             outcome == SwapOutcome(op.expected, op.until)
             result == PlayableOrNone(outcome.result)
  <2>1. /\ stateQueue # <<>> /\ op.kind = "SWAP" /\ UNCHANGED creds /\ Show(op, result)
    BY <1>10 DEF RunSwap, RolledBack, HeadIs
  <2>2. outcome.result \in {active, previous, None}
    BY <1>0, OutcomeOfSlots
  <2>3. Swappable(op, active, previous)
    BY <1>0, <2>1 DEF SwapOK
  <2> HIDE DEF outcome
  <2>4. result # None => result \in Manifest /\ Verified(result, op.trust)
    BY <1>0, <2>2, <2>3 DEF PlayableOrNone, Swappable, Verified
  <2> HIDE DEF result
  <2> QED BY <2>1, <2>4, ShowsItsOwn
<1>11. CASE RollbackThrows
  BY <1>1, <1>2, <1>11 DEF RollbackThrows
<1> QED BY <1>1, <1>3, <1>4, <1>5, <1>6, <1>7, <1>8, <1>9, <1>10, <1>11, ShownFrame

-----------------------------------------------------------------------------
(* The history. *)

LEMMA HistoryFrame ==
    ASSUME SessionNext
    PROVE  \/ UNCHANGED historyVars
           \/ Manager \/ Restart \/ HeartbeatDenied \/ SyncDenied
           \/ \E e \in Erasers : EraseStore(e) \/ EraseAssets(e)
<1>1. CASE Environment
  BY <1>1 DEF Environment, Tick, Publish, Revoke, Approve
<1>2. CASE Erasure
  BY <1>2 DEF Erasure, EraseFails
<1>3. CASE Boot
  BY <1>3 DEF Boot, BootErase, BootErased, BootResume
<1>4. CASE Pair
  BY <1>4 DEF Pair, PairSave, PairPoll, PairRejected, PairActivated, PairFinalized,
     RotateGenerate, RotateCommit
<1>5. CASE Session
  BY <1>5 DEF Session, Deprovisioned, SyncAsk, SyncLost, SyncAnswered, SyncStageFailed,
     SyncStaged, SyncEnds, PlaybackError, EmergencyEnds, PlaybackEnds, RunRecovery,
     RunRollback, RunSwap, RollbackThrows
<1> QED BY <1>1, <1>2, <1>3, <1>4, <1>5 DEF SessionNext

LEMMA HistoryStep ==
    ASSUME SessionInv, SessionNext
    PROVE  HistoryTypes'
<1>0. /\ HistoryTypes /\ cached \in SUBSET Assets /\ stored \in Keys \union {None}
  BY DEF SessionInv, ContentInv, ContentTypes, PairingInv, PairingTypes
<1>1. CASE UNCHANGED historyVars
  BY <1>0, <1>1 DEF historyVars, HistoryTypes
<1>2. CASE Manager
  BY <1>0, <1>2 DEF Manager, HistoryTypes
<1>3. CASE Restart \/ HeartbeatDenied
  BY <1>0, <1>3 DEF Restart, HeartbeatDenied, HistoryTypes
<1>4. CASE SyncDenied
  <2>1. late' = (sync.epoch # epoch) \/ late' = late
    BY <1>4 DEF SyncDenied
  <2>2. late' \in BOOLEAN
    BY <1>0, <2>1, Zenon DEF HistoryTypes
  <2> QED BY <1>0, <1>4, <2>2 DEF SyncDenied, HistoryTypes
<1>5. CASE \E e \in Erasers : EraseStore(e) \/ EraseAssets(e)
  BY <1>0, <1>5 DEF EraseStore, EraseAssets, HistoryTypes
<1> QED BY <1>1, <1>2, <1>3, <1>4, <1>5, HistoryFrame

-----------------------------------------------------------------------------
(* The application. *)

\* The invariant holds of a device fresh from the factory.
LEMMA SessionStarts == SessionInit => SessionInv
<1> SUFFICES ASSUME SessionInit PROVE SessionInv
  OBVIOUS
<1>0. ManagerInit
  BY DEF SessionInit
<1>1. StagingInv
  BY <1>0, NoStageFields, NoSweepFields DEF ManagerInit, StagingInv, StagingTypes, StagingOK, Running
<1>2. creds = None /\ shown = None /\ epoch = 0 /\ sync = NoSync /\ screen = "BOOT"
      /\ erasing = [e \in Erasers |-> {}] /\ deprovision = "NO" /\ pairing = NoPairing
      /\ pending = None /\ HistoryInit
  BY DEF SessionInit
<1>3. FlightInv
  BY <1>0, <1>2, NoStageFields, NoSyncFields DEF ManagerInit, FlightInv, FlightTypes, FlightOK
<1>4. QueueOK /\ SwapOK
  BY <1>0, QueueEmpty DEF ManagerInit, QueueOK, SwapOK
<1>5. ContentInv
  BY <1>0 DEF ManagerInit, ContentInv, ContentTypes, BaselineOK, Baseline
<1>6. ScreenInv
  BY <1>0, <1>2 DEF ManagerInit, ScreenInv, ScreenTypes, BootOK, Fresh
<1>7. PairingInv
  <2>1. stored \in Keys \union {None} /\ keystore \in SUBSET Keys /\ alias \in Keys
    BY DEF SessionInit
  <2> QED BY <1>2, <2>1, NoPairingFields DEF PairingInv, PairingTypes, PairingOK, NoPairing, PairingSteps
<1>8. ServerTypes
  <2>1. now = 0 /\ MaxNow \in Nat /\ 1 \in 1 .. MaxGeneratedAt
    BY <1>0, ManifestAssumption DEF ManagerInit, ManifestAssumption
  <2>2. /\ live \in SUBSET Keys /\ revoked \in SUBSET Keys /\ proven \in SUBSET Keys
        /\ published \in [version : Versions \ Emergencies, generatedAt : {1}]
    BY DEF SessionInit
  <2> QED BY <2>1, <2>2 DEF ServerTypes
<1>9. ShownInv
  BY <1>2 DEF ShownInv, ShownForScreen
<1>10. ClearedOK /\ HistoryTypes
  BY <1>0, <1>2 DEF ManagerInit, ClearedOK, HistoryInit, HistoryTypes
<1> QED BY <1>1, <1>3, <1>4, <1>5, <1>6, <1>7, <1>8, <1>9, <1>10 DEF SessionInv

\* Every step keeps it.
LEMMA SessionKept == SessionInv /\ [SessionNext]_sessionVars => SessionInv'
<1> SUFFICES ASSUME SessionInv, [SessionNext]_sessionVars PROVE SessionInv'
  OBVIOUS
<1>1. CASE SessionNext
  <2>1. StagingInv'
    BY <1>1, StagingStep DEF SessionInv, ContentInv
  <2> QED BY <1>1, <2>1, FlightStep, QueueStep, ContentStep, ScreenStep, PairingStep, ServerStep,
          ShownStep, ClearedStep, HistoryStep DEF SessionInv
<1>2. CASE UNCHANGED sessionVars
  <2> USE <1>2 DEF sessionVars, managerVars, slots, stagingVars, serverVars, diskVars, appVars,
             historyVars
  <2>1. StagingInv' /\ FlightInv'
    BY DEF SessionInv, StagingInv, StagingTypes, StagingOK, FlightInv, FlightTypes, FlightOK
  <2>2. QueueOK' /\ SwapOK' /\ ContentInv'
    BY DEF SessionInv, QueueOK, SwapOK, ContentInv, ContentTypes, BaselineOK
  <2>3. ScreenInv' /\ PairingInv'
    BY DEF SessionInv, ScreenInv, ScreenTypes, BootOK, Fresh, PairingInv, PairingTypes, PairingOK
  <2>4. ServerTypes' /\ ShownInv'
    BY DEF SessionInv, ServerTypes, ShownInv, ShownForScreen
  <2>5. ClearedOK' /\ HistoryTypes'
    BY DEF SessionInv, ClearedOK, HistoryTypes
  <2> QED BY <2>1, <2>2, <2>3, <2>4, <2>5 DEF SessionInv
<1> QED BY <1>1, <1>2

\* So it always holds.
LEMMA SessionHolds == SessionSpec => []SessionInv
BY SessionStarts, SessionKept, PTL DEF SessionSpec

\* Every variable of the application stays within its type.
THEOREM SessionTypesHold == SessionSpec => []SessionTypeOK
<1>1. SessionInv => SessionTypeOK
  <2> SUFFICES ASSUME SessionInv PROVE SessionTypeOK
    OBVIOUS
  <2>1. stage \in StageRow
    BY DEF SessionInv, StagingInv, StagingTypes, StagingOK, Staged, StageRow
  <2>2. \A i \in DOMAIN stateQueue : stateQueue[i].kind \in {"ACTIVATE", "RECOVER", "ROLLBACK", "SWAP"}
    <3>1. stateQueue \in Seq(Ops)
      BY DEF SessionInv, QueueOK, Queue
    <3>2. \A i \in DOMAIN stateQueue : stateQueue[i] \in Ops
      BY <3>1
    <3> QED BY <3>2 DEF Ops
  <2>3. ManagerTypeOK
    BY <2>1, <2>2 DEF SessionInv, ManagerTypeOK, ServerTypes, ContentInv, ContentTypes, StagingInv,
       StagingTypes
  <2>4. pending \in {alias, None} /\ sync.step \in SyncSteps
    BY DEF SessionInv, PairingInv, PairingOK, FlightInv, FlightTypes, Flights
  <2> QED BY <2>3, <2>4 DEF SessionInv, SessionTypeOK, ServerTypes, PairingInv, PairingTypes,
          ScreenInv, ScreenTypes, FlightInv, FlightTypes, ShownInv, HistoryTypes
<1> QED BY <1>1, SessionHolds, PTL

\* What is on screen was signed for the Screen of the identity the player runs as,
\* whatever was under way when the device was deprovisioned or paired again.
THEOREM AlwaysShownForScreen == SessionSpec => []ShownForScreen
<1>1. SessionInv => ShownForScreen
  BY DEF SessionInv, ShownInv
<1> QED BY <1>1, SessionHolds, PTL

\* A withdrawal stays: nothing that was under way when it was activated revives a release,
\* and only a newer release, a later envelope of the withdrawal or an erasure takes its place.
THEOREM WithdrawalAlwaysFinal == SessionSpec => WithdrawalIsFinal
<1> DEFINE Final == active # None /\ Withdrawn(active) =>
                        /\ previous = None
                        /\ \/ active' = None
                           \/ active'.generatedAt > active.generatedAt
                           \/ /\ active'.generatedAt = active.generatedAt
                              /\ active'.version = active.version
<1>1. SessionInv /\ SessionNext => Final
  <2> SUFFICES ASSUME SessionInv, SessionNext, active # None, Withdrawn(active)
               PROVE  /\ previous = None
                      /\ \/ active' = None
                         \/ active'.generatedAt > active.generatedAt
                         \/ /\ active'.generatedAt = active.generatedAt
                            /\ active'.version = active.version
    OBVIOUS
  <2>0. /\ ContentInv /\ StagingInv /\ FlightInv /\ ClearedOK /\ previous = None
    BY DEF SessionInv, ContentInv, BaselineOK, Baseline
  <2>1. CASE active' \in {active, None}
    BY <2>0, <2>1
  <2>2. CASE Activate \/ ActivateCleared
    <3>1. \/ active' \in {active, None}
          \/ active' = stage.manifest /\ NotOlder(stage.manifest, active)
      BY <2>0, <2>2, ActivateSlots DEF slots
    <3> QED BY <2>0, <2>1, <3>1 DEF NotOlder
  <2>3. CASE ~(Activate \/ ActivateCleared)
    BY <2>0, <2>1, <2>3, SlotsShrink
  <2> QED BY <2>2, <2>3
<1>2. SessionInv /\ UNCHANGED sessionVars => Final
  BY DEF sessionVars, managerVars, slots, SessionInv, ContentInv, BaselineOK, Baseline
<1>3. SessionInv /\ [SessionNext]_sessionVars => [Final]_sessionVars
  BY <1>1, <1>2
<1> QED BY <1>3, SessionHolds, PTL DEF SessionSpec, WithdrawalIsFinal

-----------------------------------------------------------------------------
(* The identity.  A flight that outlives its credentials erases what it finds; no      *)
(* other erasure meets the credentials of a device that was paired again.              *)

Refused == revoked \union {None}
Known == live \union revoked

\* The server knows the stored identity, and it is the active one.
StoredOK ==
    /\ live \intersect revoked = {}
    /\ stored \in {alias, None} /\ {stored, orphaned} \subseteq Known \union {None}

\* The application runs as, or is about to run as, the stored identity, or the one that
\* a straggler erased from the disk.
Runs(k) == stored = k \/ (stored = None /\ orphaned = k)

CredentialsOK ==
    /\ creds # None => Runs(creds)
    /\ pairing.step = "FINALIZING" => Runs(pairing.key)

\* A device is erased by the flight or the heartbeat of an identity that was refused, by
\* a boot that found no credential, or by a straggler.
ErasureOK ==
    /\ ~late /\ deprovision # "NO" =>
          creds = None /\ pairing.step = "IDLE" /\ stored \in Refused
    /\ ~late /\ erasing["DEPROVISION"] # {} => deprovision # "NO"
    /\ deprovision = "CLEARING" /\ "STORE" \notin erasing["DEPROVISION"] => stored = None
    /\ screen = "ERASING" \/ erasing["BOOT"] # {} => stored = None

\* A device is paired when nothing is stored.
PairedOK ==
    /\ pairing.step \in {"WAITING", "ROTATING"} => stored = None
    /\ PairingForm /\ pairing.step # "FINALIZING" => stored = None

\* The slots, and the flight of a synchronization, are of identities that the server
\* knows, and not of the one that is being paired.
Paired == IF pairing.step \in {"WAITING", "FINALIZING"} \/ pending # None THEN {alias} ELSE {}
Served == Known \ Paired

OwnersOK ==
    /\ \A m \in {active, previous} \ {None} : m.owner \in Served
    /\ sync.step # "IDLE" => sync.trust \in Served
    /\ sync.step = "ASKING" /\ sync.answer = None => sync.trust \in revoked

IdentityInv ==
    /\ SessionInv
    /\ StoredOK /\ CredentialsOK /\ ErasureOK /\ PairedOK /\ OwnersOK

\* The stored identity, and what the server knows of it.
LEMMA StoredFrame ==
    ASSUME SessionNext
    PROVE  \/ UNCHANGED <<live, revoked, stored, alias>>
           \/ PairActivated \/ RotateCommit
           \/ \E k \in Keys : Revoke(k) \/ Approve(k)
           \/ \E e \in Erasers : EraseStore(e)
<1> USE DEF diskVars, serverVars
<1>1. CASE Manager
  BY <1>1 DEF Manager, ManagerStep, StageBegin, SweepBegin, SweepActive, SweepPrevious, SweepDelete,
     PrefetchClaim, PrefetchLand, PrefetchFail, PrefetchEnd, Activate, ActivateCleared
<1>2. CASE Environment
  BY <1>2 DEF Environment, Tick, Publish, Restart
<1>3. CASE Erasure
  BY <1>3 DEF Erasure, EraseAssets, EraseFails
<1>4. CASE Boot
  BY <1>4 DEF Boot, BootErase, BootErased, BootResume
<1>5. CASE Pair
  BY <1>5 DEF Pair, PairSave, PairPoll, PairRejected, PairFinalized, RotateGenerate
<1>6. CASE Session
  BY <1>6 DEF Session, HeartbeatDenied, Deprovisioned, SyncAsk, SyncLost, SyncAnswered,
     SyncDenied, SyncStageFailed, SyncStaged, SyncEnds, PlaybackError, EmergencyEnds,
     PlaybackEnds, RunRecovery, RunRollback, RunSwap, RollbackThrows
<1> QED BY <1>1, <1>2, <1>3, <1>4, <1>5, <1>6 DEF SessionNext

\* The credentials that the application runs with.
LEMMA CredentialsFrame ==
    ASSUME SessionNext
    PROVE  \/ UNCHANGED <<stored, creds, deprovision>>
           \/ Restart \/ BootResume \/ PairActivated \/ PairFinalized
           \/ HeartbeatDenied \/ Deprovisioned \/ SyncDenied
           \/ \E e \in Erasers : EraseStore(e) \/ EraseFails(e)
<1> USE DEF appVars, diskVars
<1>1. CASE Manager
  BY <1>1 DEF Manager, ManagerStep, StageBegin, SweepBegin, SweepActive, SweepPrevious, SweepDelete,
     PrefetchClaim, PrefetchLand, PrefetchFail, PrefetchEnd, Activate, ActivateCleared
<1>2. CASE Environment
  BY <1>2 DEF Environment, Tick, Publish, Revoke, Approve
<1>3. CASE Erasure
  BY <1>3 DEF Erasure, EraseAssets
<1>4. CASE Boot
  BY <1>4 DEF Boot, BootErase, BootErased
<1>5. CASE Pair
  BY <1>5 DEF Pair, PairSave, PairPoll, PairRejected, RotateGenerate, RotateCommit
<1>6. CASE Session
  BY <1>6 DEF Session, SyncAsk, SyncLost, SyncAnswered, SyncStageFailed, SyncStaged,
     SyncEnds, PlaybackError, EmergencyEnds, PlaybackEnds, RunRecovery, RunRollback,
     RunSwap, RollbackThrows
<1> QED BY <1>1, <1>2, <1>3, <1>4, <1>5, <1>6 DEF SessionNext

\* What was erased by a straggler was stored.
LEMMA OrphanedFrame ==
    ASSUME SessionNext
    PROVE  orphaned' \in {orphaned, stored, None}
<1>1. CASE UNCHANGED historyVars
  BY <1>1 DEF historyVars
<1>2. CASE Manager \/ Restart \/ HeartbeatDenied \/ SyncDenied
  BY <1>2 DEF Manager, Restart, HeartbeatDenied, SyncDenied
<1>3. CASE \E e \in Erasers : EraseStore(e) \/ EraseAssets(e)
  BY <1>3 DEF EraseStore, EraseAssets
<1> QED BY <1>1, <1>2, <1>3, HistoryFrame

\* The server forgets nobody.
LEMMA KnownGrows ==
    ASSUME SessionNext
    PROVE  Known \subseteq Known' /\ revoked \subseteq revoked'
<1>1. CASE UNCHANGED <<live, revoked>>
  BY <1>1 DEF Known
<1>2. CASE \E k \in Keys : Revoke(k) \/ Approve(k)
  BY <1>2 DEF Revoke, Approve, Known
<1> QED BY <1>1, <1>2, StoredFrame DEF EraseStore, PairActivated, RotateCommit, serverVars

\* What is stored is the identity that was paired, until it is erased.
LEMMA StoredStep ==
    ASSUME IdentityInv, SessionNext
    PROVE  StoredOK'
<1>0. StoredOK /\ PairedOK /\ PairingInv /\ PairingOK
  BY DEF IdentityInv, SessionInv, PairingInv
<1>1. {stored, orphaned'} \subseteq Known' \union {None}
  BY <1>0, OrphanedFrame, KnownGrows DEF StoredOK
<1>2. CASE UNCHANGED <<live, revoked, stored, alias>>
  BY <1>0, <1>1, <1>2 DEF StoredOK
<1>3. CASE PairActivated
  <2>1. stored' = alias /\ alias' = alias /\ alias \in live /\ UNCHANGED <<live, revoked>>
    BY <1>0, <1>3 DEF PairActivated, PairingOK, serverVars
  <2> QED BY <1>0, <1>1, <2>1 DEF StoredOK, Known
<1>4. CASE RotateCommit
  <2>1. stored = None /\ stored' = None /\ UNCHANGED <<live, revoked>>
    BY <1>0, <1>4 DEF RotateCommit, PairedOK, serverVars
  <2> QED BY <1>0, <1>1, <2>1 DEF StoredOK
<1>5. CASE \E k \in Keys : Revoke(k) \/ Approve(k)
  <2>1. live' \intersect revoked' = {}
    BY <1>0, <1>5 DEF Revoke, Approve, StoredOK
  <2>2. UNCHANGED <<stored, alias>>
    BY <1>5 DEF Revoke, Approve, diskVars
  <2> QED BY <1>0, <1>1, <2>1, <2>2 DEF StoredOK
<1>6. CASE \E e \in Erasers : EraseStore(e)
  <2>1. stored' = None /\ UNCHANGED <<live, revoked, alias>>
    BY <1>6 DEF EraseStore, serverVars
  <2> QED BY <1>0, <1>1, <2>1 DEF StoredOK
<1> QED BY <1>2, <1>3, <1>4, <1>5, <1>6, StoredFrame

\* An erasure that is no straggler's finds no credential of a running application, nor
\* of one that the server accepts.
LEMMA ErasesRefused ==
    ASSUME IdentityInv, NEW e \in Erasers, erasing[e] # {}, ~Straggles(e)
    PROVE  /\ creds = None /\ pairing.step = "IDLE"
           /\ live \intersect {stored, creds} = {}
<1>0. BootOK /\ ErasureOK /\ StoredOK /\ None \notin live
  BY NotNone DEF IdentityInv, SessionInv, ScreenInv, ServerTypes
<1>1. CASE e = "BOOT"
  BY <1>0, <1>1, NoPairingFields DEF BootOK, Fresh, ErasureOK
<1>2. CASE e = "DEPROVISION" /\ ~late
  BY <1>0, <1>2 DEF ErasureOK, StoredOK, Refused
<1> QED BY <1>1, <1>2 DEF Straggles, Erasers

\* The running identity is the stored one, or the one a straggler erased.
LEMMA CredentialsStep ==
    ASSUME IdentityInv, SessionNext
    PROVE  CredentialsOK'
<1>0. /\ CredentialsOK /\ PairingOK /\ BootOK /\ creds \in Keys \union {None}
  BY DEF IdentityInv, SessionInv, PairingInv, ScreenInv, FlightInv, FlightTypes
<1>1. CASE \E e \in Erasers : EraseStore(e)
  <2>1. PICK e \in Erasers : EraseStore(e) /\ erasing[e] # {}
    BY <1>1 DEF EraseStore
  <2>2. stored' = None /\ UNCHANGED <<creds, pairing>>
    BY <2>1 DEF EraseStore
  <2>3. CASE Straggles(e)
    <3>1. orphaned' = IF stored # None THEN stored ELSE orphaned
      BY <2>1, <2>3 DEF EraseStore
    <3> QED BY <1>0, <2>2, <3>1 DEF CredentialsOK, Runs
  <2>4. CASE ~Straggles(e)
    <3>1. creds = None /\ pairing.step = "IDLE"
      BY <2>1, <2>4, ErasesRefused
    <3> QED BY <2>2, <3>1 DEF CredentialsOK
  <2> QED BY <2>3, <2>4
<1>2. CASE Restart
  BY <1>2, NoPairingFields DEF Restart, CredentialsOK
<1>3. CASE BootResume
  <2>1. creds = None /\ pairing = NoPairing
    BY <1>0, <1>3 DEF BootResume, Booting, BootOK, Fresh
  <2> QED BY <1>3, <2>1, NoPairingFields DEF BootResume, CredentialsOK, Runs
<1>4. CASE PairActivated
  <2>1. creds = None /\ pairing.step = "WAITING" /\ UNCHANGED creds /\ stored' = pairing.key
        /\ pairing' = [pairing EXCEPT !.step = "FINALIZING"]
    BY <1>0, <1>4 DEF PairActivated, PairingOK
  <2>2. pairing'.key = pairing.key
    BY <2>1 DEF IdentityInv, SessionInv, PairingInv, PairingTypes
  <2> QED BY <2>1, <2>2 DEF CredentialsOK, Runs
<1>5. CASE PairFinalized
  <2>1. /\ Runs(pairing.key) /\ pairing' = NoPairing /\ UNCHANGED <<stored, orphaned>>
        /\ creds' \in {creds, pairing.key}
    BY <1>0, <1>5 DEF PairFinalized, CredentialsOK, historyVars
  <2> QED BY <1>0, <2>1, NoPairingFields DEF CredentialsOK, Runs
<1>6. CASE HeartbeatDenied \/ SyncDenied
  <2>1. UNCHANGED <<stored, orphaned, pairing>> /\ creds' \in {creds, None}
    BY <1>6 DEF HeartbeatDenied, SyncDenied, Deprovision, diskVars
  <2> QED BY <1>0, <2>1 DEF CredentialsOK, Runs
<1>7. CASE /\ ~Restart /\ ~BootResume /\ ~PairActivated /\ ~PairFinalized
           /\ ~HeartbeatDenied /\ ~SyncDenied /\ ~(\E e \in Erasers : EraseStore(e))
  <2>1. UNCHANGED <<stored, creds>>
    BY <1>7, CredentialsFrame DEF Deprovisioned, EraseFails, diskVars
  <2>2. UNCHANGED orphaned
    BY <1>7, HistoryFrame DEF historyVars, Manager, EraseAssets
  <2>3. UNCHANGED pairing \/ pairing'.step # "FINALIZING"
    BY <1>7, PairingFrame, NoPairingFields DEF BootErase, BootErased, PairSave, PairPoll,
       PairRejected, RotateCommit, RotateGenerate
  <2> QED BY <1>0, <2>1, <2>2, <2>3 DEF CredentialsOK, Runs
<1> QED BY <1>1, <1>2, <1>3, <1>4, <1>5, <1>6, <1>7


\* A device begins to be erased when its identity is refused.
LEMMA DeprovisionFrame ==
    ASSUME ScreenTypes, SessionNext
    PROVE  \/ UNCHANGED late /\ (deprovision' \in {deprovision, "NO"}
                                 \/ (deprovision = "CLEARING" /\ deprovision' = "STUCK"))
           \/ Restart \/ HeartbeatDenied \/ (SyncDenied /\ deprovision = "NO")
<1>1. CASE Restart \/ HeartbeatDenied \/ SyncDenied
  BY <1>1 DEF SyncDenied
<1>2. CASE ~Restart /\ ~HeartbeatDenied /\ ~SyncDenied
  <2>1. UNCHANGED late
    BY <1>2, HistoryFrame DEF historyVars, Manager, EraseStore, EraseAssets
  <2>2. \/ deprovision' \in {deprovision, "NO"}
        \/ deprovision = "CLEARING" /\ deprovision' = "STUCK"
    <3>1. CASE \E e \in Erasers : EraseFails(e)
      BY <3>1, FailedErasure
    <3> QED BY <1>2, <3>1, ScreenFrame
            DEF EraseStore, EraseAssets, BootErase, BootErased, BootResume, PairFinalized,
                Deprovisioned, SyncStaged, RunRollback, RunSwap, RollbackThrows
  <2> QED BY <2>1, <2>2
<1> QED BY <1>1, <1>2

\* An erasure begins at boot, when the identity is refused, or when a release that was
\* staged under other credentials has been activated; otherwise it only goes on.
LEMMA ErasureGoesOn ==
    ASSUME ScreenTypes, SessionNext, NEW e \in Erasers
    PROVE  \/ erasing'[e] \subseteq erasing[e]
           \/ e = "BOOT" /\ BootErase
           \/ e = "DEPROVISION" /\ deprovision = "NO" /\ (HeartbeatDenied \/ SyncDenied)
           \/ e = "SYNC" /\ SyncStaged
<1>0. /\ erasing \in [Erasers -> SUBSET Everything] /\ "BOOT" \in Erasers
      /\ "SYNC" \in Erasers /\ "DEPROVISION" \in Erasers
  BY DEF ScreenTypes, Erasers
<1>1. CASE UNCHANGED erasing
  BY <1>1
<1>2. CASE \E f \in Erasers : EraseStore(f) \/ EraseAssets(f) \/ EraseFails(f)
  <2>1. PICK f \in Erasers, part \in Everything : erasing' = [erasing EXCEPT ![f] = @ \ {part}]
    BY <1>0, <1>2 DEF EraseStore, EraseAssets, EraseFails, Everything
  <2> QED BY <1>0, <2>1
<1>3. CASE Restart
  BY <1>3 DEF Restart
<1>4. CASE BootErase
  <2>1. \E left : erasing' = [erasing EXCEPT !["BOOT"] = left]
    BY <1>4 DEF BootErase
  <2> QED BY <1>0, <1>4, <2>1
<1>5. CASE HeartbeatDenied \/ SyncDenied
  <2>1. \/ UNCHANGED erasing
        \/ deprovision = "NO" /\ erasing' = [erasing EXCEPT !["DEPROVISION"] = Everything]
    BY <1>5 DEF HeartbeatDenied, SyncDenied, Deprovision
  <2> QED BY <1>0, <1>5, <2>1
<1>6. CASE SyncStaged
  <2>1. UNCHANGED erasing \/ erasing' = [erasing EXCEPT !["SYNC"] = Everything]
    BY <1>6 DEF SyncStaged
  <2> QED BY <1>0, <1>6, <2>1
<1>7. CASE \/ BootErased \/ BootResume \/ Deprovisioned \/ PairFinalized
           \/ RunRollback \/ RunSwap \/ RollbackThrows
  BY <1>7 DEF BootErased, BootResume, Deprovisioned, PairFinalized, RunRollback, RunSwap, RollbackThrows
<1> QED BY <1>1, <1>2, <1>3, <1>4, <1>5, <1>6, <1>7, ScreenFrame

\* What is stored is replaced by nothing but a pairing.
LEMMA StoredStays ==
    ASSUME SessionNext
    PROVE  stored' = stored \/ stored' = None \/ PairActivated
BY StoredFrame DEF Revoke, Approve, EraseStore, RotateCommit, diskVars

\* Only a refused identity is erased, or a straggler erases.
LEMMA ErasureStep ==
    ASSUME IdentityInv, SessionNext
    PROVE  ErasureOK'
<1>0. /\ ErasureOK /\ StoredOK /\ CredentialsOK /\ OwnersOK /\ ScreenTypes /\ BootOK
      /\ PairingOK /\ FlightOK /\ None \notin revoked
      /\ erasing \in [Erasers -> SUBSET Everything]
      /\ "BOOT" \in Erasers /\ "SYNC" \in Erasers /\ "DEPROVISION" \in Erasers
      /\ creds \in Keys \union {None} /\ stored \in Keys \union {None}
      /\ revoked \subseteq revoked' /\ deprovision \in {"NO", "CLEARING", "STUCK"}
  BY KnownGrows, NotNone DEF IdentityInv, SessionInv, ScreenInv, ScreenTypes, Erasers, FlightInv,
     FlightTypes, PairingInv, PairingTypes, ServerTypes
<1>1. ~late' /\ deprovision' # "NO" =>
          creds' = None /\ pairing'.step = "IDLE" /\ stored' \in Refused'
  <2> SUFFICES ASSUME ~late', deprovision' # "NO"
               PROVE  creds' = None /\ pairing'.step = "IDLE" /\ stored' \in Refused'
    OBVIOUS
  <2>1. ASSUME NEW k \in Keys, Runs(k), k \in Known \ live PROVE stored \in Refused
    BY <2>1 DEF Runs, Known, Refused
  <2>2. CASE HeartbeatDenied
    <3>1. /\ creds \in Keys \ live /\ creds # None /\ creds' = None
          /\ UNCHANGED <<stored, pairing, revoked>>
      BY <2>2, NotNone DEF HeartbeatDenied, Deprovision, diskVars, serverVars
    <3>2. Runs(creds) /\ pairing.step = "IDLE"
      BY <1>0, <3>1 DEF CredentialsOK, PairingOK
    <3>3. creds \in Known
      BY <1>0, <3>1, <3>2 DEF StoredOK, Runs
    <3> QED BY <2>1, <3>1, <3>2, <3>3 DEF Refused
  <2>3. CASE SyncDenied /\ deprovision = "NO"
    <3>1. /\ sync.step = "ASKING" /\ sync.answer = None /\ creds' = None
          /\ sync.epoch = epoch /\ UNCHANGED <<stored, pairing, revoked>>
      BY <2>3 DEF SyncDenied, Deprovision, diskVars, serverVars
    <3>2. creds = sync.trust /\ creds \in Keys /\ creds # None /\ creds \in revoked
      BY <1>0, <3>1, NotNone DEF FlightOK, OwnersOK
    <3>3. Runs(creds) /\ pairing.step = "IDLE"
      BY <1>0, <3>2 DEF CredentialsOK, PairingOK
    <3>4. creds \in Known \ live
      BY <1>0, <3>2 DEF Known, StoredOK
    <3> QED BY <2>1, <3>1, <3>2, <3>3, <3>4 DEF Refused
  <2>4. CASE /\ ~HeartbeatDenied /\ ~(SyncDenied /\ deprovision = "NO")
    <3>0. ~Restart
      BY DEF Restart
    <3>1. ~late /\ deprovision # "NO" /\ ~Restart
      BY <1>0, <2>4, <3>0, DeprovisionFrame
    <3>2. creds = None /\ pairing.step = "IDLE" /\ stored \in Refused
      BY <1>0, <3>1 DEF ErasureOK
    <3>3. /\ ~PairSave /\ ~PairPoll /\ ~PairActivated /\ ~(\E k \in Keys : RotateGenerate(k))
          /\ ~PairFinalized
      BY <3>1, <3>2 DEF PairSave, PairPoll, PairActivated, RotateGenerate, PairFinalized, PairingForm
    <3>4. ~BootErased /\ ~BootResume
      BY <1>0, <3>1 DEF BootErased, BootResume, Booting, BootOK, Fresh
    <3>5. stored' \in Refused'
      BY <1>0, <3>2, <3>3, StoredStays DEF Refused
    <3>6. creds' = None
      BY <2>4, <3>1, <3>2, <3>3, <3>4, CredentialsFrame
         DEF EraseStore, EraseFails, Deprovisioned, SyncDenied
    <3>7. pairing'.step = "IDLE"
      BY <3>1, <3>2, <3>3, <3>4, PairingFrame, NoPairingFields
         DEF EraseStore, BootErase, PairRejected, RotateCommit
    <3> QED BY <3>5, <3>6, <3>7
  <2> QED BY <2>2, <2>3, <2>4
<1>2. ~late' /\ erasing'["DEPROVISION"] # {} => deprovision' # "NO"
  <2> SUFFICES ASSUME ~late', erasing'["DEPROVISION"] # {}, deprovision' = "NO"
               PROVE  FALSE
    OBVIOUS
  <2>1. ~HeartbeatDenied /\ ~(SyncDenied /\ deprovision = "NO")
    BY DEF HeartbeatDenied, SyncDenied, Deprovision
  <2>2. ~Restart
    BY <1>0 DEF Restart
  <2>3. ~late /\ erasing["DEPROVISION"] # {}
    BY <1>0, <2>1, <2>2, DeprovisionFrame, ErasureGoesOn
  <2>4. deprovision # "NO" /\ pairing.step = "IDLE"
    BY <1>0, <2>3 DEF ErasureOK
  <2>5. ~PairFinalized /\ ~Deprovisioned
    BY <2>3, <2>4 DEF PairFinalized, Deprovisioned
  <2>6. ~(\E e \in Erasers : EraseFails(e))
    BY <2>4, FailedErasure
  <2> QED BY <2>1, <2>2, <2>4, <2>5, <2>6, ScreenFrame
          DEF EraseStore, EraseAssets, BootErase, BootErased, BootResume, HeartbeatDenied,
              SyncDenied, SyncStaged, RunRollback, RunSwap, RollbackThrows
<1>3. deprovision' = "CLEARING" /\ "STORE" \notin erasing'["DEPROVISION"] => stored' = None
  <2> SUFFICES ASSUME deprovision' = "CLEARING", "STORE" \notin erasing'["DEPROVISION"]
               PROVE  stored' = None
    OBVIOUS
  <2>1. CASE \E e \in Erasers : EraseStore(e)
    BY <2>1 DEF EraseStore
  <2>2. CASE stored = None /\ ~PairActivated
    BY <2>2, StoredStays
  <2>3. CASE deprovision = "CLEARING" /\ "STORE" \notin erasing["DEPROVISION"]
    BY <1>0, <2>2, <2>3 DEF ErasureOK, PairActivated, PairingForm
  <2>4. CASE \E e \in Erasers : EraseAssets(e)
    BY <1>0, <2>3, <2>4 DEF EraseAssets
  <2>5. CASE \E e \in Erasers : EraseFails(e)
    <3>1. PICK e \in Erasers : EraseFails(e)
      BY <2>5
    <3>2. deprovision = "CLEARING"
      BY <3>1, FailedErasure
    <3>3. CASE e = "DEPROVISION"
      <4>1. deprovision' = "STUCK"
        BY <3>1, <3>2, <3>3 DEF EraseFails, Awaited
      <4> QED BY <4>1
    <3>4. CASE e # "DEPROVISION"
      <4>1. PICK part \in erasing[e] : erasing' = [erasing EXCEPT ![e] = @ \ {part}]
        BY <3>1 DEF EraseFails
      <4> QED BY <1>0, <2>3, <3>2, <3>4, <4>1
    <3> QED BY <3>3, <3>4
  <2>6. CASE HeartbeatDenied \/ (SyncDenied /\ deprovision = "NO")
    BY <1>0, <2>6 DEF HeartbeatDenied, SyncDenied, Deprovision, Everything
  <2>7. CASE BootErase
    BY <1>0, <2>3, <2>7 DEF BootErase
  <2>8. CASE SyncStaged
    BY <1>0, <2>3, <2>8 DEF SyncStaged
  <2>9. CASE UNCHANGED <<erasing, deprovision>>
    BY <2>3, <2>9
  <2> QED BY <2>1, <2>4, <2>5, <2>6, <2>7, <2>8, <2>9, ScreenFrame
          DEF Restart, BootErased, BootResume, Deprovisioned, SyncDenied, PairFinalized,
              RunRollback, RunSwap, RollbackThrows
<1>4. screen' = "ERASING" \/ erasing'["BOOT"] # {} => stored' = None
  <2> SUFFICES ASSUME screen' = "ERASING" \/ erasing'["BOOT"] # {} PROVE stored' = None
    OBVIOUS
  <2>1. CASE BootErase
    <3>1. stored \in {None} \union (Keys \ {alias})
      BY <2>1 DEF BootErase
    <3>2. stored = None /\ UNCHANGED stored
      BY <1>0, <2>1, <3>1 DEF BootErase, StoredOK
    <3> QED BY <3>2
  <2>2. CASE ~BootErase /\ (screen = "ERASING" \/ erasing["BOOT"] # {})
    <3>1. stored = None
      BY <1>0, <2>2 DEF ErasureOK
    <3>2. Fresh
      BY <1>0, <2>2 DEF BootOK
    <3>3. ~PairActivated
      BY <3>2, NoPairingFields DEF PairActivated, Fresh
    <3> QED BY <3>1, <3>3, StoredStays
  <2>3. BootErase \/ screen = "ERASING" \/ erasing["BOOT"] # {}
    <3>1. CASE screen' = "ERASING"
      <4>1. CASE \E e \in Erasers : EraseFails(e)
        BY <3>1, <4>1, FailedErasure
      <4>2. CASE RunRollback \/ RunSwap
        BY <3>1, <4>2 DEF RunRollback, RunSwap, RolledBack
      <4> QED BY <3>1, <4>1, <4>2, ScreenFrame
              DEF EraseStore, EraseAssets, Restart, BootErased, BootResume, HeartbeatDenied,
                  Deprovisioned, SyncDenied, Deprovision, PairFinalized, SyncStaged, RollbackThrows
    <3>2. CASE erasing'["BOOT"] # {}
      BY <1>0, <3>2, ErasureGoesOn
    <3> QED BY <3>1, <3>2
  <2> QED BY <2>1, <2>2, <2>3
<1> QED BY <1>1, <1>2, <1>3, <1>4 DEF ErasureOK

\* A rollback leaves the screen, or stops on a fatal one.
LEMMA RollbackScreen ==
    ASSUME RunRollback \/ RunSwap \/ RollbackThrows
    PROVE  screen' \in {screen, "FATAL"} /\ UNCHANGED <<creds, deprovision, erasing>>
BY DEF RunRollback, RunSwap, RollbackThrows, RolledBack

\* A device is paired when nothing is stored.
LEMMA PairedStep ==
    ASSUME IdentityInv, SessionNext
    PROVE  PairedOK'
<1>0. /\ PairedOK /\ ErasureOK /\ StoredOK /\ PairingOK /\ BootOK /\ FlightInv
      /\ creds \in Keys \union {None} /\ alias \in Keys /\ "BOOT" \in Erasers
      /\ pairing \in [step : PairingSteps, key : Keys \union {None}]
  BY DEF IdentityInv, SessionInv, PairingInv, PairingTypes, ScreenInv, FlightInv, FlightTypes, Erasers
<1>1. BootErase \/ BootErased \/ BootResume => Fresh /\ pairing.step = "IDLE"
  BY <1>0, NoPairingFields DEF BootErase, BootErased, BootResume, Booting, BootOK, Fresh
<1>2. BootErased => stored = None /\ UNCHANGED stored
  BY <1>0 DEF BootErased, ErasureOK, diskVars
<1>3. pairing'.step \in {"WAITING", "ROTATING"} => stored' = None
  <2>1. CASE UNCHANGED <<diskVars, pairing>> \/ PairPoll
    BY <1>0, <2>1 DEF PairedOK, diskVars, PairPoll
  <2>2. CASE \E e \in Erasers : EraseStore(e)
    BY <2>2 DEF EraseStore
  <2>3. CASE Restart \/ PairRejected \/ PairFinalized \/ RotateCommit
    BY <2>3, NoPairingFields DEF Restart, PairRejected, PairFinalized, RotateCommit
  <2>4. CASE BootErase \/ BootResume
    BY <1>1, <2>4 DEF BootErase, BootResume
  <2>5. CASE BootErased
    BY <1>2, <2>5
  <2>6. CASE PairSave \/ \E k \in Keys : RotateGenerate(k)
    BY <1>0, <2>6, NoPairingFields DEF PairSave, RotateGenerate, PairedOK
  <2>7. CASE PairActivated
    BY <1>0, <2>7 DEF PairActivated
  <2> QED BY <2>1, <2>2, <2>3, <2>4, <2>5, <2>6, <2>7, PairingFrame
<1>4. PairingForm' /\ pairing'.step # "FINALIZING" => stored' = None
  <2> SUFFICES ASSUME screen' = "READY", creds' = None, deprovision' = "NO",
                      pairing'.step # "FINALIZING"
               PROVE  stored' = None
    BY DEF PairingForm
  <2>1. ~PairActivated /\ ~Restart /\ ~HeartbeatDenied /\ ~(SyncDenied /\ deprovision = "NO")
    <3>1. ~PairActivated
      BY <1>0 DEF PairActivated
    <3>2. ~Restart /\ ~HeartbeatDenied /\ ~(SyncDenied /\ deprovision = "NO")
      BY DEF Restart, HeartbeatDenied, SyncDenied, Deprovision
    <3> QED BY <3>1, <3>2
  <2>2. ~PairFinalized
    <3> SUFFICES ASSUME PairFinalized PROVE FALSE
      OBVIOUS
    <3>1. creds' = pairing.key /\ pairing.key \in Keys
      BY <1>0 DEF PairFinalized, PairingOK
    <3> QED BY <3>1, NotNone
  <2>3. CASE stored = None
    BY <2>1, <2>3, StoredStays
  <2>4. CASE pairing.step = "FINALIZING"
    BY <1>1, <2>1, <2>2, <2>4, PairingFrame, NoPairingFields
       DEF EraseStore, PairSave, PairPoll, PairingForm, PairRejected, RotateGenerate, RotateCommit,
           diskVars
  <2>5. CASE PairingForm /\ pairing.step # "FINALIZING"
    BY <1>0, <2>3, <2>5 DEF PairedOK
  <2>6. CASE screen # "READY"
    <3>1. CASE BootErased
      BY <1>2, <3>1
    <3>2. CASE BootResume
      BY <1>0, <3>2, NotNone DEF BootResume, Booting
    <3>3. CASE SyncStaged
      <4>1. creds = sync.trust /\ sync.trust \in Keys /\ UNCHANGED creds
        BY <1>0, <2>6, <3>3 DEF SyncStaged, FlightInv, FlightOK
      <4> QED BY <4>1, NotNone
    <3>4. CASE \E e \in Erasers : EraseFails(e)
      BY <2>6, <3>4, FailedErasure
    <3> QED BY <2>1, <2>2, <2>6, <3>1, <3>2, <3>3, <3>4, ScreenFrame, RollbackScreen
            DEF EraseStore, EraseAssets, BootErase, Deprovisioned, SyncDenied
  <2>7. CASE creds # None
    BY <2>1, <2>2, <2>7, CredentialsFrame
       DEF EraseStore, EraseFails, BootResume, Booting, Deprovisioned, SyncDenied
  <2>8. CASE deprovision # "NO"
    <3>1. CASE Deprovisioned
      <4>1. stored = None
        BY <1>0, <3>1 DEF Deprovisioned, ErasureOK
      <4> QED BY <2>3, <4>1
    <3>2. CASE \E e \in Erasers : EraseFails(e)
      BY <2>8, <3>2, FailedErasure
    <3> QED BY <2>1, <2>2, <2>8, <3>1, <3>2, ScreenFrame, RollbackScreen
            DEF EraseStore, EraseAssets, BootErase, BootErased, BootResume, SyncDenied, SyncStaged
  <2> QED BY <2>3, <2>4, <2>5, <2>6, <2>7, <2>8 DEF PairingForm
<1> QED BY <1>3, <1>4 DEF PairedOK

\* Who is served stays so: only an identity that the server has not decided is paired.
LEMMA ServedStays ==
    ASSUME IdentityInv, SessionNext, NEW k \in Keys, k \in Served
    PROVE  k \in Served'
<1>0. /\ PairingOK /\ k \in Known /\ k \in Known' /\ k \notin Paired
  BY KnownGrows DEF IdentityInv, SessionInv, PairingInv, Served
<1>1. CASE k = alias
  <2>1. pairing.step \notin {"WAITING", "FINALIZING"} /\ pending = None
    BY <1>0, <1>1 DEF Paired
  <2>2. ~PairSave /\ ~PairPoll /\ ~PairActivated /\ ~PairFinalized /\ ~PairRejected
    BY <1>0, <1>1, <2>1 DEF PairSave, PairPoll, PairActivated, PairFinalized, PairRejected, Known
  <2>3. pairing'.step \notin {"WAITING", "FINALIZING"}
    <3>1. CASE Restart \/ BootErased \/ RotateCommit
      BY <2>1, <3>1, NoPairingFields DEF Restart, BootErased, RotateCommit
    <3>2. CASE \E j \in Keys : RotateGenerate(j)
      BY <3>2 DEF RotateGenerate
    <3> QED BY <2>1, <2>2, <3>1, <3>2, PairingFrame DEF EraseStore, BootErase, BootResume
  <2>4. pending' = None
    BY <2>1, <2>2, PairingFrame
       DEF EraseStore, Restart, BootErase, Resumable, BootErased, BootResume, RotateGenerate,
           RotateCommit, diskVars
  <2> QED BY <1>0, <2>3, <2>4 DEF Served, Paired
<1>2. CASE k # alias
  <2>1. CASE RotateCommit
    <3>1. pending = None
      BY <1>0, <2>1, NoPairingFields DEF RotateCommit, PairingOK, Fresh
    <3>2. pending' = None /\ pairing'.step = "IDLE"
      BY <2>1, <3>1, NoPairingFields DEF RotateCommit
    <3> QED BY <1>0, <3>2 DEF Served, Paired
  <2>2. CASE UNCHANGED alias
    BY <1>0, <1>2, <2>2 DEF Served, Paired
  <2> QED BY <2>1, <2>2, StoredFrame DEF Revoke, Approve, EraseStore, PairActivated, diskVars
<1> QED BY <1>1, <1>2

\* A flight under way stays for the identity it began with.
LEMMA FlightKept ==
    ASSUME FlightInv, SessionNext, sync'.step # "IDLE"
    PROVE  \/ SyncAsk
           \/ /\ sync.step # "IDLE" /\ sync'.trust = sync.trust
              /\ sync'.step = "ASKING" => sync' = sync
<1>0. sync \in Flights /\ (sync.step = "IDLE" => sync = NoSync)
  BY DEF FlightInv, FlightTypes, FlightOK
<1>1. CASE UNCHANGED sync
  BY <1>0, <1>1
<1>2. CASE Restart \/ SyncEnds \/ RunRecovery
  BY <1>2, NoSyncFields DEF Restart, SyncEnds, RunRecovery
<1>3. CASE \E e \in Erasers : EraseFails(e)
  BY <1>1, <1>3, FailedErasure, NoSyncFields
<1>4. CASE SyncLost \/ SyncAnswered \/ SyncStageFailed \/ SyncDenied \/ SyncStaged
  <2>1. \/ sync' = NoSync
        \/ /\ sync.step # "IDLE"
           /\ \E step \in SyncSteps \ {"IDLE", "ASKING"} :
                 \/ sync' = [sync EXCEPT !.step = step]
                 \/ sync' = [sync EXCEPT !.step = step, !.answer = None]
    <3>1. CASE SyncLost \/ SyncStageFailed
      <4>1. sync' = [sync EXCEPT !.step = "RECOVERING", !.answer = None] /\ sync.step # "IDLE"
        BY <3>1 DEF SyncLost, SyncStageFailed, RecoverAfter
      <4> QED BY <4>1 DEF SyncSteps
    <3>2. CASE SyncAnswered
      BY <3>2 DEF SyncAnswered, SyncSteps
    <3>3. CASE SyncDenied
      BY <3>3 DEF SyncDenied, SyncSteps
    <3>4. CASE SyncStaged
      BY <3>4 DEF SyncStaged, SyncSteps
    <3> QED BY <1>4, <3>1, <3>2, <3>3, <3>4
  <2> QED BY <1>0, <2>1, NoSyncFields DEF Flights
<1>5. CASE Manager
  BY <1>1, <1>5 DEF Manager, appVars
<1> QED BY <1>1, <1>2, <1>3, <1>4, <1>5, FlightFrame
        DEF BootResume, PairFinalized, HeartbeatDenied

\* The slots and the flight are of identities that are served.
LEMMA OwnersStep ==
    ASSUME IdentityInv, SessionNext
    PROVE  OwnersOK'
<1>0. /\ SessionInv /\ OwnersOK /\ StoredOK /\ CredentialsOK /\ ContentInv /\ StagingInv /\ QueueOK
      /\ FlightInv /\ ClearedOK /\ BootOK /\ PairingOK
      /\ active \in Manifest \union {None} /\ previous \in Manifest \union {None}
      /\ creds \in Keys \union {None} /\ ServerTypes
  BY DEF IdentityInv, SessionInv, ContentInv, ContentTypes, FlightInv, FlightTypes, ScreenInv, PairingInv
<1>1. ASSUME NEW m \in {active, previous} \ {None} PROVE m.owner \in Served'
  <2>1. m.owner \in Keys /\ m.owner \in Served
    BY <1>0, ManifestFields DEF OwnersOK
  <2> QED BY <2>1, ServedStays
<1>2. sync.step # "IDLE" => sync.trust \in Keys /\ sync.trust \in Served
  BY <1>0 DEF OwnersOK, FlightInv, FlightOK
<1>3. sync.step # "IDLE" => sync.trust \in Served'
  BY <1>2, ServedStays
<1>4. \A m \in {active', previous'} \ {None} : m.owner \in Served'
  <2>1. CASE ~Activate /\ ~ActivateCleared
    <3>1. {active', previous'} \subseteq {active, previous, None}
      BY <1>0, <2>1, SlotsShrink
    <3> QED BY <1>1, <3>1
  <2>2. CASE Activate \/ ActivateCleared
    <3>1. CASE UNCHANGED slots \/ (active' = None /\ previous' = None)
      BY <1>1, <3>1 DEF slots
    <3>2. CASE /\ active' = stage.manifest /\ active'.owner = stage.trust
               /\ previous' \in {active, previous, None}
      <4>1. stage.step # "IDLE"
        BY <2>2 DEF Activate, ActivateCleared
      <4>2. sync.step # "IDLE" /\ stage.trust = sync.trust
        BY <1>0, <4>1 DEF FlightInv, FlightOK
      <4>3. active'.owner \in Served'
        BY <1>3, <3>2, <4>2
      <4> QED BY <1>1, <3>2, <4>3
    <3> QED BY <1>0, <2>2, <3>1, <3>2, ActivateSlots
  <2> QED BY <2>1, <2>2
<1>5. CASE SyncAsk
  <2>1. /\ creds # None /\ creds \in Keys /\ UNCHANGED <<live, revoked, alias, pending, pairing>>
        /\ sync'.step = "ASKING" /\ sync'.trust = creds
    BY <1>0, <1>5 DEF SyncAsk, diskVars, serverVars
  <2>2. creds \in Known
    BY <1>0, <2>1 DEF CredentialsOK, StoredOK, Runs
  <2>3. creds \notin Paired
    BY <1>0, <2>1, NoPairingFields DEF Paired, PairingOK, Fresh
  <2>4. creds \in Served'
    BY <2>1, <2>2, <2>3, ServedStays DEF Served
  <2>7. ASSUME creds \in live PROVE sync'.answer # None
    <3>1. sync'.answer = [version |-> published.version, generatedAt |-> published.generatedAt,
                          owner |-> creds]
      BY <1>5, <2>7 DEF SyncAsk
    <3>2. sync'.answer \in Manifest
      <4>1. published \in [version : Versions, generatedAt : 1 .. MaxGeneratedAt]
        BY <1>0 DEF ServerTypes
      <4> QED BY <2>1, <3>1, <4>1 DEF Manifest
    <3> QED BY <3>2, NotNone
  <2>8. sync'.answer = None => creds \in revoked'
    BY <2>1, <2>2, <2>7 DEF Known
  <2> QED BY <1>4, <2>1, <2>4, <2>8 DEF OwnersOK
<1>6. CASE ~SyncAsk
  <2>1. sync'.step # "IDLE" => sync'.trust \in Served'
    <3>1. sync'.step # "IDLE" => sync.step # "IDLE" /\ sync'.trust = sync.trust
      BY <1>0, <1>6, FlightKept
    <3> QED BY <1>3, <3>1
  <2>2. sync'.step = "ASKING" /\ sync'.answer = None => sync'.trust \in revoked'
    <3>1. sync'.step = "ASKING" => sync' = sync
      BY <1>0, <1>6, FlightKept
    <3> QED BY <1>0, <3>1, KnownGrows DEF OwnersOK
  <2> QED BY <1>4, <2>1, <2>2 DEF OwnersOK
<1> QED BY <1>5, <1>6

\* The identity stays consistent.
LEMMA IdentityStep ==
    ASSUME IdentityInv, SessionNext
    PROVE  IdentityInv'
<1>1. SessionInv'
  BY SessionKept DEF IdentityInv
<1> QED BY <1>1, StoredStep, CredentialsStep, ErasureStep, PairedStep, OwnersStep DEF IdentityInv

-----------------------------------------------------------------------------
(* The content.  The release in a slot has its assets until it has ended: a           *)
(* collection keeps them, and a staging that is not cancelled fetches what it lacks.  *)

Past(m, time) == Deadline[m.version] <= time

Have == cached \union stolen
Holds == live \intersect {stored, creds}

\* What a collection has read of the slots is there when it deletes the rest.
SweepOK ==
    /\ sweep.step = "PREVIOUS" /\ active # None /\ ~Past(active, now) =>
           ItemsOf(active) \subseteq sweep.kept \/ active = previous
    /\ sweep.step = "DELETE" =>
           \A m \in {active, previous} \ {None} : ~Past(m, now) => ItemsOf(m) \subseteq sweep.kept

\* A release is fetched before it is activated.
Fetches(step) == step = "PREFETCH" \/ Activates(step)

FetchOK ==
    /\ Fetches(stage.step) /\ ~stage.failed /\ stage.trust \in Holds /\ ~Past(stage.manifest, now)
       => ItemsOf(stage.manifest) \subseteq Have \union stage.todo \union stage.fetching
    /\ Activates(stage.step) => ~stage.failed /\ stage.todo = {} /\ stage.fetching = {}

CompleteInv == IdentityInv /\ SlotsAreComplete /\ SweepOK /\ FetchOK

\* The collection of the cache.
LEMMA SweepFrame ==
    ASSUME SessionNext
    PROVE  \/ UNCHANGED sweep
           \/ /\ \/ StageBegin \/ SweepBegin \/ SweepActive \/ SweepPrevious \/ SweepDelete
                 \/ Activate \/ ActivateCleared
              /\ Manager
           \/ Restart
<1> USE DEF managerVars, stagingVars
<1>1. CASE Manager
  BY <1>1 DEF Manager, ManagerStep, PrefetchClaim, PrefetchLand, PrefetchFail, PrefetchEnd
<1>2. CASE Environment
  BY <1>2 DEF Environment, Tick, Publish, Revoke, Approve
<1>3. CASE Erasure
  BY <1>3 DEF Erasure, EraseStore, EraseAssets, EraseFails
<1>4. CASE Boot
  BY <1>4 DEF Boot, BootErase, BootErased, BootResume
<1>5. CASE Pair
  BY <1>5 DEF Pair, PairSave, PairPoll, PairRejected, PairActivated, PairFinalized,
     RotateGenerate, RotateCommit
<1>6. CASE Session
  BY <1>6 DEF Session, HeartbeatDenied, Deprovisioned, SyncAsk, SyncLost, SyncAnswered,
     SyncDenied, SyncStageFailed, SyncStaged, SyncEnds, PlaybackError, EmergencyEnds,
     PlaybackEnds, RunRecovery, RunRollback, RunSwap, RollbackThrows
<1> QED BY <1>1, <1>2, <1>3, <1>4, <1>5, <1>6 DEF SessionNext

\* The clock goes forward.
LEMMA TimePasses ==
    ASSUME ServerTypes, SessionNext
    PROVE  now \in Nat /\ now' \in Nat /\ now <= now'
<1>1. now \in Nat
  BY ManifestAssumption DEF ServerTypes, ManifestAssumption
<1>2. now' = now \/ now' = now + 1
  BY ServerFrame DEF Tick, Publish, Revoke, Approve, PairPoll, managerVars
<1> QED BY <1>1, <1>2

\* A deadline that has passed stays passed.
LEMMA PastStays ==
    ASSUME ServerTypes, SessionNext, NEW m \in Manifest, ~Past(m, now')
    PROVE  ~Past(m, now)
<1>1. now \in Nat /\ now' \in Nat /\ now <= now' /\ Deadline[m.version] \in Nat
  BY TimePasses, ManifestFields
<1> QED BY <1>1 DEF Past

\* A release that may still be played has not passed its deadline.
LEMMA NotPast ==
    ASSUME NEW m
    PROVE  /\ ~Ended(m) /\ ~Expired(m) <=> ~Past(m, now)
           /\ ~Past(m, now) => ~Ended(m)
BY DEF Ended, Expired, Past

\* Nobody who is served becomes the live identity of the device.
LEMMA HoldsStays ==
    ASSUME IdentityInv, SessionNext, NEW k \in Served, k \in Holds'
    PROVE  k \in Holds
<1>0. PairingOK /\ k \in Known /\ k \notin Paired
  BY DEF IdentityInv, SessionInv, PairingInv, Served
<1>1. k \in live
  BY <1>0, StoredFrame DEF Holds, Known, Revoke, Approve, EraseStore, PairActivated, RotateCommit, serverVars
<1>2. CASE k = stored'
  <2>1. CASE PairActivated
    BY <1>0, <1>2, <2>1 DEF PairActivated, PairingOK, Paired
  <2>2. CASE stored' = None
    BY <1>1, <1>2, <2>2, NotNone DEF IdentityInv, SessionInv, ServerTypes
  <2> QED BY <1>1, <1>2, <2>1, <2>2, StoredStays DEF Holds
<1>3. CASE k = creds'
  <2>1. CASE BootResume
    BY <1>1, <1>3, <2>1 DEF BootResume, Holds
  <2>2. CASE PairFinalized
    <3>1. k \in {creds, pairing.key} /\ pairing.key = alias /\ pairing.step = "FINALIZING"
      BY <1>0, <1>3, <2>2 DEF PairFinalized, PairingOK
    <3> QED BY <1>0, <1>1, <3>1 DEF Paired, Holds
  <2>3. CASE creds' = None
    BY <1>1, <1>3, <2>3, NotNone DEF IdentityInv, SessionInv, ServerTypes
  <2> QED BY <1>1, <1>3, <2>1, <2>2, <2>3, CredentialsFrame
          DEF Holds, Restart, PairActivated, HeartbeatDenied, Deprovisioned, SyncDenied, Deprovision,
              EraseStore, EraseFails
<1> QED BY <1>2, <1>3 DEF Holds

\* The staged release is for an identity that is served.
LEMMA StagedTrust ==
    ASSUME IdentityInv, stage.step # "IDLE"
    PROVE  /\ stage.trust \in Served /\ stage.manifest \in Manifest
           /\ stage.manifest.owner = stage.trust
<1>1. /\ stage.trust = sync.trust /\ sync.step = "STAGING" /\ stage.manifest.owner = stage.trust
      /\ stage.manifest \in Manifest
  BY DEF IdentityInv, SessionInv, FlightInv, FlightOK, StagingInv, StagingOK
<1> QED BY <1>1 DEF IdentityInv, OwnersOK

\* No collection is under way while a release is fetched and activated.
LEMMA SweepAlone ==
    ASSUME StagingInv, sweep.step # "IDLE"
    PROVE  ~Fetches(stage.step)
BY DEF StagingInv, StagingOK, Running, Fetches, Activates

\* An operation on the slots that takes the baseline leaves an active release that has
\* ended or has just been moved there, or was not the baseline itself.
LEMMA OutcomeKeeps ==
    ASSUME ContentInv, NEW o, NEW trust, NEW expected, NEW op,
           \/ o \in {RecoverOutcome(trust), RollbackOutcome(trust, expected)}
           \/ o = SwapOutcome(op.expected, op.until) /\ Swappable(op, active, previous)
    PROVE  o.active # None /\ ~Past(o.active, now) =>
              o.active = o.previous \/ (o.active = active /\ (o.previous = previous \/ active # previous))
<1>1. CASE o \in {Blank, Keep(active), Keep(None), Restore}
  BY <1>1 DEF Blank, Keep, Restore, Outcome
<1>2. CASE o = Drop /\ (active = None \/ Past(active, now) \/ active # previous)
  BY <1>2 DEF Drop, Outcome
<1>3. CASE o \in {RecoverOutcome(trust), RollbackOutcome(trust, expected)}
  <2>1. \/ o \in {Blank, Keep(active), Keep(None), Restore}
        \/ o = Drop /\ (Withdrawn(active) \/ Ended(active) \/ Expired(active))
    BY <1>3 DEF RecoverOutcome, RollbackOutcome, PlayableOrNone
  <2>2. active # None /\ Withdrawn(active) => active # previous
    BY DEF ContentInv, BaselineOK, Baseline
  <2> QED BY <1>1, <1>2, <2>1, <2>2, NotPast
<1>4. CASE o = SwapOutcome(op.expected, op.until) /\ Swappable(op, active, previous)
  <2>1. \/ o \in {Keep(active), Restore} \/ (o = Drop /\ op.until <= now)
    BY <1>4 DEF SwapOutcome
  <2>2. CASE o = Drop /\ op.until <= now
    BY <1>2, <1>4, <2>2 DEF Swappable, Past
  <2> QED BY <1>1, <2>1, <2>2
<1> QED BY <1>3, <1>4

\* A step but an activation that takes the baseline leaves an active release that has
\* ended or has just been moved there, or was not the baseline itself.
Settled ==
    active' # None /\ ~Past(active', now) =>
       active' = previous' \/ (active' = active /\ (previous' = previous \/ active # previous))

LEMMA SlotsMove ==
    ASSUME SessionInv, SessionNext, ~Activate, ~ActivateCleared
    PROVE  Settled
<1>0. ContentInv /\ SwapOK
  BY DEF SessionInv
<1>1. CASE UNCHANGED slots
  BY <1>1 DEF slots, Settled
<1>2. CASE \E e \in Erasers : EraseStore(e)
  BY <1>2 DEF EraseStore, Settled
<1>3. ASSUME NEW o, NEW trust, NEW expected, NEW op, Apply(o),
             \/ o \in {RecoverOutcome(trust), RollbackOutcome(trust, expected)}
             \/ o = SwapOutcome(op.expected, op.until) /\ Swappable(op, active, previous)
      PROVE  Settled
  <2>1. active' = o.active /\ previous' = o.previous
    BY <1>3 DEF Apply
  <2>2. o.active # None /\ ~Past(o.active, now) =>
              o.active = o.previous \/ (o.active = active /\ (o.previous = previous \/ active # previous))
    BY <1>0, <1>3, OutcomeKeeps
  <2> QED BY <2>1, <2>2 DEF Settled
<1>4. CASE BootResume
  BY <1>3, <1>4 DEF BootResume
<1>5. CASE RunRecovery
  BY <1>3, <1>5 DEF RunRecovery
<1>6. CASE RunRollback
  BY <1>1, <1>3, <1>6 DEF RunRollback
<1>7. CASE RunSwap
  <2>1. Swappable(Head(stateQueue), active, previous)
    BY <1>0, <1>7 DEF RunSwap, HeadIs, SwapOK
  <2> QED BY <1>3, <1>7, <2>1 DEF RunSwap
<1>8. CASE SweepDelete \/ (\E a \in Assets : PrefetchLand(a)) \/ \E e \in Erasers : EraseAssets(e)
  BY <1>1, <1>8 DEF SweepDelete, PrefetchLand, EraseAssets
<1> QED BY <1>1, <1>2, <1>4, <1>5, <1>6, <1>7, <1>8, ContentFrame

\* What a collection keeps.
LEMMA SweepStep ==
    ASSUME SessionInv, SweepOK, SessionNext
    PROVE  SweepOK'
<1>0. StagingInv /\ ContentInv /\ ContentTypes /\ ServerTypes
  BY DEF SessionInv, ContentInv
<1>1. CASE sweep'.step \notin {"PREVIOUS", "DELETE"}
  BY <1>1 DEF SweepOK
<1>2. CASE Activate \/ ActivateCleared
  <2>1. Activates(stage.step)
    BY <1>2 DEF Activate, ActivateCleared, Activates
  <2>2. sweep.step = "IDLE"
    BY <1>0, <2>1, SweepAlone DEF Fetches
  <2>3. sweep' = sweep \/ sweep' = [NoSweep EXCEPT !.step = "ACTIVE"]
    BY <1>2 DEF Activate, ActivateCleared, Tidy
  <2>4. sweep'.step \in {"IDLE", "ACTIVE"}
    BY <2>2, <2>3 DEF NoSweep
  <2> QED BY <1>1, <2>4
<1>3. CASE SweepActive
  <2>1. /\ sweep'.step = "PREVIOUS" /\ sweep'.kept = ItemsOf(active)
        /\ active' = active
    BY <1>3 DEF SweepActive, slots
  <2> QED BY <2>1 DEF SweepOK
<1>4. CASE SweepPrevious
  <2>1. /\ sweep.step = "PREVIOUS" /\ sweep'.step = "DELETE"
        /\ sweep'.kept = sweep.kept \union ItemsOf(previous)
        /\ active' = active /\ previous' = previous /\ now' = now
    BY <1>4 DEF SweepPrevious, slots
  <2>2. active # None /\ ~Past(active, now) =>
           ItemsOf(active) \subseteq sweep.kept \/ active = previous
    BY <2>1 DEF SweepOK
  <2>3. ASSUME NEW m \in {active', previous'} \ {None}, ~Past(m, now')
        PROVE  ItemsOf(m) \subseteq sweep'.kept
    BY <2>1, <2>2, <2>3
  <2> QED BY <2>1, <2>3 DEF SweepOK
<1>5. CASE UNCHANGED sweep /\ ~Activate /\ ~ActivateCleared
  <2>1. /\ {active', previous'} \subseteq {active, previous, None}
        /\ active' # None /\ ~Past(active', now) =>
              active' = previous' \/ (active' = active /\ (previous' = previous \/ active # previous))
    BY <1>0, <1>5, SlotsMove, SlotsShrink DEF Settled
  <2>2. ASSUME NEW m \in {active', previous'} \ {None}, ~Past(m, now')
        PROVE  m \in {active, previous} \ {None} /\ ~Past(m, now)
    <3>1. m \in {active, previous} \ {None} /\ m \in Manifest
      BY <1>0, <2>1, <2>2 DEF ContentTypes
    <3> QED BY <1>0, <2>2, <3>1, PastStays
  <2>3. CASE sweep.step = "PREVIOUS"
    <3>1. ASSUME active' # None, ~Past(active', now')
          PROVE  ItemsOf(active') \subseteq sweep.kept \/ active' = previous'
      <4>1. ~Past(active', now)
        BY <2>2, <3>1
      <4>2. CASE active' = active /\ (previous' = previous \/ active # previous)
        BY <2>3, <3>1, <4>1, <4>2 DEF SweepOK
      <4> QED BY <2>1, <3>1, <4>1, <4>2
    <3> QED BY <1>5, <2>3, <3>1 DEF SweepOK
  <2>4. CASE sweep.step = "DELETE"
    <3>1. \A m \in {active, previous} \ {None} : ~Past(m, now) => ItemsOf(m) \subseteq sweep.kept
      BY <2>4 DEF SweepOK
    <3> QED BY <1>5, <2>2, <2>4, <3>1 DEF SweepOK
  <2> QED BY <1>1, <1>5, <2>3, <2>4
<1>6. CASE StageBegin
  <2>1. sweep' = sweep \/ sweep'.step = "ACTIVE"
    BY <1>6, NoSweepFields DEF StageBegin, NoSweep
  <2> QED BY <1>1, <1>2, <1>5, <2>1
<1>7. CASE SweepBegin \/ SweepDelete \/ Restart
  <2>1. sweep'.step \in {"IDLE", "ACTIVE"}
    BY <1>7 DEF SweepBegin, SweepDelete, Restart, NoSweep
  <2> QED BY <1>1, <2>1
<1> QED BY <1>2, <1>3, <1>4, <1>5, <1>6, <1>7, SweepFrame

\* Nothing the live identity of the device has leaves the cache, but with a collection or
\* a straggler's erasure.
LEMMA HaveStays ==
    ASSUME IdentityInv, SessionNext, ~SweepDelete, Holds # {}
    PROVE  Have \subseteq Have'
<1>1. CASE UNCHANGED <<cached, stolen>>
  BY <1>1 DEF Have
<1>2. CASE Manager
  <2>1. cached \subseteq cached'
    BY <1>2 DEF Manager, ManagerStep, StageBegin, SweepBegin, SweepActive, SweepPrevious,
       PrefetchClaim, PrefetchLand, PrefetchFail, PrefetchEnd, Activate, ActivateCleared
  <2>2. stolen' = stolen \ cached'
    BY <1>2 DEF Manager
  <2> QED BY <2>1, <2>2 DEF Have
<1>3. CASE \E e \in Erasers : EraseAssets(e)
  <2>1. PICK e \in Erasers : EraseAssets(e) /\ erasing[e] # {}
    BY <1>3 DEF EraseAssets
  <2>2. Straggles(e)
    BY <2>1, ErasesRefused DEF Holds
  <2> QED BY <2>1, <2>2 DEF EraseAssets, Have
<1>4. CASE \/ \E e \in Erasers : EraseStore(e)
           \/ BootResume \/ RunRecovery \/ RunRollback \/ RunSwap
  BY <1>1, <1>4 DEF EraseStore, BootResume, RunRecovery, RunRollback, RunSwap, historyVars
<1>5. CASE UNCHANGED cached /\ ~Manager /\ ~(\E e \in Erasers : EraseAssets(e))
  <2>1. UNCHANGED stolen
    <3>1. CASE Restart \/ HeartbeatDenied \/ SyncDenied
      BY <3>1 DEF Restart, HeartbeatDenied, SyncDenied
    <3>2. CASE \E e \in Erasers : EraseStore(e)
      BY <3>2 DEF EraseStore
    <3> QED BY <1>5, <3>1, <3>2, HistoryFrame DEF historyVars
  <2> QED BY <1>1, <1>5, <2>1
<1>6. CASE /\ Activate \/ ActivateCleared \/ \E a \in Assets : PrefetchLand(a)
           /\ stolen' = stolen \ cached'
           /\ UNCHANGED <<serverVars, diskVars, appVars, late, orphaned>>
  BY <1>2, <1>6 DEF Manager, ManagerStep
<1> QED BY <1>2, <1>3, <1>4, <1>5, <1>6, ContentFrame

\* What is fetched for the live identity of the device stays.
LEMMA FetchedStays ==
    ASSUME IdentityInv, SessionNext, Fetches(stage.step), stage.trust \in Holds'
    PROVE  stage.trust \in Holds /\ Have \subseteq Have'
<1>1. stage.step # "IDLE" /\ StagingInv
  BY DEF Fetches, Activates, IdentityInv, SessionInv
<1>2. stage.trust \in Holds
  BY <1>1, StagedTrust, HoldsStays
<1>3. ~SweepDelete
  BY <1>1, SweepAlone DEF SweepDelete
<1> QED BY <1>2, <1>3, HaveStays

\* A release that goes on being fetched, or is activated, needs what it needed.
LEMMA FetchGoesOn ==
    ASSUME IdentityInv, FetchOK, SessionNext, Fetches(stage.step),
           stage'.manifest = stage.manifest, stage'.trust = stage.trust,
           ~stage'.failed => /\ ~stage.failed
                             /\ stage.todo \union stage.fetching
                                    \subseteq Have' \union stage'.todo \union stage'.fetching,
           Activates(stage'.step) => ~stage'.failed /\ stage'.todo = {} /\ stage'.fetching = {}
    PROVE  FetchOK'
<1>0. ServerTypes
  BY DEF IdentityInv, SessionInv
<1>1. PICK m \in Manifest : stage.manifest = m
  BY StagedTrust DEF Fetches, Activates
<1>2. ASSUME ~stage'.failed, stage.trust \in Holds', ~Past(m, now')
      PROVE  ItemsOf(m) \subseteq Have' \union stage'.todo \union stage'.fetching
  <2>1. Have \subseteq Have' /\ stage.trust \in Holds
    BY <1>2, FetchedStays
  <2>2. ~Past(m, now)
    BY <1>0, <1>2, PastStays
  <2>3. ItemsOf(m) \subseteq Have \union stage.todo \union stage.fetching
    BY <1>1, <1>2, <2>1, <2>2 DEF FetchOK
  <2> QED BY <1>2, <2>1, <2>3
<1> QED BY <1>1, <1>2 DEF FetchOK, Fetches, Activates, Past

\* What is left to fetch of the release that is being staged.
LEMMA FetchStep ==
    ASSUME IdentityInv, FetchOK, SessionNext
    PROVE  FetchOK'
<1>0. StagingInv /\ FlightInv /\ QueueOK /\ ServerTypes /\ stage \in Staged
  BY DEF IdentityInv, SessionInv, StagingInv, StagingTypes
<1>1. CASE ~Fetches(stage'.step)
  BY <1>1 DEF FetchOK, Fetches, Activates
<1>2. CASE UNCHANGED stage
  <2>1. CASE Fetches(stage.step)
    <3>1. Activates(stage'.step) => ~stage'.failed /\ stage'.todo = {} /\ stage'.fetching = {}
      BY <1>2 DEF FetchOK, Activates
    <3> QED BY <1>2, <2>1, <3>1, FetchGoesOn
  <2> QED BY <1>1, <1>2, <2>1
<1>3. CASE Restart \/ SyncStageFailed \/ SyncStaged
  <2>1. stage'.step = "IDLE"
    BY <1>3, NoStageFields DEF Restart, SyncStageFailed, SyncStaged
  <2> QED BY <1>1, <2>1 DEF Fetches, Activates
<1>4. CASE SyncAnswered
  BY <1>0, <1>1, <1>4, AnswerStages DEF Fetches, Activates
<1>5. CASE BootResume \/ PairFinalized \/ HeartbeatDenied \/ SyncAsk \/ SyncLost \/ SyncDenied
           \/ SyncEnds \/ RunRecovery \/ \E e \in Erasers : EraseFails(e)
  BY <1>2, <1>5 DEF BootResume, PairFinalized, HeartbeatDenied, SyncAsk, SyncLost, SyncDenied,
     SyncEnds, RunRecovery, EraseFails, managerVars, stagingVars
<1>6. CASE StageBegin
  <2>1. stage'.step \in {"FAILED", "PRUNING"}
    BY <1>0, <1>6 DEF StageBegin, Finish, Staged
  <2> QED BY <1>1, <2>1 DEF Fetches, Activates
<1>7. CASE SweepBegin \/ SweepActive \/ SweepPrevious
  BY <1>2, <1>7 DEF SweepBegin, SweepActive, SweepPrevious
<1>8. CASE SweepDelete
  <2>1. ASSUME NEW step \in {"DONE", "FAILED"}, Finish(step) PROVE FetchOK'
    <3>1. stage'.step = step
      BY <1>0, <2>1 DEF Finish, Staged
    <3> QED BY <1>1, <3>1 DEF Fetches, Activates
  <2>2. CASE stage.step = "PRUNING" /\ ~Cancelled
    <3>1. stage' = [stage EXCEPT !.step = "PREFETCH",
                      !.todo = IF Ended(stage.manifest) THEN {} ELSE ItemsOf(stage.manifest)]
      BY <1>8, <2>2 DEF SweepDelete
    <3>2. PICK m \in Manifest : stage.manifest = m
      BY <2>2, StagedTrust
    <3>3. /\ stage'.step = "PREFETCH" /\ stage'.manifest = m
          /\ stage'.todo = IF Ended(m) THEN {} ELSE ItemsOf(m)
      BY <1>0, <3>1, <3>2 DEF Staged
    <3>4. now' = now
      BY <1>8 DEF SweepDelete
    <3>5. ~Past(m, now') => stage'.todo = ItemsOf(m)
      BY <3>3, <3>4, NotPast
    <3> QED BY <3>3, <3>5 DEF FetchOK, Activates, Past
  <2>3. \/ Finish("FAILED") \/ Finish("DONE") \/ UNCHANGED stage
        \/ stage.step = "PRUNING" /\ ~Cancelled
    BY <1>8 DEF SweepDelete
  <2> QED BY <1>2, <2>1, <2>2, <2>3
<1>9. ASSUME NEW a \in Assets, PrefetchClaim(a) PROVE FetchOK'
  <2>1. stage.step = "PREFETCH" /\ ~stage.failed /\ stage'.step = stage.step
        /\ stage'.manifest = stage.manifest /\ stage'.trust = stage.trust
    BY <1>0, <1>9 DEF PrefetchClaim, Staged
  <2>2. ~stage'.failed => stage.todo \union stage.fetching \subseteq stage'.todo \union stage'.fetching
    <3>1. CASE Cancelled
      BY <1>0, <1>9, <3>1 DEF PrefetchClaim, Staged
    <3>2. CASE ~Cancelled
      <4>1. stage'.todo = stage.todo \ {a} /\ stage'.fetching = stage.fetching \union {a}
        BY <1>0, <1>9, <3>2 DEF PrefetchClaim, Staged
      <4> QED BY <4>1
    <3> QED BY <3>1, <3>2
  <2> QED BY <2>1, <2>2, FetchGoesOn DEF Fetches, Activates
<1>10. ASSUME NEW a \in Assets, PrefetchLand(a) PROVE FetchOK'
  <2>1. /\ stage'.step = stage.step /\ stage'.manifest = stage.manifest /\ stage'.trust = stage.trust
        /\ stage'.todo = stage.todo /\ stage'.fetching = stage.fetching \ {a}
        /\ stage'.failed = (stage.failed \/ Cancelled)
        /\ a \in cached' /\ stage.fetching # {}
    BY <1>0, <1>10 DEF PrefetchLand, Staged
  <2>2. ~Activates(stage.step)
    BY <2>1 DEF FetchOK
  <2>3. stage.todo \union stage.fetching \subseteq Have' \union stage'.todo \union stage'.fetching
    BY <2>1 DEF Have
  <2>4. CASE Fetches(stage.step)
    BY <2>1, <2>2, <2>3, <2>4, FetchGoesOn
  <2> QED BY <1>1, <2>1, <2>4
<1>11. ASSUME NEW a \in Assets, PrefetchFail(a) PROVE FetchOK'
  <2>1. stage'.step = stage.step /\ stage'.failed = TRUE /\ stage.fetching # {}
    BY <1>0, <1>11 DEF PrefetchFail, Staged
  <2>2. ~Activates(stage'.step)
    BY <2>1 DEF FetchOK
  <2> QED BY <2>1, <2>2 DEF FetchOK, Activates
<1>12. CASE PrefetchEnd
  <2>1. CASE stage' = [stage EXCEPT !.step = "FAILED", !.todo = {}]
    <3>1. stage'.step = "FAILED"
      BY <1>0, <2>1 DEF Staged
    <3> QED BY <1>1, <3>1 DEF Fetches, Activates
  <2>2. CASE /\ ~stage.failed /\ stage.todo = {}
             /\ stage' = [stage EXCEPT !.step = "ACTIVATING"]
    <3>1. stage.step = "PREFETCH" /\ stage.fetching = {}
      BY <1>12 DEF PrefetchEnd
    <3>2. /\ stage'.manifest = stage.manifest /\ stage'.trust = stage.trust
          /\ stage'.failed = stage.failed /\ stage'.todo = {} /\ stage'.fetching = {}
      BY <1>0, <2>2, <3>1 DEF Staged
    <3> QED BY <2>2, <3>1, <3>2, FetchGoesOn DEF Fetches
  <2> QED BY <1>12, <2>1, <2>2 DEF PrefetchEnd, Finish
<1>13. CASE Activate \/ ActivateCleared
  <2>1. Activates(stage.step) /\ ~stage.failed /\ stage.todo = {} /\ stage.fetching = {}
    BY <1>13 DEF Activate, ActivateCleared, Activates, FetchOK
  <2>2. \/ stage' = [stage EXCEPT !.step = "FAILED", !.todo = {}]
        \/ \E result : stage' = [stage EXCEPT !.step = "TIDYING", !.result = result]
        \/ \E result : stage' = [stage EXCEPT !.step = "CLEARED", !.result = result]
    BY <1>13, Zenon DEF Activate, ActivateCleared, Finish, Tidy
  <2>3. CASE \E result : stage' = [stage EXCEPT !.step = "CLEARED", !.result = result]
    <3>1. /\ stage'.manifest = stage.manifest /\ stage'.trust = stage.trust
          /\ stage'.failed = stage.failed /\ stage'.todo = {} /\ stage'.fetching = {}
      BY <1>0, <2>1, <2>3 DEF Staged
    <3> QED BY <2>1, <3>1, FetchGoesOn DEF Fetches
  <2>4. CASE ~\E result : stage' = [stage EXCEPT !.step = "CLEARED", !.result = result]
    <3>1. stage'.step \in {"FAILED", "TIDYING"}
      BY <1>0, <2>2, <2>4 DEF Staged
    <3> QED BY <1>1, <3>1 DEF Fetches, Activates
  <2> QED BY <2>3, <2>4
<1>14. CASE Manager
  BY <1>6, <1>7, <1>8, <1>9, <1>10, <1>11, <1>12, <1>13, <1>14 DEF Manager, ManagerStep
<1> QED BY <1>2, <1>3, <1>4, <1>5, <1>14, FlightFrame

\* The content of a slot stays.
LEMMA SlotStays ==
    ASSUME CompleteInv, SessionNext, NEW m \in {active, previous} \ {None},
           m.owner \in Holds', ~Past(m, now')
    PROVE  ItemsOf(m) \subseteq Have'
<1>0. m \in Manifest /\ m.owner \in Served /\ IdentityInv /\ ServerTypes
  BY DEF CompleteInv, IdentityInv, SessionInv, ContentInv, ContentTypes, OwnersOK
<1>1. m.owner \in Holds
  BY <1>0, HoldsStays
<1>2. ~Past(m, now)
  BY <1>0, PastStays
<1>3. ItemsOf(m) \subseteq Have
  BY <1>1, <1>2, NotPast DEF CompleteInv, SlotsAreComplete, Holds, Have
<1>4. CASE SweepDelete
  <2>1. ItemsOf(m) \subseteq sweep.kept
    BY <1>2, <1>4 DEF CompleteInv, SweepOK, SweepDelete
  <2>2. cached \intersect sweep.kept \subseteq cached'
    BY <1>4 DEF SweepDelete, Retained
  <2>3. stolen \subseteq Have'
    <3>1. CASE Restart
      BY <3>1 DEF Restart, Have
    <3>2. ~UNCHANGED sweep
      BY <1>4, NoSweepFields DEF SweepDelete
    <3> QED BY <3>1, <3>2, SweepFrame DEF Manager, Have
  <2> QED BY <1>3, <2>1, <2>2, <2>3 DEF Have
<1>5. CASE ~SweepDelete
  BY <1>0, <1>1, <1>3, <1>5, HaveStays
<1> QED BY <1>4, <1>5

\* A release that is activated has been fetched.
LEMMA ActivatedComplete ==
    ASSUME CompleteInv, SessionNext, Activate \/ ActivateCleared, NEW m \in Manifest,
           m = stage.manifest, m.owner \in Holds', ~Past(m, now')
    PROVE  ItemsOf(m) \subseteq Have'
<1>0. Fetches(stage.step) /\ Activates(stage.step) /\ IdentityInv /\ ServerTypes
  BY DEF Activate, ActivateCleared, Fetches, Activates, CompleteInv, IdentityInv, SessionInv
<1>1. m.owner = stage.trust
  BY <1>0, StagedTrust DEF Activates
<1>2. stage.trust \in Holds /\ Have \subseteq Have'
  BY <1>0, <1>1, FetchedStays
<1>3. ~Past(m, now)
  BY <1>0, PastStays
<1>4. ~stage.failed /\ stage.todo = {} /\ stage.fetching = {}
  BY <1>0 DEF CompleteInv, FetchOK
<1>5. ItemsOf(m) \subseteq Have
  BY <1>0, <1>2, <1>3, <1>4 DEF CompleteInv, FetchOK
<1> QED BY <1>2, <1>5

\* Every slot that may still be played keeps its assets.
LEMMA CompleteStep ==
    ASSUME CompleteInv, SessionNext
    PROVE  SlotsAreComplete'
<1>0. SessionInv /\ ContentInv /\ StagingInv /\ FlightInv /\ ClearedOK
  BY DEF CompleteInv, IdentityInv, SessionInv
<1>1. ASSUME NEW m \in {active', previous'} \ {None}, m.owner \in Holds', ~Past(m, now')
      PROVE  ItemsOf(m) \subseteq Have'
  <2>1. CASE m \in {active, previous}
    BY <1>1, <2>1, SlotStays
  <2>2. CASE ~Activate /\ ~ActivateCleared
    <3>1. {active', previous'} \subseteq {active, previous, None}
      BY <1>0, <2>2, SlotsShrink
    <3> QED BY <1>1, <2>1, <3>1
  <2>3. CASE Activate \/ ActivateCleared
    <3>1. CASE UNCHANGED slots \/ (active' = None /\ previous' = None)
      BY <1>1, <2>1, <3>1 DEF slots
    <3>2. CASE /\ active' = stage.manifest /\ active' \in Manifest
               /\ previous' \in {active, previous, None}
      <4>1. CASE m = active'
        BY <1>1, <2>3, <3>2, <4>1, ActivatedComplete
      <4> QED BY <1>1, <2>1, <3>2, <4>1
    <3> QED BY <1>0, <2>3, <3>1, <3>2, ActivateSlots
  <2> QED BY <2>2, <2>3
<1>2. ASSUME NEW m \in {active', previous'} \ {None}, m.owner \in Holds',
             ~(~Emergency(m) /\ Deadline[m.version] <= now'),
             ~(Emergency(m) /\ Deadline[m.version] <= now')
      PROVE  ItemsOf(m) \subseteq Have'
  <2>1. ~Past(m, now')
    BY <1>2 DEF Past
  <2> QED BY <1>1, <1>2, <2>1
<1> QED BY <1>2 DEF SlotsAreComplete, Ended, Expired, Emergency, Holds, Have

-----------------------------------------------------------------------------
(* The application and its content. *)

\* At first there is no identity, and no content.
LEMMA CompleteStarts == SessionInit => CompleteInv
<1> SUFFICES ASSUME SessionInit PROVE CompleteInv
  OBVIOUS
<1>0. SessionInv
  BY SessionStarts
<1>1. /\ active = None /\ previous = None /\ stage = NoStage /\ sweep = NoSweep
      /\ creds = None /\ sync = NoSync /\ screen = "BOOT" /\ stored = None /\ pending = None
      /\ erasing = [e \in Erasers |-> {}] /\ deprovision = "NO" /\ pairing = NoPairing
      /\ live = {} /\ revoked = {} /\ alias \in Keys /\ orphaned = None
  BY DEF SessionInit, ManagerInit, HistoryInit
<1>2. StoredOK /\ CredentialsOK
  BY <1>1, NoPairingFields DEF StoredOK, CredentialsOK
<1>3. ErasureOK
  BY <1>1 DEF ErasureOK, Erasers
<1>4. PairedOK /\ OwnersOK
  BY <1>1, NoPairingFields, NoSyncFields DEF PairedOK, OwnersOK, PairingForm
<1>5. SlotsAreComplete /\ SweepOK /\ FetchOK
  BY <1>1, NoStageFields, NoSweepFields DEF SlotsAreComplete, SweepOK, FetchOK, Fetches, Activates
<1> QED BY <1>0, <1>2, <1>3, <1>4, <1>5 DEF CompleteInv, IdentityInv

\* Every step keeps the whole invariant.
LEMMA CompleteKept == CompleteInv /\ [SessionNext]_sessionVars => CompleteInv'
<1> SUFFICES ASSUME CompleteInv, [SessionNext]_sessionVars PROVE CompleteInv'
  OBVIOUS
<1>1. CASE SessionNext
  BY <1>1, IdentityStep, CompleteStep, SweepStep, FetchStep DEF CompleteInv, IdentityInv
<1>2. CASE UNCHANGED sessionVars
  <2>0. SessionInv'
    BY SessionKept DEF CompleteInv, IdentityInv
  <2> USE <1>2 DEF sessionVars, managerVars, slots, stagingVars, serverVars, diskVars, appVars,
                   historyVars
  <2>1. StoredOK' /\ CredentialsOK' /\ ErasureOK'
    BY DEF CompleteInv, IdentityInv, StoredOK, CredentialsOK, ErasureOK, Refused, Known, Runs
  <2>2. PairedOK' /\ OwnersOK'
    BY DEF CompleteInv, IdentityInv, PairedOK, OwnersOK, PairingForm, Served, Known, Paired
  <2>3. SlotsAreComplete'
    BY DEF CompleteInv, SlotsAreComplete, Ended, Expired, Emergency
  <2>4. SweepOK' /\ FetchOK'
    BY DEF CompleteInv, SweepOK, FetchOK, Holds, Have, Fetches, Activates, Past
  <2> QED BY <2>0, <2>1, <2>2, <2>3, <2>4 DEF CompleteInv, IdentityInv
<1> QED BY <1>1, <1>2

\* So it always holds.
LEMMA CompleteHolds == SessionSpec => []CompleteInv
BY CompleteStarts, CompleteKept, PTL DEF SessionSpec

\* A player that runs comes back with the same identity after a restart: its credentials
\* are the stored ones, unless a flight that outlived the credentials of an earlier
\* pairing has erased exactly those.
THEOREM RunningIdentityAlwaysStored == SessionSpec => []RunningIdentityIsStored
<1>1. CompleteInv => RunningIdentityIsStored
  BY DEF CompleteInv, IdentityInv, CredentialsOK, Runs, RunningIdentityIsStored
<1> QED BY <1>1, CompleteHolds, PTL

\* A slot of the live identity of the device whose release may still be played has all its
\* assets, but for what such a flight erased: no staging, collection, rollback or recovery
\* takes the last known good content.
THEOREM SlotsAlwaysComplete == SessionSpec => []SlotsAreComplete
<1>1. CompleteInv => SlotsAreComplete
  BY DEF CompleteInv
<1> QED BY <1>1, CompleteHolds, PTL

=============================================================================
