-------------------------- MODULE HABootstrapProofs --------------------------
(***************************************************************************)
(* The bootstrap of an HA cluster, for any number of members, operators,   *)
(* failed attempts, lost operation stores and changes of the masters.      *)
(***************************************************************************)
EXTENDS HABootstrap, TLAPS

States == {"Pending", "Running", "Completed", "Failed"}
Operations == [id : Ids, state : States, restored : BOOLEAN]
Statuses == [created : BOOLEAN, op : Ids \cup {None}, missing : BOOLEAN, recoveries : Nat, attempts : Nat,
             seeding : Seedings \cup {None}, seeded : SUBSET Members, configured : BOOLEAN, failed : BOOLEAN]
Labels == {"idle", "create", "recover", "poll", "observe", "lookup", "backup", "restore", "write"}

TypeOK ==
    /\ recovers \in BOOLEAN
    /\ stored \in Statuses
    /\ mine \in [Operators -> Statuses]
    /\ pc \in [Operators -> Labels]
    /\ asked \in [Operators -> SUBSET Members]
    /\ seen \in [Operators -> SUBSET Members]
    /\ known \in [Operators -> BOOLEAN]
    /\ ops \in [Members -> SUBSET Operations]
    /\ forgets \in Nat
    /\ data \in [Members -> Databases \cup {None}]
    /\ masters \subseteq Members

\* The operation is of this step.
Of(id, kind, attempt, copy) == id.kind = kind /\ id.attempt = attempt /\ id.copy = copy

\* A status: nothing is seeded before the database is there, what is on record
\* is of the attempt and of the copy that the status names, and that copy is for
\* the first member without the database, the first of all from the holder.
Formed(st) ==
    /\ ~st.created => st.seeding = None /\ st.seeded = {}
    /\ st.op # None =>
         /\ st.op.copy = None
         /\ IF recovers THEN st.op.kind = "restore" /\ (st.created \/ st.op.attempt = st.recoveries)
            ELSE st.op.kind = "create" /\ (st.created \/ st.op.attempt = st.attempts)
    /\ st.seeding # None =>
         /\ Unseeded(st) # {} /\ st.seeding.copy.to \in NextPeer(st)
         /\ st.seeded = {} => st.seeding.copy.from = Holder
         /\ st.seeding.backup # None => Of(st.seeding.backup, "backup", st.attempts, st.seeding.copy)
         /\ st.seeding.restore # None => Of(st.seeding.restore, "restore", st.attempts, st.seeding.copy)

\* What a status says of the members is so.
Holds(m) == Served(m) /\ data[m].copy # None /\ data[m].copy.to = m
Truthful(st) ==
    /\ \A m \in st.seeded : Holds(m)
    /\ st.created => Served(Holder)
    /\ st.configured => st.created /\ Unseeded(st) = {}

Good(st) == st \in Statuses /\ Formed(st) /\ Truthful(st)

\* A step that an operator with this status does not start: it is on record, or
\* its attempt, its round or its member is done with, or the bootstrap is.
OverFirst(st, kind, attempt) ==
    \/ st.created
    \/ st.op # None /\ Of(st.op, kind, attempt, None)
    \/ kind = "create" /\ attempt < st.attempts
    \/ kind = "restore" /\ attempt < st.recoveries
OverCopy(st, kind, attempt, copy) ==
    \/ attempt < st.attempts
    \/ copy.to \in st.seeded
    \/ /\ attempt = st.attempts /\ st.seeding # None /\ st.seeding.copy.to = copy.to
       /\ \/ st.seeding.copy.round > copy.round
          \/ st.seeding.backup # None /\ Of(st.seeding.backup, kind, attempt, copy)
          \/ st.seeding.restore # None /\ Of(st.seeding.restore, kind, attempt, copy)
Over(st, kind, attempt, copy) ==
    st.failed \/ IF copy = None THEN OverFirst(st, kind, attempt) ELSE OverCopy(st, kind, attempt, copy)

\* What is over for the one status is over for the other.
Advances(st, t) ==
    \A kind \in Kinds, attempt \in Nat, copy \in Copies \cup {None} :
        Over(st, kind, attempt, copy) => Over(t, kind, attempt, copy)

Remembered(st) == <<"copy", st.attempts, st.seeding.copy>> \in kept

\* The operations of a member, and what they did to its database.
OpInv(m, op) ==
    /\ op.id.kind = "create" => op.id.copy = None
    /\ op.id.kind = "restore" /\ op.id.copy # None =>
         op.id.copy.to = m /\ (m = Peers[1] \/ <<"copy", op.id.attempt, op.id.copy>> \in kept)
    /\ op.id.kind = "create" /\ op.state = "Completed" => Served(m)
    /\ op.id.kind = "restore" /\ op.state \in {"Running", "Completed"} => data[m] # None /\ data[m].copy = op.id.copy
    /\ op.id.kind = "restore" /\ op.state = "Completed" => Served(m)

\* They are so, and one of them is open at a time.
OpsInv ==
    \A m \in Members :
        /\ \A op \in ops[m] : OpInv(m, op)
        /\ \A op, q \in ops[m] : op.state \in OpenStates /\ q.state \in OpenStates => op = q

\* What is stored: its copy is remembered, and no step that was lost would start again.
StoredInv ==
    /\ Good(stored)
    /\ stored.seeding # None /\ stored.seeded # {} => Remembered(stored)
    /\ \A kind \in Kinds, attempt \in Nat, copy \in Copies \cup {None} :
         <<kind, attempt, copy>> \in kept => Over(stored, kind, attempt, copy)

\* What an operator with this status knows at this place of its pass.
PassOK(st, label, sourceRecorded) ==
    /\ Good(st)
    /\ label \notin {"idle", "write"} => ~st.failed /\ ~st.configured
    /\ label = "create" => ~st.created /\ ~recovers
    /\ label = "recover" => ~st.created /\ recovers
    /\ label \in {"poll", "observe", "lookup", "backup", "restore"} => st.created /\ Unseeded(st) # {}
    /\ label = "poll" => st.seeding # None /\ st.seeding.restore # None
    /\ label = "observe" => st.seeded # {} /\ (st.seeding # None => st.seeding.restore = None /\ Remembered(st))
    /\ label \in {"lookup", "backup", "restore"} =>
         /\ st.seeding # None /\ st.seeding.restore = None
         /\ sourceRecorded /\ st.seeded # {} => Remembered(st)

\* It goes by what the status it read holds.
AsRead(st, label, sourceRecorded) ==
    \/ label \in {"create", "recover", "poll"}
    \/ label = "observe" /\ st.seeding # None
    \/ label \in {"lookup", "backup", "restore"} /\ sourceRecorded

FromStored(m) ==
    IF stored.seeded = {} THEN data[m].copy.from = Holder
    ELSE stored.seeding # None /\ data[m].copy = stored.seeding.copy

\* The status has gone on from the stored one.
GoneOn(st) ==
    /\ Advances(stored, st)
    /\ \A m \in st.seeded \ stored.seeded : FromStored(m)

\* It still names the copy of the stored one.
SameCopy(st) ==
    /\ st.seeded = stored.seeded
    /\ stored.seeded # {} => stored.seeding # None /\ stored.seeding.copy = st.seeding.copy

FreshOK(st, label, sourceRecorded) ==
    GoneOn(st) /\ (AsRead(st, label, sourceRecorded) => SameCopy(st))

PassInv ==
    \A o \in Operators :
        /\ PassOK(mine[o], pc[o], known[o])
        /\ o \notin stale /\ pc[o] # "idle" => FreshOK(mine[o], pc[o], known[o])
        /\ o \in stale => pc[o] # "idle"

\* The inductive invariant.
IInv == TypeOK /\ OpsInv /\ StoredInv /\ PassInv

-----------------------------------------------------------------------------
(* The members.                                                            *)

\* The holder is a member, and the others are the peers, of which there is one at least.
LEMMA PeersFacts ==
    /\ Holder \in Members
    /\ Len(Peers) \in Nat \ {0} /\ DOMAIN Peers = 1 .. Len(Peers)
    /\ \A i \in DOMAIN Peers : Peers[i] \in Members \ {Holder}
    /\ \A m \in Members \ {Holder} : \E i \in DOMAIN Peers : m = Peers[i]
<1>1. Peers \in Seq(Members \ {Holder}) /\ Peers # <<>>
  BY MembersAssumption
<1> QED
  BY <1>1 DEF Members

\* reconcileSeeding takes the members by ordinal: at most one is the first without
\* the database.
LEMMA NextPeerFacts ==
    ASSUME NEW st, NEW m \in NextPeer(st)
    PROVE  m \in Members \ {Holder} /\ m \notin st.seeded /\ \A n \in NextPeer(st) : n = m
<1>1. PICK i \in Unseeded(st) : m = Peers[i] /\ \A j \in Unseeded(st) : i <= j
  BY DEF NextPeer
<1>2. i \in DOMAIN Peers /\ Peers[i] \notin st.seeded
  BY DEF Unseeded
<1>3. ASSUME NEW n \in NextPeer(st) PROVE n = m
  <2>1. PICK k \in Unseeded(st) : n = Peers[k] /\ \A j \in Unseeded(st) : k <= j
    BY <1>3 DEF NextPeer
  <2>2. i <= k /\ k <= i /\ i \in Nat /\ k \in Nat
    BY <1>1, <2>1, PeersFacts DEF Unseeded
  <2>3. i = k
    BY <2>2
  <2> QED
    BY <1>1, <2>1, <2>3
<1> QED
  BY <1>1, <1>2, <1>3, PeersFacts

\* The first of all.
LEMMA FirstPeer ==
    ASSUME NEW st, st.seeded = {}
    PROVE  Unseeded(st) # {} /\ NextPeer(st) = {Peers[1]}
<1>1. Unseeded(st) = 1 .. Len(Peers)
  BY PeersFacts DEF Unseeded
<1>2. 1 \in Unseeded(st) /\ \A j \in Unseeded(st) : 1 <= j
  BY <1>1, PeersFacts
<1>3. \A k \in Unseeded(st) : (\A j \in Unseeded(st) : k <= j) => k = 1
  BY <1>1, <1>2
<1>4. {k \in Unseeded(st) : \A j \in Unseeded(st) : k <= j} = {1}
  BY <1>2, <1>3
<1> QED
  BY <1>2, <1>4 DEF NextPeer

\* The first member without the database goes by what is seeded.
LEMMA SamePeer ==
    ASSUME NEW st, NEW t, t.seeded = st.seeded
    PROVE  Unseeded(t) = Unseeded(st) /\ NextPeer(t) = NextPeer(st)
  BY DEF Unseeded, NextPeer

-----------------------------------------------------------------------------
(* Changes of a status.                                                    *)

\* The wait for a missing operation, and the end of the bootstrap.
LEMMA SameStatus ==
    ASSUME NEW st, NEW t, Good(st), t \in Statuses,
           t.created = st.created, t.op = st.op, t.recoveries = st.recoveries, t.attempts = st.attempts,
           t.seeding = st.seeding, t.seeded = st.seeded, t.configured = st.configured, st.failed => t.failed
    PROVE  Good(t) /\ Advances(st, t)
<1>1. Good(t)
  BY SamePeer DEF Good, Formed, Truthful
<1>2. Advances(st, t)
  BY DEF Advances, Over, OverFirst, OverCopy
<1> QED
  BY <1>1, <1>2

\* A failed step: its attempt is counted, and what was on record of it goes.
LEMMA StepFailed ==
    ASSUME NEW st, NEW t, Good(st), t \in Statuses,
           st.attempts < t.attempts \/ (t.failed /\ t.attempts = st.attempts),
           t.created = st.created, t.recoveries = st.recoveries, t.seeding = None, t.seeded = st.seeded,
           t.configured = st.configured, st.failed => t.failed,
           t.op = None \/ (t.op = st.op /\ t.created), recovers => t.op = st.op
    PROVE  Good(t) /\ Advances(st, t)
<1>1. Good(t)
  BY SamePeer DEF Good, Formed, Truthful
<1>2. ASSUME NEW kind \in Kinds, NEW attempt \in Nat, OverFirst(st, kind, attempt), ~t.failed
      PROVE  OverFirst(t, kind, attempt)
  BY <1>2 DEF Good, Statuses, Formed, OverFirst, Of
<1>3. ASSUME NEW kind \in Kinds, NEW attempt \in Nat, NEW copy \in Copies, OverCopy(st, kind, attempt, copy), ~t.failed
      PROVE  OverCopy(t, kind, attempt, copy)
  BY <1>3 DEF Good, Statuses, OverCopy
<1> QED
  BY <1>1, <1>2, <1>3, NoneAssumption DEF Advances, Over

\* A failed attempt of the recovery.
LEMMA RecoveryFailed ==
    ASSUME NEW st, NEW t, Good(st), t \in Statuses, recovers, ~st.created,
           \/ st.recoveries < t.recoveries /\ t.op = None
           \/ t.failed /\ t.recoveries = st.recoveries /\ t.op = st.op,
           t.created = st.created, t.attempts = st.attempts, t.seeding = st.seeding, t.seeded = st.seeded,
           t.configured = st.configured, st.failed => t.failed
    PROVE  Good(t) /\ Advances(st, t)
<1>1. Good(t)
  BY SamePeer DEF Good, Formed, Truthful
<1>2. ASSUME NEW kind \in Kinds, NEW attempt \in Nat, OverFirst(st, kind, attempt), ~t.failed
      PROVE  OverFirst(t, kind, attempt)
  BY <1>2 DEF Good, Statuses, Formed, OverFirst, Of
<1>3. ASSUME NEW kind \in Kinds, NEW attempt \in Nat, NEW copy \in Copies, OverCopy(st, kind, attempt, copy)
      PROVE  OverCopy(t, kind, attempt, copy)
  BY <1>3 DEF OverCopy
<1> QED
  BY <1>1, <1>2, <1>3, NoneAssumption DEF Advances, Over

\* The first database's operation is recorded, and then that it is there.
LEMMA FirstRecorded ==
    ASSUME NEW st, NEW t, Good(st), t \in Statuses, ~st.created,
           st.op \in {None, t.op}, t.op \in Ids, t.op.copy = None,
           IF recovers THEN t.op.kind = "restore" /\ t.op.attempt = st.recoveries
           ELSE t.op.kind = "create" /\ t.op.attempt = st.attempts,
           t.created => Served(Holder),
           t.recoveries = st.recoveries, t.attempts = st.attempts, t.seeding = st.seeding, t.seeded = st.seeded,
           t.configured = st.configured, t.failed = st.failed
    PROVE  Good(t) /\ Advances(st, t)
<1>1. Good(t)
  BY SamePeer DEF Good, Formed, Truthful
<1>2. ASSUME NEW kind \in Kinds, NEW attempt \in Nat, OverFirst(st, kind, attempt)
      PROVE  OverFirst(t, kind, attempt)
  BY <1>2 DEF OverFirst
<1>3. ASSUME NEW kind \in Kinds, NEW attempt \in Nat, NEW copy \in Copies, OverCopy(st, kind, attempt, copy)
      PROVE  OverCopy(t, kind, attempt, copy)
  BY <1>3 DEF OverCopy
<1> QED
  BY <1>1, <1>2, <1>3, NoneAssumption DEF Advances, Over

\* A copy is begun: of a member that has none, or in a new round.
Begun(st, t) ==
    /\ Good(t) /\ Advances(st, t) /\ t.seeding # None /\ t.seeding.restore = None
    /\ t.created /\ t.failed = st.failed /\ t.configured = st.configured /\ t.seeded = st.seeded
    /\ t.attempts = st.attempts

\* So is SetSeeding's.
LEMMA CopyBegun ==
    ASSUME NEW st, Good(st), st.created, NEW to \in NextPeer(st), NEW from \in Members, NEW round \in Nat,
           st.seeding # None => round > st.seeding.copy.round, st.seeded = {} => from = Holder
    PROVE  Begun(st, SetSeeding(st, to, from, round))
<1> DEFINE t == SetSeeding(st, to, from, round)
<1>1. to \in Members /\ Unseeded(st) # {}
  BY NextPeerFacts DEF NextPeer
<1>2. [copy |-> [to |-> to, from |-> from, round |-> round], backup |-> None, restore |-> None] \in Seedings
  BY <1>1 DEF Seedings, Copies
<1>3. /\ t \in Statuses /\ t.seeding # None /\ t.seeding.restore = None /\ t.seeding.backup = None
      /\ t.seeding.copy = [to |-> to, from |-> from, round |-> round]
      /\ t.created = st.created /\ t.op = st.op /\ t.recoveries = st.recoveries /\ t.attempts = st.attempts
      /\ t.seeded = st.seeded /\ t.configured = st.configured /\ t.failed = st.failed
  BY <1>2, NoneAssumption, Zenon DEF SetSeeding, Good, Statuses
<1> HIDE DEF t
<1>4. Good(t)
  <2>1. Formed(t)
    BY <1>1, <1>3, SamePeer DEF Good, Formed
  <2>2. Truthful(t)
    BY <1>3, SamePeer DEF Good, Truthful
  <2> QED
    BY <1>3, <2>1, <2>2 DEF Good
<1>5. ASSUME NEW kind \in Kinds, NEW attempt \in Nat, OverFirst(st, kind, attempt)
      PROVE  OverFirst(t, kind, attempt)
  BY <1>3, <1>5 DEF OverFirst
<1>6. ASSUME NEW kind \in Kinds, NEW attempt \in Nat, NEW copy \in Copies, OverCopy(st, kind, attempt, copy)
      PROVE  OverCopy(t, kind, attempt, copy)
  <2>1. CASE attempt < st.attempts \/ copy.to \in st.seeded
    BY <1>3, <2>1 DEF OverCopy
  <2>2. CASE ~(attempt < st.attempts \/ copy.to \in st.seeded)
    <3>1. st.seeding \in Seedings /\ st.seeding # None /\ attempt = st.attempts /\ st.seeding.copy.to = copy.to
      BY <1>6, <2>2 DEF OverCopy, Good, Statuses
    <3>2. st.seeding.copy.to = to
      BY <3>1, NextPeerFacts DEF Good, Formed
    <3>3. copy.round <= st.seeding.copy.round
      BY <1>6, <2>2, <3>1 DEF OverCopy, Of, Good, Formed, Seedings, Copies
    <3>4. t.seeding.copy.round > copy.round
      BY <1>3, <3>1, <3>3 DEF Seedings, Copies
    <3> QED
      BY <1>3, <3>1, <3>2, <3>4 DEF OverCopy
  <2> QED
    BY <2>1, <2>2
<1>7. Advances(st, t)
  BY <1>3, <1>5, <1>6, NoneAssumption DEF Advances, Over
<1> QED
  BY <1>3, <1>4, <1>7, Zenon DEF t, Begun

\* An operation of the copy is recorded.
LEMMA CopyRecorded ==
    ASSUME NEW st, NEW t, Good(st), t \in Statuses, st.seeding # None, t.seeding # None,
           t.seeding.copy = st.seeding.copy,
           \/ /\ t.seeding.restore = st.seeding.restore /\ st.seeding.backup \in {None, t.seeding.backup}
              /\ Of(t.seeding.backup, "backup", st.attempts, st.seeding.copy)
           \/ /\ t.seeding.backup = st.seeding.backup /\ st.seeding.restore \in {None, t.seeding.restore}
              /\ Of(t.seeding.restore, "restore", st.attempts, st.seeding.copy),
           t.created = st.created, t.op = st.op, t.recoveries = st.recoveries, t.attempts = st.attempts,
           t.seeded = st.seeded, t.configured = st.configured, t.failed = st.failed
    PROVE  Good(t) /\ Advances(st, t)
<1>1. Formed(t)
  BY SamePeer DEF Good, Formed
<1>2. Truthful(t)
  BY SamePeer DEF Good, Truthful
<1>3. ASSUME NEW kind \in Kinds, NEW attempt \in Nat, OverFirst(st, kind, attempt)
      PROVE  OverFirst(t, kind, attempt)
  BY <1>3 DEF OverFirst
<1>4. ASSUME NEW kind \in Kinds, NEW attempt \in Nat, NEW copy \in Copies, OverCopy(st, kind, attempt, copy)
      PROVE  OverCopy(t, kind, attempt, copy)
  BY <1>4 DEF OverCopy
<1> QED
  BY <1>1, <1>2, <1>3, <1>4, NoneAssumption DEF Good, Advances, Over

\* A member is seeded.
LEMMA MemberSeeded ==
    ASSUME NEW st, NEW t, Good(st), t \in Statuses, st.created, st.seeding # None, Holds(st.seeding.copy.to),
           ~st.configured, t.seeding = None, t.seeded = st.seeded \cup {st.seeding.copy.to},
           t.created = st.created, t.op = st.op, t.recoveries = st.recoveries, t.attempts = st.attempts,
           t.configured = st.configured, t.failed = st.failed
    PROVE  Good(t) /\ Advances(st, t)
<1>1. Good(t)
  BY DEF Good, Formed, Truthful
<1>2. ASSUME NEW kind \in Kinds, NEW attempt \in Nat, OverFirst(st, kind, attempt)
      PROVE  OverFirst(t, kind, attempt)
  BY <1>2 DEF OverFirst
<1>3. ASSUME NEW kind \in Kinds, NEW attempt \in Nat, NEW copy \in Copies, OverCopy(st, kind, attempt, copy)
      PROVE  OverCopy(t, kind, attempt, copy)
  BY <1>3 DEF OverCopy
<1> QED
  BY <1>1, <1>2, <1>3, NoneAssumption DEF Advances, Over

\* All are.
LEMMA AllSeeded ==
    ASSUME NEW st, NEW t, Good(st), t \in Statuses, st.created, Unseeded(st) = {}, t.seeding = None,
           t.created = st.created, t.op = st.op, t.recoveries = st.recoveries, t.attempts = st.attempts,
           t.seeded = st.seeded, t.failed = st.failed
    PROVE  Good(t) /\ Advances(st, t)
<1>1. st.seeding = None
  BY DEF Good, Formed
<1>2. Good(t)
  BY <1>1, SamePeer DEF Good, Formed, Truthful
<1>3. Advances(st, t)
  BY <1>1 DEF Advances, Over, OverFirst, OverCopy
<1> QED
  BY <1>2, <1>3

\* What is over stays so over several changes.
LEMMA AdvancesOn ==
    ASSUME NEW r, NEW st, NEW t, Advances(r, st), Advances(st, t)
    PROVE  Advances(r, t)
  BY DEF Advances

-----------------------------------------------------------------------------
(* A pass: what each handler leaves is right for the place it goes on to.  *)

Moves(o, st, label, sourceRecorded) ==
    /\ mine' = [mine EXCEPT ![o] = st]
    /\ pc' = [pc EXCEPT ![o] = label]
    /\ known' = [known EXCEPT ![o] = sourceRecorded]

\* The operator goes on as PassInv asks.
GoesOn(o) ==
    \E st \in Statuses, label \in Labels \ {"idle"}, sourceRecorded \in BOOLEAN :
        /\ Moves(o, st, label, sourceRecorded)
        /\ PassOK(st, label, sourceRecorded)
        /\ o \notin stale => FreshOK(st, label, sourceRecorded)

\* A status that seeding can go on from, and as an operator that is not stale has it.
Ready(st) ==
    /\ Good(st) /\ st.created /\ ~st.failed /\ ~st.configured
    /\ st.seeding # None /\ st.seeded # {} => Remembered(st)
ReadyFresh(st) == GoneOn(st) /\ (st.seeding # None \/ st.seeded = {} => SameCopy(st))

\* An answer about an operation of this step.
AnswerOf(got, kind, attempt, copy) ==
    got \in {Error, Refused, Missing} \/ (got \in Operations /\ Of(got.id, kind, attempt, copy))

\* An answer is an operation of the step, or says why there is none.
LEMMA AnswerStates ==
    ASSUME NEW got, NEW kind, NEW attempt, NEW copy, AnswerOf(got, kind, attempt, copy)
    PROVE  \/ got.state \in {"error", "refused", "missing"}
           \/ got.state \in States /\ got \in Operations /\ got.id \in Ids /\ Of(got.id, kind, attempt, copy)
  BY DEF AnswerOf, Error, Refused, Missing, NoOperation, Operations

\* A status goes on from one that has gone on from the stored one.
LEMMA GoneOnOn ==
    ASSUME NEW st, NEW t, GoneOn(st), Advances(st, t), t.seeded = st.seeded
    PROVE  GoneOn(t)
  BY AdvancesOn DEF GoneOn

\* sourceRecorded may stay as it is.
LEMMA KnownStays ==
    ASSUME TypeOK, NEW o \in Operators, known' = known
    PROVE  known' = [known EXCEPT ![o] = known[o]] /\ known[o] \in BOOLEAN
  BY DEF TypeOK

\* The pass ends with a status to be written.
LEMMA Returns ==
    ASSUME TypeOK, NEW o \in Operators, NEW st, Good(st), o \notin stale => GoneOn(st), Return(o, st)
    PROVE  GoesOn(o)
<1>1. Moves(o, st, "write", known[o]) /\ known[o] \in BOOLEAN
  BY KnownStays DEF Return, Work, Goto, probing, Moves
<1>2. PassOK(st, "write", known[o]) /\ (o \notin stale => FreshOK(st, "write", known[o]))
  BY DEF PassOK, FreshOK, AsRead
<1>3. st \in Statuses /\ "write" \in Labels \ {"idle"}
  BY DEF Good, Labels
<1> QED
  BY <1>1, <1>2, <1>3 DEF GoesOn

\* seedMember: the copy's backup is next, or the look-up that may skip it.
LEMMA SeedStepGoesOn ==
    ASSUME TypeOK, NEW o \in Operators, NEW st, NEW k \in BOOLEAN, SeedStep(o, st, k),
           Good(st), st.created, ~st.failed, ~st.configured, Unseeded(st) # {},
           st.seeding # None, st.seeding.restore = None, k /\ st.seeded # {} => Remembered(st),
           o \notin stale => GoneOn(st) /\ (k => SameCopy(st))
    PROVE  GoesOn(o)
<1>1. PICK label \in {"backup", "lookup"} : Moves(o, st, label, k)
  BY Zenon DEF SeedStep, Work, Goto, Moves
<1>2. PassOK(st, label, k) /\ (o \notin stale => FreshOK(st, label, k))
  BY DEF PassOK, FreshOK, AsRead
<1>3. st \in Statuses /\ label \in Labels \ {"idle"}
  BY DEF Good, Labels
<1> QED
  BY <1>1, <1>2, <1>3 DEF GoesOn

\* reconcileSeeding and the beginning of seedMember.
LEMMA SeedingGoesOn ==
    ASSUME TypeOK, NEW o \in Operators, NEW st, Ready(st), o \notin stale => ReadyFresh(st), reconcileSeeding(o, st)
    PROVE  GoesOn(o)
<1>0. Good(st) /\ st \in Statuses /\ (st.seeding # None <=> Copying(st))
  BY DEF Ready, Good, Formed, Copying
<1>1. CASE Unseeded(st) = {}
  <2> DEFINE t == [st EXCEPT !.seeding = None, !.configured = TRUE]
  <2>1. /\ t \in Statuses /\ t.seeding = None /\ t.created = st.created /\ t.op = st.op
        /\ t.recoveries = st.recoveries /\ t.attempts = st.attempts /\ t.seeded = st.seeded /\ t.failed = st.failed
    BY <1>0, Zenon DEF Statuses
  <2>2. Return(o, t)
    BY <1>1 DEF reconcileSeeding, Return, probing
  <2> HIDE DEF t
  <2>3. Good(t) /\ Advances(st, t)
    BY <1>0, <1>1, <2>1, AllSeeded, Zenon DEF Ready
  <2> QED
    BY <2>1, <2>2, <2>3, GoneOnOn, Returns DEF ReadyFresh
<1>2. CASE Unseeded(st) # {} /\ Copying(st) /\ st.seeding.restore # None
  <2>1. Moves(o, st, "poll", known[o]) /\ known[o] \in BOOLEAN
    BY <1>2, KnownStays DEF reconcileSeeding, Work, Goto, Moves
  <2>2. PassOK(st, "poll", known[o]) /\ (o \notin stale => FreshOK(st, "poll", known[o]))
    BY <1>0, <1>2 DEF PassOK, FreshOK, AsRead, Ready, ReadyFresh
  <2> QED
    BY <1>0, <2>1, <2>2 DEF GoesOn, Labels
<1>3. CASE Unseeded(st) # {} /\ ~(Copying(st) /\ st.seeding.restore # None) /\ st.seeded = {}
  <2>1. CASE Copying(st)
    <3>1. SeedStep(o, st, TRUE)
      BY <1>3, <2>1, Zenon DEF reconcileSeeding
    <3> QED
      BY <1>0, <1>3, <2>1, <3>1, SeedStepGoesOn, Zenon DEF Ready, ReadyFresh
  <2>2. CASE ~Copying(st)
    <3>0. PICK to \in NextPeer(st) : SeedStep(o, SetSeeding(st, to, Holder, 0), TRUE)
      BY <1>3, <2>2, Zenon DEF reconcileSeeding
    <3> DEFINE t == SetSeeding(st, to, Holder, 0)
    <3>1. SeedStep(o, t, TRUE)
      BY <3>0, Zenon
    <3> HIDE DEF t
    <3>2. /\ Good(t) /\ Advances(st, t) /\ t.seeding # None /\ t.seeding.restore = None
          /\ t.created /\ t.failed = st.failed /\ t.configured = st.configured /\ t.seeded = st.seeded
      <4>1. Begun(st, t)
        BY <1>0, <1>3, <2>2, CopyBegun, PeersFacts DEF Ready, t
      <4> QED
        BY <4>1, Zenon DEF Begun
    <3>3. Unseeded(t) # {}
      BY <1>3, <3>2, SamePeer
    <3>4. o \notin stale => GoneOn(t) /\ SameCopy(t)
      BY <1>3, <3>2, GoneOnOn DEF ReadyFresh, SameCopy
    <3> QED
      BY <1>3, <3>1, <3>2, <3>3, <3>4, SeedStepGoesOn, Zenon DEF Ready
  <2> QED
    BY <2>1, <2>2
<1>4. CASE Unseeded(st) # {} /\ ~(Copying(st) /\ st.seeding.restore # None) /\ st.seeded # {}
  <2>1. Moves(o, st, "observe", known[o]) /\ known[o] \in BOOLEAN
    BY <1>4, KnownStays, Zenon DEF reconcileSeeding, Work, Goto, Moves
  <2>2. PassOK(st, "observe", known[o]) /\ (o \notin stale => FreshOK(st, "observe", known[o]))
    BY <1>0, <1>4 DEF PassOK, FreshOK, AsRead, Ready, ReadyFresh
  <2> QED
    BY <1>0, <2>1, <2>2 DEF GoesOn, Labels
<1> QED
  BY <1>1, <1>2, <1>3, <1>4

\* stepOperationMissing and restoreOperationMissing.
LEMMA MissingReturns ==
    ASSUME TypeOK, NEW o \in Operators, NEW st, Good(st), o \notin stale => GoneOn(st),
           \E t \in stepOperationMissing(st) : Return(o, t)
    PROVE  GoesOn(o)
<1>1. PICK t \in stepOperationMissing(st) : Return(o, t)
  OBVIOUS
<1>2. /\ t \in Statuses /\ t.created = st.created /\ t.op = st.op /\ t.recoveries = st.recoveries
      /\ t.attempts = st.attempts /\ t.seeding = st.seeding /\ t.seeded = st.seeded
      /\ t.configured = st.configured /\ (st.failed => t.failed)
  BY <1>1, Zenon DEF stepOperationMissing, Good, Statuses
<1>3. Good(t) /\ Advances(st, t)
  BY <1>2, SameStatus
<1> QED
  BY <1>1, <1>2, <1>3, GoneOnOn, Returns

\* bootstrapStepFailed, of a status without what was on record of the step.
LEMMA FailedReturns ==
    ASSUME TypeOK, NEW o \in Operators, NEW st, Good(st), o \notin stale => GoneOn(st), NEW t \in Statuses,
           t.created = st.created, t.recoveries = st.recoveries, t.attempts = st.attempts, t.seeding = None,
           t.seeded = st.seeded, t.configured = st.configured, t.failed = st.failed,
           t.op = None \/ (t.op = st.op /\ t.created), recovers => t.op = st.op,
           Return(o, bootstrapStepFailed(t))
    PROVE  GoesOn(o)
<1> DEFINE u == bootstrapStepFailed(t)
<1>1. /\ u \in Statuses /\ u.created = st.created /\ u.recoveries = st.recoveries /\ u.seeding = None
      /\ u.seeded = st.seeded /\ u.configured = st.configured /\ u.op = t.op
  <2>1. CASE t.attempts + 1 < MaxAttempts
    <3>1. u = [t EXCEPT !.attempts = @ + 1]
      BY <2>1 DEF bootstrapStepFailed
    <3> QED
      BY <3>1 DEF Statuses
  <2>2. CASE ~(t.attempts + 1 < MaxAttempts)
    <3>1. u = [t EXCEPT !.failed = TRUE]
      BY <2>2 DEF bootstrapStepFailed
    <3> QED
      BY <3>1, Zenon DEF Statuses
  <2> QED
    BY <2>1, <2>2
<1>2. (st.attempts < u.attempts \/ (u.failed /\ u.attempts = st.attempts)) /\ (st.failed => u.failed)
  BY DEF bootstrapStepFailed, Statuses, Good
<1> HIDE DEF u
<1>3. Good(u) /\ Advances(st, u)
  BY <1>1, <1>2, StepFailed
<1> QED
  BY <1>1, <1>3, GoneOnOn, Returns DEF u

\* restoreAttemptFailed.
LEMMA RecoveryReturns ==
    ASSUME TypeOK, NEW o \in Operators, NEW st, Good(st), o \notin stale => GoneOn(st), recovers, ~st.created,
           NEW t \in Statuses, t.created = st.created, t.op = st.op, t.recoveries = st.recoveries,
           t.attempts = st.attempts, t.seeding = st.seeding, t.seeded = st.seeded, t.configured = st.configured,
           t.failed = st.failed, Return(o, restoreAttemptFailed(t))
    PROVE  GoesOn(o)
<1> DEFINE u == restoreAttemptFailed(t)
<1>1. /\ u \in Statuses /\ u.created = st.created /\ u.attempts = st.attempts /\ u.seeding = st.seeding
      /\ u.seeded = st.seeded /\ u.configured = st.configured
  <2>1. CASE t.recoveries + 1 < MaxAttempts
    <3>1. u = [t EXCEPT !.recoveries = @ + 1, !.op = None]
      BY <2>1 DEF restoreAttemptFailed
    <3> DEFINE v == [t EXCEPT !.op = None]
    <3>2. v \in Statuses /\ v.recoveries + 1 \in Nat
      BY DEF Statuses
    <3>3. u = [v EXCEPT !.recoveries = @ + 1]
      BY <3>1, Zenon DEF Statuses
    <3> HIDE DEF v
    <3>4. u \in Statuses
      BY <3>2, <3>3 DEF Statuses
    <3> QED
      BY <3>1, <3>4 DEF Statuses
  <2>2. CASE ~(t.recoveries + 1 < MaxAttempts)
    <3>1. u = [t EXCEPT !.failed = TRUE]
      BY <2>2 DEF restoreAttemptFailed
    <3> QED
      BY <3>1, Zenon DEF Statuses
  <2> QED
    BY <2>1, <2>2
<1>2. /\ st.failed => u.failed
      /\ \/ st.recoveries < u.recoveries /\ u.op = None
         \/ u.failed /\ u.recoveries = st.recoveries /\ u.op = st.op
  BY DEF restoreAttemptFailed, Statuses, Good
<1> HIDE DEF u
<1>3. Good(u) /\ Advances(st, u)
  BY <1>1, <1>2, RecoveryFailed
<1> QED
  BY <1>1, <1>3, GoneOnOn, Returns DEF u

-----------------------------------------------------------------------------
(* What a pass makes of an answer.                                         *)

\* reconcileHABootstrap, of the create operation.
LEMMA CreatedGoesOn ==
    ASSUME IInv, NEW o \in Operators, pc[o] = "create", NEW got, Created(o, got),
           AnswerOf(got, "create", mine[o].attempts, None),
           got.state = "refused" => mine[o].op = None, got \in Operations => mine[o].op \in {None, got.id},
           got.state = "Completed" => Served(Holder)
    PROVE  GoesOn(o)
<1> DEFINE st == mine[o]
           on == [st EXCEPT !.op = got.id, !.missing = FALSE]
<1>1. /\ TypeOK /\ Good(st) /\ st \in Statuses /\ ~st.created /\ ~recovers /\ ~st.failed /\ ~st.configured
      /\ o \notin stale => GoneOn(st) /\ SameCopy(st)
  BY Zenon DEF IInv, PassInv, PassOK, FreshOK, AsRead, Good
<1>2. st.seeding = None /\ st.seeded = {}
  BY <1>1, Zenon DEF Good, Formed
<1>3. CASE got.state = "error"
  BY <1>1, <1>3, Returns DEF Created
<1>4. CASE got.state = "refused"
  <2>1. Return(o, bootstrapStepFailed(st))
    BY <1>4 DEF Created
  <2> QED
    BY <1>1, <1>2, <1>4, <2>1, FailedReturns, Zenon
<1>5. CASE got.state = "missing"
  <2>1. \E t \in stepOperationMissing(st) : Return(o, t)
    BY <1>5 DEF Created
  <2> QED
    BY <1>1, <2>1, MissingReturns
<1>6. CASE got.state \in States
  <2>1. got \in Operations /\ got.id \in Ids /\ Of(got.id, "create", st.attempts, None)
    BY <1>6, AnswerStates DEF States
  <2>2. CASE got.state = "Completed"
    <3> DEFINE t == [on EXCEPT !.created = TRUE]
    <3>1. reconcileSeeding(o, t)
      BY <2>2 DEF Created
    <3>2. t \in Statuses
      BY <1>1, <2>1, Zenon DEF Statuses
    <3>3. /\ t.created /\ t.op = got.id /\ t.recoveries = st.recoveries /\ t.attempts = st.attempts
          /\ t.seeding = st.seeding /\ t.seeded = st.seeded /\ t.configured = st.configured /\ t.failed = st.failed
      BY <1>1 DEF Statuses
    <3> HIDE DEF t
    <3>4. Good(t) /\ Advances(st, t)
      BY <1>1, <2>1, <2>2, <3>2, <3>3, FirstRecorded, Zenon DEF Of
    <3>5. Ready(t)
      BY <1>1, <1>2, <3>3, <3>4 DEF Ready
    <3>6. o \notin stale => ReadyFresh(t)
      BY <1>1, <1>2, <3>3, <3>4, GoneOnOn, Zenon DEF ReadyFresh, SameCopy
    <3> QED
      BY <1>1, <3>1, <3>5, <3>6, SeedingGoesOn
  <2>3. CASE got.state = "Failed"
    <3> DEFINE t == [on EXCEPT !.op = None]
    <3>1. Return(o, bootstrapStepFailed(t))
      BY <2>3 DEF Created
    <3>2. t \in Statuses
      BY <1>1, <2>1, Zenon DEF Statuses
    <3>3. /\ t.created = st.created /\ t.op = None /\ t.recoveries = st.recoveries /\ t.attempts = st.attempts
          /\ t.seeding = st.seeding /\ t.seeded = st.seeded /\ t.configured = st.configured /\ t.failed = st.failed
      BY <1>1 DEF Statuses
    <3> HIDE DEF t
    <3> QED
      BY <1>1, <1>2, <3>1, <3>2, <3>3, FailedReturns, Zenon
  <2>4. CASE got.state \in OpenStates
    <3>1. Return(o, on)
      BY <2>4 DEF Created, OpenStates
    <3>2. on \in Statuses
      BY <1>1, <2>1, Zenon DEF Statuses
    <3>3. /\ on.created = st.created /\ on.op = got.id /\ on.recoveries = st.recoveries /\ on.attempts = st.attempts
          /\ on.seeding = st.seeding /\ on.seeded = st.seeded /\ on.configured = st.configured /\ on.failed = st.failed
      BY <1>1 DEF Statuses
    <3> HIDE DEF on
    <3>4. Good(on) /\ Advances(st, on)
      BY <1>1, <2>1, <3>2, <3>3, FirstRecorded DEF Of
    <3> QED
      BY <1>1, <3>1, <3>3, <3>4, GoneOnOn, Returns, Zenon
  <2> QED
    BY <1>6, <2>2, <2>3, <2>4 DEF States, OpenStates
<1> QED
  BY <1>3, <1>4, <1>5, <1>6, AnswerStates

\* reconcileRecovery, of a start.
LEMMA RecoveryStartedGoesOn ==
    ASSUME IInv, NEW o \in Operators, pc[o] = "recover", NEW got, RecoveryStarted(o, got),
           AnswerOf(got, "restore", mine[o].recoveries, None), got # Missing, mine[o].op = None
    PROVE  GoesOn(o)
<1> DEFINE st == mine[o]
           on == [st EXCEPT !.op = got.id]
<1>1. /\ TypeOK /\ Good(st) /\ st \in Statuses /\ ~st.created /\ recovers /\ ~st.failed /\ ~st.configured
      /\ o \notin stale => GoneOn(st)
  BY Zenon DEF IInv, PassInv, PassOK, FreshOK, Good
<1>2. CASE got.state = "error"
  BY <1>1, <1>2, Returns DEF RecoveryStarted
<1>3. CASE got.state = "refused"
  <2>1. Return(o, restoreAttemptFailed(st))
    BY <1>3 DEF RecoveryStarted
  <2> QED
    BY <1>1, <2>1, RecoveryReturns
<1>4. CASE got.state \in States
  <2>1. got \in Operations /\ got.id \in Ids /\ Of(got.id, "restore", st.recoveries, None)
    BY <1>4, AnswerStates DEF States
  <2>2. Return(o, on)
    BY <1>4 DEF RecoveryStarted, States
  <2>3. on \in Statuses
    BY <1>1, <2>1 DEF Statuses
  <2>4. /\ on.created = st.created /\ on.op = got.id /\ on.recoveries = st.recoveries /\ on.attempts = st.attempts
        /\ on.seeding = st.seeding /\ on.seeded = st.seeded /\ on.configured = st.configured /\ on.failed = st.failed
    BY <1>1 DEF Statuses
  <2> HIDE DEF on
  <2>5. Good(on) /\ Advances(st, on)
    BY <1>1, <2>1, <2>3, <2>4, FirstRecorded DEF Of
  <2> QED
    BY <1>1, <2>2, <2>4, <2>5, GoneOnOn, Returns, Zenon
<1>5. got.state # "missing"
  BY DEF AnswerOf, Error, Refused, Missing, NoOperation, Operations, States
<1> QED
  BY <1>2, <1>3, <1>4, <1>5, AnswerStates

\* reconcileRecovery, of a poll.
LEMMA RecoveryPolledGoesOn ==
    ASSUME IInv, NEW o \in Operators, pc[o] = "recover", NEW got, RecoveryPolled(o, got),
           AnswerOf(got, "restore", mine[o].recoveries, None), got # Refused, mine[o].op # None,
           got.state = "Completed" => Served(Holder)
    PROVE  GoesOn(o)
<1> DEFINE st == mine[o]
           read == [st EXCEPT !.missing = FALSE]
<1>1. /\ TypeOK /\ Good(st) /\ st \in Statuses /\ ~st.created /\ recovers /\ ~st.failed /\ ~st.configured
      /\ o \notin stale => GoneOn(st) /\ SameCopy(st)
  BY Zenon DEF IInv, PassInv, PassOK, FreshOK, AsRead, Good
<1>2. st.seeding = None /\ st.seeded = {} /\ st.op \in Ids /\ Of(st.op, "restore", st.recoveries, None)
  BY <1>1, Zenon DEF Good, Formed, Of, Statuses
<1>3. /\ read \in Statuses /\ read.created = st.created /\ read.op = st.op
      /\ read.recoveries = st.recoveries /\ read.attempts = st.attempts /\ read.seeding = st.seeding
      /\ read.seeded = st.seeded /\ read.configured = st.configured /\ read.failed = st.failed
  BY <1>1, Zenon DEF Statuses
<1>4. CASE got.state = "error"
  BY <1>1, <1>4, Returns DEF RecoveryPolled
<1>5. CASE got.state = "missing"
  <2>1. \E t \in stepOperationMissing(st) : Return(o, t)
    BY <1>5 DEF RecoveryPolled
  <2> QED
    BY <1>1, <2>1, MissingReturns, Zenon
<1>6. CASE got.state = "Completed"
  <2> DEFINE t == [read EXCEPT !.created = TRUE]
  <2>1. reconcileSeeding(o, t)
    BY <1>6 DEF RecoveryPolled
  <2>2. /\ t \in Statuses /\ t.created /\ t.op = st.op /\ t.recoveries = st.recoveries /\ t.attempts = st.attempts
        /\ t.seeding = st.seeding /\ t.seeded = st.seeded /\ t.configured = st.configured /\ t.failed = st.failed
    BY <1>1, Zenon DEF Statuses
  <2> HIDE DEF t
  <2>3. Good(t) /\ Advances(st, t)
    BY <1>1, <1>2, <1>6, <2>2, FirstRecorded, Zenon DEF Of
  <2>4. Ready(t)
    BY <1>1, <1>2, <2>2, <2>3 DEF Ready
  <2>5. o \notin stale => ReadyFresh(t)
    BY <1>1, <1>2, <2>2, <2>3, GoneOnOn, Zenon DEF ReadyFresh, SameCopy
  <2> QED
    BY <1>1, <2>1, <2>4, <2>5, SeedingGoesOn, Zenon
<1>7. CASE got.state = "Failed"
  <2>1. Return(o, restoreAttemptFailed(read))
    BY <1>7 DEF RecoveryPolled
  <2> HIDE DEF read
  <2> QED
    BY <1>1, <1>3, <2>1, RecoveryReturns, Zenon
<1>8. CASE got.state \in OpenStates
  <2>1. Return(o, read)
    BY <1>8 DEF RecoveryPolled, OpenStates
  <2> HIDE DEF read
  <2>2. Good(read) /\ Advances(st, read)
    BY <1>1, <1>3, SameStatus
  <2> QED
    BY <1>1, <1>3, <2>1, <2>2, GoneOnOn, Returns, Zenon
<1>9. got.state # "refused"
  BY DEF AnswerOf, Error, Refused, Missing, NoOperation, Operations, States
<1> QED
  BY <1>4, <1>5, <1>6, <1>7, <1>8, <1>9, AnswerStates DEF States, OpenStates

\* What a pass that copies has.
LEMMA CopyFacts ==
    ASSUME IInv, NEW o \in Operators, pc[o] \in {"poll", "lookup", "backup", "restore"}
    PROVE  LET st == mine[o] IN
           /\ TypeOK /\ Good(st) /\ st \in Statuses /\ st.created /\ ~st.failed /\ ~st.configured /\ Unseeded(st) # {}
           /\ st.seeding # None /\ st.seeding \in Seedings /\ st.seeding.copy \in Copies
           /\ st.seeding.copy.to \in Members \ {Holder} /\ st.seeding.copy.from \in Members
           /\ o \notin stale => GoneOn(st)
           /\ o \notin stale /\ (pc[o] = "poll" \/ known[o]) => SameCopy(st)
<1> DEFINE st == mine[o]
<1>1. /\ TypeOK /\ Good(st) /\ st \in Statuses /\ st.created /\ ~st.failed /\ ~st.configured /\ Unseeded(st) # {}
      /\ st.seeding # None
      /\ o \notin stale => GoneOn(st)
  BY Zenon DEF IInv, PassInv, PassOK, FreshOK, Good
<1>2. o \notin stale /\ (pc[o] = "poll" \/ known[o]) => SameCopy(st)
  BY DEF IInv, PassInv, FreshOK, AsRead
<1>3. st.seeding \in Seedings /\ st.seeding.copy \in Copies /\ st.seeding.copy.from \in Members
  BY <1>1 DEF Statuses, Seedings, Copies
<1>4. st.seeding.copy.to \in Members \ {Holder}
  <2>1. st.seeding.copy.to \in NextPeer(st)
    BY <1>1, Zenon DEF Good, Formed
  <2> QED
    BY <2>1, NextPeerFacts
<1> QED
  BY <1>1, <1>2, <1>3, <1>4

\* seedBackup.
LEMMA BackedUpGoesOn ==
    ASSUME IInv, NEW o \in Operators, pc[o] = "backup", NEW got, BackedUp(o, got),
           AnswerOf(got, "backup", mine[o].attempts, mine[o].seeding.copy),
           got \in Operations => mine[o].seeding.backup \in {None, got.id}
    PROVE  GoesOn(o)
<1> DEFINE st == mine[o]
           ended == [st EXCEPT !.seeding = None, !.missing = FALSE]
           on == [st EXCEPT !.seeding.backup = got.id, !.missing = FALSE]
<1>1. /\ TypeOK /\ Good(st) /\ st \in Statuses /\ st.created /\ ~st.failed /\ ~st.configured /\ Unseeded(st) # {}
      /\ st.seeding # None /\ st.seeding \in Seedings
      /\ o \notin stale => GoneOn(st)
      /\ o \notin stale /\ known[o] => SameCopy(st)
  BY CopyFacts, Zenon
<1>2. known[o] \in BOOLEAN /\ st.seeding.restore = None /\ (known[o] /\ st.seeded # {} => Remembered(st))
  BY <1>1, Zenon DEF IInv, PassInv, PassOK, TypeOK
<1>3. CASE got.state = "error"
  BY <1>1, <1>3, Returns DEF BackedUp
<1>4. CASE got.state \in {"refused", "Failed"}
  <2>1. Return(o, bootstrapStepFailed(ended))
    BY <1>4 DEF BackedUp
  <2>2. ended \in Statuses
    BY <1>1, Zenon DEF Statuses
  <2>3. /\ ended.created = st.created /\ ended.op = st.op /\ ended.recoveries = st.recoveries
        /\ ended.attempts = st.attempts /\ ended.seeding = None /\ ended.seeded = st.seeded
        /\ ended.configured = st.configured /\ ended.failed = st.failed
    BY <1>1, Zenon DEF Statuses
  <2> HIDE DEF ended
  <2> QED
    BY <1>1, <2>1, <2>2, <2>3, FailedReturns, Zenon
<1>5. CASE got.state = "missing"
  <2>1. \E t \in stepOperationMissing(st) : Return(o, t)
    BY <1>5 DEF BackedUp
  <2> QED
    BY <1>1, <2>1, MissingReturns, Zenon
<1>6. CASE got.state \in {"Completed"} \cup OpenStates
  <2>1. got \in Operations /\ got.id \in Ids /\ Of(got.id, "backup", st.attempts, st.seeding.copy)
    BY <1>6, AnswerStates DEF OpenStates
  <2>2. [st.seeding EXCEPT !.backup = got.id] \in Seedings
    BY <1>1, <2>1 DEF Seedings
  <2>3. on \in Statuses
    BY <1>1, <2>2, Zenon DEF Statuses
  <2>4. /\ on.created = st.created /\ on.op = st.op /\ on.recoveries = st.recoveries /\ on.attempts = st.attempts
        /\ on.seeding = [st.seeding EXCEPT !.backup = got.id]
        /\ on.seeded = st.seeded /\ on.configured = st.configured /\ on.failed = st.failed
    BY <1>1, Zenon DEF Statuses
  <2>5. CASE got.state = "Completed"
    <3>1. Work(o, on) /\ Goto(o, "restore") /\ UNCHANGED probing
      BY <2>5 DEF BackedUp
    <3> HIDE DEF on
    <3>2. /\ on.seeding # None /\ on.seeding.copy = st.seeding.copy
          /\ on.seeding.backup = got.id /\ on.seeding.restore = None
      BY <1>1, <1>2, <2>2, <2>4, NoneAssumption DEF Seedings
    <3>3. Good(on) /\ Advances(st, on)
      BY <1>1, <1>2, <2>1, <2>3, <2>4, <3>2, CopyRecorded, Zenon
    <3>4. Moves(o, on, "restore", known[o])
      BY <1>1, <3>1, KnownStays DEF Work, Goto, probing, Moves
    <3>5. Unseeded(on) # {}
      BY <1>1, <2>4, SamePeer
    <3>6. PassOK(on, "restore", known[o])
      BY <1>1, <1>2, <2>4, <3>2, <3>3, <3>5 DEF PassOK, Remembered
    <3>7. o \notin stale => FreshOK(on, "restore", known[o])
      BY <1>1, <2>4, <3>2, <3>3, GoneOnOn DEF FreshOK, AsRead, SameCopy
    <3> QED
      BY <1>2, <2>3, <3>4, <3>6, <3>7 DEF GoesOn, Labels
  <2>6. CASE got.state \in OpenStates
    <3>1. Return(o, on)
      BY <2>6 DEF BackedUp, OpenStates
    <3> HIDE DEF on
    <3>2. /\ on.seeding # None /\ on.seeding.copy = st.seeding.copy
          /\ on.seeding.backup = got.id /\ on.seeding.restore = None
      BY <1>1, <1>2, <2>2, <2>4, NoneAssumption DEF Seedings
    <3>3. Good(on) /\ Advances(st, on)
      BY <1>1, <1>2, <2>1, <2>3, <2>4, <3>2, CopyRecorded, Zenon
    <3> QED
      BY <1>1, <2>4, <3>1, <3>3, GoneOnOn, Returns
  <2> QED
    BY <1>6, <2>5, <2>6
<1> QED
  BY <1>3, <1>4, <1>5, <1>6, AnswerStates, Zenon DEF States, OpenStates

\* seedMember, of the restore.
LEMMA RestoredGoesOn ==
    ASSUME IInv, NEW o \in Operators, pc[o] \in {"poll", "restore"}, pc[o] = "restore" => known[o],
           NEW got, Restored(o, got),
           AnswerOf(got, "restore", mine[o].attempts, mine[o].seeding.copy),
           got \in Operations => mine[o].seeding.restore \in {None, got.id},
           got.state = "Completed" => LET to == mine[o].seeding.copy.to IN
               Served(to) /\ data[to].copy = mine[o].seeding.copy
    PROVE  GoesOn(o)
<1> DEFINE st == mine[o]
           ended == [st EXCEPT !.seeding = None, !.missing = FALSE]
<1>1. /\ TypeOK /\ Good(st) /\ st \in Statuses /\ st.created /\ ~st.failed /\ ~st.configured /\ Unseeded(st) # {}
      /\ st.seeding # None /\ st.seeding \in Seedings /\ st.seeding.copy \in Copies
      /\ st.seeding.copy.to \in Members
      /\ o \notin stale => GoneOn(st) /\ SameCopy(st)
  BY CopyFacts, Zenon
<1>2. ended \in Statuses
  BY <1>1, Zenon DEF Statuses
<1>3. /\ ended.created = st.created /\ ended.op = st.op /\ ended.recoveries = st.recoveries
      /\ ended.attempts = st.attempts /\ ended.seeding = None /\ ended.seeded = st.seeded
      /\ ended.configured = st.configured /\ ended.failed = st.failed
  BY <1>1, Zenon DEF Statuses
<1>4. CASE got.state = "error"
  BY <1>1, <1>4, Returns DEF Restored
<1>5. CASE got.state \in {"refused", "Failed"}
  <2>1. Return(o, bootstrapStepFailed(ended))
    BY <1>5 DEF Restored
  <2> HIDE DEF ended
  <2> QED
    BY <1>1, <1>2, <1>3, <2>1, FailedReturns, Zenon
<1>6. CASE got.state = "missing"
  <2>1. \E t \in stepOperationMissing(st) : Return(o, t)
    BY <1>6 DEF Restored
  <2> QED
    BY <1>1, <2>1, MissingReturns, Zenon
<1>7. CASE got.state = "Completed"
  <2> DEFINE t == [ended EXCEPT !.seeded = @ \cup {st.seeding.copy.to}]
  <2>1. reconcileSeeding(o, t)
    BY <1>7 DEF Restored
  <2> HIDE DEF ended
  <2>2. t \in Statuses
    BY <1>1, <1>2 DEF Statuses
  <2>3. /\ t.created = st.created /\ t.op = st.op /\ t.recoveries = st.recoveries /\ t.attempts = st.attempts
        /\ t.seeding = None /\ t.seeded = st.seeded \cup {st.seeding.copy.to}
        /\ t.configured = st.configured /\ t.failed = st.failed
    BY <1>2, <1>3 DEF Statuses
  <2> HIDE DEF t
  <2>4. Holds(st.seeding.copy.to)
    BY <1>1, <1>7, NoneAssumption, Zenon DEF Holds
  <2>5. Good(t) /\ Advances(st, t)
    BY <1>1, <2>2, <2>3, <2>4, MemberSeeded, Zenon
  <2>6. Ready(t)
    BY <1>1, <2>3, <2>5, Zenon DEF Ready
  <2>7. ASSUME o \notin stale PROVE ReadyFresh(t)
    <3>1. Advances(stored, t)
      BY <1>1, <2>5, <2>7, AdvancesOn, Zenon DEF GoneOn
    <3>2. \A m \in t.seeded \ stored.seeded : m = st.seeding.copy.to
      BY <1>1, <2>3, <2>7, Zenon DEF SameCopy
    <3>3. stored.seeded = {} => st.seeding.copy.from = Holder
      BY <1>1, <2>7, Zenon DEF SameCopy, Good, Formed
    <3>4. FromStored(st.seeding.copy.to)
      BY <1>1, <1>7, <2>7, <3>3, Zenon DEF FromStored, SameCopy
    <3> QED
      BY <2>3, <3>1, <3>2, <3>4, Zenon DEF ReadyFresh, GoneOn
  <2> QED
    BY <1>1, <2>1, <2>6, <2>7, SeedingGoesOn, Zenon
<1>8. CASE got.state \in OpenStates
  <2> DEFINE on == [st EXCEPT !.seeding.restore = got.id, !.missing = FALSE]
  <2>1. got \in Operations /\ got.id \in Ids /\ Of(got.id, "restore", st.attempts, st.seeding.copy)
    BY <1>8, AnswerStates DEF OpenStates
  <2>2. [st.seeding EXCEPT !.restore = got.id] \in Seedings
    BY <1>1, <2>1 DEF Seedings
  <2>3. on \in Statuses
    BY <1>1, <2>2, Zenon DEF Statuses
  <2>4. /\ on.created = st.created /\ on.op = st.op /\ on.recoveries = st.recoveries /\ on.attempts = st.attempts
        /\ on.seeding = [st.seeding EXCEPT !.restore = got.id]
        /\ on.seeded = st.seeded /\ on.configured = st.configured /\ on.failed = st.failed
    BY <1>1, Zenon DEF Statuses
  <2>5. Return(o, on)
    BY <1>8 DEF Restored, OpenStates
  <2> HIDE DEF on
  <2>6. /\ on.seeding # None /\ on.seeding.copy = st.seeding.copy
        /\ on.seeding.restore = got.id /\ on.seeding.backup = st.seeding.backup
    BY <1>1, <2>2, <2>4, NoneAssumption DEF Seedings
  <2>7. Good(on) /\ Advances(st, on)
    BY <1>1, <2>1, <2>3, <2>4, <2>6, CopyRecorded, Zenon
  <2> QED
    BY <1>1, <2>4, <2>5, <2>7, GoneOnOn, Returns
<1> QED
  BY <1>4, <1>5, <1>6, <1>7, <1>8, AnswerStates DEF States, OpenStates

-----------------------------------------------------------------------------
(* What other steps leave as it was.                                       *)

\* The cluster is the same, no copy is forgotten and no served database changes.
Steady ==
    /\ recovers' = recovers
    /\ kept \subseteq kept'
    /\ \A m \in Members : Served(m) => data'[m] = data[m]

\* A status that was right is so after such a step.
LEMMA GoodKept ==
    ASSUME Steady, NEW st, Good(st)
    PROVE  Good(st)'
<1>1. st.seeded \subseteq Members /\ Holder \in Members
  BY PeersFacts DEF Good, Statuses
<1>2. ASSUME NEW m \in Members, Served(m) PROVE Served(m)' /\ data'[m].copy = data[m].copy
  BY <1>2 DEF Steady, Served
<1>3. Truthful(st)'
  BY <1>1, <1>2 DEF Good, Truthful, Holds, Unseeded
<1>4. Formed(st)'
  BY Zenon DEF Good, Formed, Steady, Unseeded, NextPeer, Of
<1> QED
  BY <1>3, <1>4 DEF Good

\* So is what an operator has at a place of its pass.
LEMMA PassKept ==
    ASSUME Steady, NEW st, NEW l, NEW k, PassOK(st, l, k)
    PROVE  PassOK(st, l, k)'
<1>1. Good(st)'
  BY GoodKept DEF PassOK
<1>2. Unseeded(st)' = Unseeded(st) /\ (Remembered(st) => Remembered(st)')
  BY DEF Unseeded, Remembered, Steady
<1> QED
  BY <1>1, <1>2, Zenon DEF PassOK, Steady

\* What is over is so by the status alone.
LEMMA OverKept ==
    ASSUME NEW kind, NEW attempt, NEW copy
    PROVE  /\ \A st : Over(st, kind, attempt, copy)' = Over(st, kind, attempt, copy)
           /\ stored' = stored => Over(stored, kind, attempt, copy)' = Over(stored, kind, attempt, copy)
<1>1. ASSUME NEW st PROVE Over(st, kind, attempt, copy)' = Over(st, kind, attempt, copy)
  BY DEF Over, OverFirst, OverCopy, Of
<1>2. ASSUME stored' = stored PROVE Over(stored, kind, attempt, copy)' = Over(stored, kind, attempt, copy)
  <2>1. OverFirst(stored, kind, attempt)' = OverFirst(stored, kind, attempt)
    BY <1>2 DEF OverFirst, Of
  <2>2. OverCopy(stored, kind, attempt, copy)' = OverCopy(stored, kind, attempt, copy)
    BY <1>2 DEF OverCopy, Of
  <2> QED
    BY <1>2, <2>1, <2>2 DEF Over
<1> QED
  BY <1>1, <1>2

\* And one that went by the stored status does so still.
LEMMA FreshKept ==
    ASSUME Steady, stored' = stored, NEW st, NEW l, NEW k, Good(st), FreshOK(st, l, k)
    PROVE  FreshOK(st, l, k)'
<1>1. Advances(stored, st)'
  <2>1. Advances(stored, st)
    BY DEF FreshOK, GoneOn
  <2> QED
    BY <2>1, OverKept DEF Advances
<1>2. ASSUME NEW m \in st.seeded \ stored.seeded PROVE FromStored(m)'
  <2>1. m \in Members /\ Served(m) /\ FromStored(m)
    BY <1>2 DEF Good, Statuses, Truthful, Holds, FreshOK, GoneOn
  <2>2. data'[m] = data[m]
    BY <2>1 DEF Steady
  <2> QED
    BY <2>1, <2>2 DEF FromStored
<1>3. SameCopy(st) => SameCopy(st)'
  BY DEF SameCopy
<1>4. AsRead(st, l, k)' = AsRead(st, l, k)
  BY DEF AsRead
<1> QED
  BY <1>1, <1>2, <1>3, <1>4 DEF FreshOK, GoneOn

\* An operator has the status, the place and sourceRecorded that the step gave it.
LEMMA PassAs ==
    ASSUME NEW o, NEW st, NEW l, NEW k, mine'[o] = st, pc'[o] = l, known'[o] = k
    PROVE  /\ PassOK(st, l, k)' => PassOK(mine[o], pc[o], known[o])'
           /\ FreshOK(st, l, k)' => FreshOK(mine[o], pc[o], known[o])'
<1>1. PassOK(st, l, k)' => PassOK(mine[o], pc[o], known[o])'
  <2>1. Unseeded(mine[o])' = Unseeded(st)' /\ NextPeer(mine[o])' = NextPeer(st)'
    BY DEF Unseeded, NextPeer
  <2>2. Formed(mine[o])' = Formed(st)'
    BY <2>1, Zenon DEF Formed, Of
  <2>3. Truthful(mine[o])' = Truthful(st)'
    BY <2>1 DEF Truthful
  <2>4. Remembered(mine[o])' = Remembered(st)'
    BY DEF Remembered
  <2> QED
    BY <2>1, <2>2, <2>3, <2>4, Zenon DEF PassOK, Good
<1>2. FreshOK(st, l, k)' => FreshOK(mine[o], pc[o], known[o])'
  <2>1. GoneOn(mine[o])' = GoneOn(st)'
    <3>1. \A kind, attempt : OverFirst(mine[o], kind, attempt)' = OverFirst(st, kind, attempt)'
      BY Zenon DEF OverFirst, Of
    <3>2. \A kind, attempt, copy : OverCopy(mine[o], kind, attempt, copy)' = OverCopy(st, kind, attempt, copy)'
      BY DEF OverCopy, Of
    <3>3. \A kind, attempt, copy : Over(mine[o], kind, attempt, copy)' <=> Over(st, kind, attempt, copy)'
      BY <3>1, <3>2, Zenon DEF Over
    <3>4. Advances(stored, mine[o])' <=> Advances(stored, st)'
      BY <3>3, Zenon DEF Advances
    <3> QED
      BY <3>4, Zenon DEF GoneOn
  <2>2. SameCopy(mine[o])' = SameCopy(st)'
    BY DEF SameCopy
  <2>3. AsRead(mine[o], pc[o], known[o])' = AsRead(st, l, k)'
    BY DEF AsRead
  <2> QED
    BY <2>1, <2>2, <2>3 DEF FreshOK
<1> QED
  BY <1>1, <1>2

\* What an operator has when it does nothing itself.
LEMMA OtherPass ==
    ASSUME IInv, Steady, stored' = stored, NEW o \in Operators, mine'[o] = mine[o], pc'[o] = pc[o],
           known'[o] = known[o], o \in stale => o \in stale'
    PROVE  /\ PassOK(mine[o], pc[o], known[o])'
           /\ o \notin stale' /\ pc'[o] # "idle" => FreshOK(mine[o], pc[o], known[o])'
<1>1. PICK st, l, k : st = mine[o] /\ l = pc[o] /\ k = known[o]
  OBVIOUS
<1>2. PassOK(st, l, k) /\ (o \notin stale /\ l # "idle" => FreshOK(st, l, k))
  BY <1>1, Zenon DEF IInv, PassInv
<1>3. PassOK(st, l, k)' /\ (o \notin stale /\ l # "idle" => FreshOK(st, l, k)')
  BY <1>2, PassKept, FreshKept, Zenon DEF PassOK
<1>4. mine'[o] = st /\ pc'[o] = l /\ known'[o] = k
  BY <1>1
<1> QED
  BY <1>3, <1>4, PassAs, Zenon

\* A status that becomes the stored one.
LEMMA GoodStored ==
    ASSUME NEW st, Good(st)', stored' = st
    PROVE  Good(stored)'
<1>1. Unseeded(stored)' = Unseeded(st)' /\ NextPeer(stored)' = NextPeer(st)'
  BY DEF Unseeded, NextPeer
<1>2. Formed(stored)' = Formed(st)'
  BY <1>1, Zenon DEF Formed, Of
<1>3. Truthful(stored)' = Truthful(st)'
  BY <1>1 DEF Truthful
<1> QED
  BY <1>2, <1>3 DEF Good

\* The stored status, when it stays.
LEMMA StoredStays ==
    ASSUME IInv, Steady, stored' = stored, kept' = kept
    PROVE  StoredInv'
<1>1. PICK st : st = stored
  OBVIOUS
<1>2. Good(st)' /\ stored' = st
  BY <1>1, GoodKept DEF IInv, StoredInv
<1>3. Good(stored)'
  BY <1>2, GoodStored
<1>4. (stored.seeding # None /\ stored.seeded # {} => Remembered(stored))'
  BY DEF IInv, StoredInv, Remembered, Steady
<1> QED
  BY <1>3, <1>4, OverKept DEF IInv, StoredInv

\* A step of an operator's pass.
LEMMA PassStep ==
    ASSUME IInv, NEW o \in Operators, GoesOn(o), OpsInv', ops' \in [Members -> SUBSET Operations],
           asked' \in [Operators -> SUBSET Members], seen' \in [Operators -> SUBSET Members],
           UNCHANGED <<recovers, stored, kept, stale, forgets, data, masters>>
    PROVE  IInv'
<1>1. PICK st \in Statuses, l \in Labels \ {"idle"}, k \in BOOLEAN :
        Moves(o, st, l, k) /\ PassOK(st, l, k) /\ (o \notin stale => FreshOK(st, l, k))
  BY DEF GoesOn
<1>2. Steady
  BY DEF Steady
<1>3. TypeOK'
  BY <1>1 DEF IInv, TypeOK, Moves
<1>4. mine'[o] = st /\ pc'[o] = l /\ known'[o] = k
  BY <1>1 DEF IInv, TypeOK, Moves
<1>5. PassOK(st, l, k)' /\ (o \notin stale => FreshOK(st, l, k)')
  BY <1>1, <1>2, PassKept, FreshKept, Zenon DEF PassOK
<1>6. PassOK(mine[o], pc[o], known[o])' /\ (o \notin stale => FreshOK(mine[o], pc[o], known[o])')
  BY <1>4, <1>5, PassAs, Zenon
<1>7. ASSUME NEW p \in Operators \ {o}
      PROVE  /\ PassOK(mine[p], pc[p], known[p])'
             /\ p \notin stale' /\ pc'[p] # "idle" => FreshOK(mine[p], pc[p], known[p])'
  <2>1. mine'[p] = mine[p] /\ pc'[p] = pc[p] /\ known'[p] = known[p]
    BY <1>1 DEF IInv, TypeOK, Moves
  <2> QED
    BY <1>2, <2>1, OtherPass, Zenon
<1>8. \A p \in Operators : p \in stale' => pc'[p] # "idle"
  BY <1>1, <1>4 DEF IInv, TypeOK, PassInv, Moves
<1>9. PassInv'
  BY <1>6, <1>7, <1>8, Zenon DEF PassInv
<1> QED
  BY <1>2, <1>3, <1>9, StoredStays DEF IInv

-----------------------------------------------------------------------------
(* The steps of a pass.                                                    *)

\* What a member answers about an operation by its id.
Told(m, id, got, kind, attempt, copy) ==
    /\ AnswerOf(got, kind, attempt, copy) /\ got # Refused
    /\ got \in Operations => got.id = id
    /\ got.state \in States => got \in ops[m]

\* So does GetAnswers.
LEMMA GetAnswered ==
    ASSUME TypeOK, NEW m \in Members, NEW id \in Ids, NEW kind, NEW attempt, NEW copy, Of(id, kind, attempt, copy),
           NEW got \in GetAnswers(m, id)
    PROVE  Told(m, id, got, kind, attempt, copy)
<1>1. CASE got \in {Error, Missing}
  <2>1. Error.state = "error" /\ Missing.state = "missing" /\ Refused.state = "refused"
    BY DEF Error, Missing, Refused, NoOperation
  <2>2. got.state \notin States /\ got # Refused
    BY <1>1, <2>1 DEF States
  <2>3. got \notin Operations
    BY <2>2 DEF Operations
  <2> QED
    BY <1>1, <2>2, <2>3, Zenon DEF AnswerOf, Told
<1>2. CASE got \in ops[m] /\ got.id = id
  <2>1. got \in Operations
    BY <1>2 DEF TypeOK
  <2>2. got.state # "refused"
    BY <2>1 DEF Operations, States
  <2> QED
    <3>1. got # Refused
      BY <2>2 DEF Refused, NoOperation
    <3> QED
      BY <1>2, <2>1, <3>1, Zenon DEF AnswerOf, Told
<1> QED
  BY <1>1, <1>2, Zenon DEF GetAnswers

\* Nothing is started, or one operation where none was open.
Starts(m, after, kind, attempt, copy) ==
    \/ after = ops[m]
    \/ \E new \in Operations :
         /\ after = ops[m] \cup {new} /\ new.state = "Pending" /\ Of(new.id, kind, attempt, copy)
         /\ \A op \in ops[m] : op.state \notin OpenStates

\* FindOrCreate, and what a member answers about a start.
LEMMA StartAnswered ==
    ASSUME TypeOK, NEW m \in Members, NEW kind \in Kinds, NEW attempt \in Nat, NEW copy \in Copies \cup {None},
           NEW r \in StartAnswers(m, kind, attempt, copy)
    PROVE  /\ Starts(m, r.ops, kind, attempt, copy)
           /\ AnswerOf(r.got, kind, attempt, copy) /\ r.got # Missing
           /\ r.got.state = "Completed" => r.got \in ops[m]
<1> DEFINE after == FindOrCreate(m, kind, attempt, copy)
           new == [id |-> [kind |-> kind, attempt |-> attempt, copy |-> copy, gen |-> forgets],
                   state |-> "Pending", restored |-> FALSE]
<1>1. new \in Operations /\ new.state = "Pending" /\ Of(new.id, kind, attempt, copy)
  BY DEF Operations, States, Ids, Of, TypeOK
<1>2. after = ops[m] \/ (after = ops[m] \cup {new} /\ \A op \in ops[m] : op.state \notin OpenStates)
  BY Zenon DEF FindOrCreate
<1> HIDE DEF new
<1>3. Starts(m, after, kind, attempt, copy) /\ Starts(m, ops[m], kind, attempt, copy)
  BY <1>1, <1>2, Zenon DEF Starts
<1>4. CASE r.ops \in {ops[m], after} /\ r.got \in {Error, Refused}
  <2>1. r.got.state \in {"error", "refused"}
    <3>1. Error.state = "error" /\ Refused.state = "refused"
      BY DEF Error, Refused, NoOperation
    <3> QED
      BY <1>4, <3>1, Zenon
  <2>2. r.got # Missing /\ r.got.state # "Completed"
    <3>1. Missing.state = "missing"
      BY DEF Missing, NoOperation
    <3> QED
      BY <2>1, <3>1
  <2> QED
    BY <1>3, <1>4, <2>2, Zenon DEF AnswerOf
<1>5. CASE r.ops = after /\ r.got \in after /\ Of(r.got.id, kind, attempt, copy)
  <2>1. r.got \in Operations
    <3>1. ops[m] \subseteq Operations
      BY DEF TypeOK
    <3> HIDE DEF after
    <3> QED
      BY <1>1, <1>2, <1>5, <3>1
  <2>2. r.got.state # "missing"
    BY <2>1, Zenon DEF Operations, States
  <2> QED
    <3>1. r.got # Missing
      BY <2>2 DEF Missing, NoOperation
    <3>2. AnswerOf(r.got, kind, attempt, copy)
      BY <1>5, <2>1, Zenon DEF AnswerOf
    <3>3. r.got.state = "Completed" => r.got # new
      BY <1>1
    <3> QED
      BY <1>2, <1>3, <1>5, <3>1, <3>2, <3>3, Zenon
<1>6. \/ r \in {[ops |-> ops[m], got |-> Error], [ops |-> after, got |-> Error], [ops |-> ops[m], got |-> Refused]}
      \/ \E op \in after : Of(op.id, kind, attempt, copy) /\ r = [ops |-> after, got |-> op]
  BY Zenon DEF StartAnswers, Of
<1> HIDE DEF after
<1>7. CASE r \in {[ops |-> ops[m], got |-> Error], [ops |-> after, got |-> Error], [ops |-> ops[m], got |-> Refused]}
  <2>1. r.ops \in {ops[m], after} /\ r.got \in {Error, Refused}
    BY <1>7
  <2> QED
    BY <1>4, <2>1, Zenon
<1>8. CASE \E op \in after : Of(op.id, kind, attempt, copy) /\ r = [ops |-> after, got |-> op]
  <2>1. PICK op \in after : Of(op.id, kind, attempt, copy) /\ r = [ops |-> after, got |-> op]
    BY <1>8
  <2>2. r.ops = after /\ r.got = op
    BY <2>1
  <2> QED
    BY <1>5, <2>1, <2>2, Zenon
<1> QED
  BY <1>6, <1>7, <1>8, Zenon

\* A start leaves the operations of the members as they should be.
LEMMA StartKeeps ==
    ASSUME IInv, NEW m \in Members, NEW after, NEW kind, NEW attempt, NEW copy, Starts(m, after, kind, attempt, copy),
           kind = "create" => copy = None,
           kind = "restore" /\ copy # None => copy.to = m /\ (m = Peers[1] \/ <<"copy", attempt, copy>> \in kept),
           ops' = [ops EXCEPT ![m] = after], kept' = kept, data' = data
    PROVE  OpsInv' /\ ops' \in [Members -> SUBSET Operations]
<1>1. ops \in [Members -> SUBSET Operations] /\ OpsInv
  BY Zenon DEF IInv, TypeOK
<1>2. CASE after = ops[m]
  <2>1. ops' = ops
    BY <1>1, <1>2
  <2> QED
    BY <1>1, <2>1, Zenon DEF OpsInv, OpInv, Served
<1>3. CASE after # ops[m]
  <2>1. PICK new \in Operations :
           /\ after = ops[m] \cup {new} /\ new.state = "Pending" /\ Of(new.id, kind, attempt, copy)
           /\ \A op \in ops[m] : op.state \notin OpenStates
    BY <1>3 DEF Starts
  <2>2. OpInv(m, new)
    BY <2>1 DEF OpInv, Of
  <2>3. ops' \in [Members -> SUBSET Operations]
    BY <1>1, <2>1
  <2>4. ASSUME NEW n \in Members PROVE ops'[n] = ops[n] \/ (n = m /\ ops'[n] = ops[m] \cup {new})
    BY <1>1, <2>1
  <2>5. ASSUME NEW n \in Members, NEW op \in ops'[n] PROVE OpInv(n, op)'
    <3>1. OpInv(n, op)
      BY <1>1, <2>2, <2>4, Zenon DEF OpsInv
    <3> QED
      BY <3>1, Zenon DEF OpInv, Served
  <2>6. ASSUME NEW n \in Members, NEW op \in ops'[n], NEW q \in ops'[n], op.state \in OpenStates, q.state \in OpenStates
        PROVE  op = q
    BY <1>1, <2>1, <2>4, <2>6, Zenon DEF OpsInv
  <2> QED
    BY <2>3, <2>5, <2>6 DEF OpsInv
<1> QED
  BY <1>2, <1>3

\* A step that starts nothing leaves the operations as they should be.
LEMMA OpsStay ==
    ASSUME IInv, UNCHANGED <<ops, kept, data>>
    PROVE  OpsInv' /\ ops' \in [Members -> SUBSET Operations]
<1>1. \A m \in Members : \A op \in ops[m] : OpInv(m, op)'
  BY Zenon DEF IInv, OpsInv, OpInv, Served
<1>2. \A m \in Members : \A op, q \in ops[m] : op.state \in OpenStates /\ q.state \in OpenStates => op = q
  BY Zenon DEF IInv, OpsInv
<1>3. OpsInv'
  BY <1>1, <1>2, Zenon DEF OpsInv
<1> QED
  BY <1>3, Zenon DEF IInv, TypeOK

\* It asks no holder.
LEMMA ProbingStays ==
    ASSUME IInv, UNCHANGED <<asked, seen>>
    PROVE  asked' \in [Operators -> SUBSET Members] /\ seen' \in [Operators -> SUBSET Members]
  BY DEF IInv, TypeOK

\* The holders are asked by selectSeedSource only.
LEMMA ReturnProbing == \A o, st : Return(o, st) \/ reconcileSeeding(o, st) => UNCHANGED <<asked, seen>>
  BY Zenon DEF Return, probing, reconcileSeeding

\* reconcileHABootstrap polls or starts the create operation.
LEMMA CreateStep ==
    ASSUME IInv, NEW o \in Operators, Create(o)
    PROVE  IInv'
<1>1. TypeOK /\ Good(mine[o]) /\ mine[o] \in Statuses /\ ~recovers /\ ~mine[o].created /\ Holder \in Members
  BY PeersFacts, Zenon DEF Create, IInv, PassInv, PassOK, Good
<1>2. \A got : Created(o, got) => UNCHANGED <<asked, seen>>
  BY ReturnProbing DEF Created
<1>3. CASE mine[o].op # None
  <2>1. PICK got \in GetAnswers(Holder, mine[o].op) : Created(o, got)
    BY <1>3 DEF Create
  <2>2. mine[o].op \in Ids /\ Of(mine[o].op, "create", mine[o].attempts, None)
    BY <1>1, <1>3, Zenon DEF Good, Formed, Of, Statuses
  <2>3. /\ AnswerOf(got, "create", mine[o].attempts, None) /\ got # Refused
        /\ got \in Operations => got.id = mine[o].op
        /\ got.state \in States => got \in ops[Holder]
    <3>1. Told(Holder, mine[o].op, got, "create", mine[o].attempts, None)
      BY <1>1, <2>1, <2>2, GetAnswered, Zenon
    <3> QED
      BY <3>1, Zenon DEF Told
  <2>4. got.state # "refused"
    BY <2>3 DEF AnswerOf, Error, Refused, Missing, NoOperation, Operations, States
  <2>5. got.state = "Completed" => Served(Holder)
    <3>1. got.state = "Completed" => got \in ops[Holder] /\ got.id.kind = "create"
      BY <2>3, AnswerStates DEF States, Of
    <3> QED
      BY <1>1, <3>1, Zenon DEF IInv, OpsInv, OpInv
  <2>6. GoesOn(o)
    BY <2>1, <2>3, <2>4, <2>5, CreatedGoesOn, Zenon DEF Create
  <2>7. OpsInv' /\ ops' \in [Members -> SUBSET Operations]
    BY <1>3, OpsStay, Zenon DEF Create
  <2> QED
    BY <1>2, <2>1, <2>6, <2>7, ProbingStays, PassStep, Zenon DEF Create, fixed
<1>4. CASE mine[o].op = None
  <2>1. PICK r \in StartAnswers(Holder, "create", mine[o].attempts, None) :
           ops' = [ops EXCEPT ![Holder] = r.ops] /\ Created(o, r.got)
    BY <1>4, Zenon DEF Create
  <2>2. /\ Starts(Holder, r.ops, "create", mine[o].attempts, None)
        /\ AnswerOf(r.got, "create", mine[o].attempts, None)
        /\ r.got.state = "Completed" => r.got \in ops[Holder]
    BY <1>1, <2>1, StartAnswered, Zenon DEF Kinds, Statuses
  <2>3. r.got.state = "Completed" => Served(Holder)
    <3>1. r.got.state = "Completed" => r.got.id.kind = "create"
      BY <2>2, AnswerStates, Zenon DEF Of
    <3> QED
      BY <1>1, <2>2, <3>1, Zenon DEF IInv, OpsInv, OpInv
  <2>4. GoesOn(o)
    BY <1>4, <2>1, <2>2, <2>3, CreatedGoesOn, Zenon DEF Create
  <2>5. OpsInv' /\ ops' \in [Members -> SUBSET Operations]
    BY <1>1, <2>1, <2>2, StartKeeps, Zenon DEF Create
  <2> QED
    BY <1>2, <2>1, <2>4, <2>5, ProbingStays, PassStep, Zenon DEF Create, fixed
<1> QED
  BY <1>3, <1>4

\* reconcileRecovery polls or starts the restore of the manifest.
LEMMA RecoverStep ==
    ASSUME IInv, NEW o \in Operators, Recover(o)
    PROVE  IInv'
<1>1. TypeOK /\ Good(mine[o]) /\ mine[o] \in Statuses /\ recovers /\ ~mine[o].created /\ Holder \in Members
  BY PeersFacts, Zenon DEF Recover, IInv, PassInv, PassOK, Good
<1>2. CASE mine[o].op # None
  <2>1. PICK got \in GetAnswers(Holder, mine[o].op) : RecoveryPolled(o, got)
    BY <1>2, Zenon DEF Recover
  <2>2. mine[o].op \in Ids /\ Of(mine[o].op, "restore", mine[o].recoveries, None)
    BY <1>1, <1>2, Zenon DEF Good, Formed, Of, Statuses
  <2>3. /\ AnswerOf(got, "restore", mine[o].recoveries, None) /\ got # Refused
        /\ got.state \in States => got \in ops[Holder]
    <3>1. Told(Holder, mine[o].op, got, "restore", mine[o].recoveries, None)
      BY <1>1, <2>1, <2>2, GetAnswered, Zenon
    <3> QED
      BY <3>1, Zenon DEF Told
  <2>4. got.state = "Completed" => Served(Holder)
    <3>1. got.state = "Completed" => got \in ops[Holder] /\ got.id.kind = "restore"
      BY <2>3, AnswerStates DEF States, Of
    <3> QED
      BY <1>1, <3>1, Zenon DEF IInv, OpsInv, OpInv
  <2>5. GoesOn(o)
    BY <1>2, <2>1, <2>3, <2>4, RecoveryPolledGoesOn, Zenon DEF Recover
  <2>6. OpsInv' /\ ops' \in [Members -> SUBSET Operations]
    BY <1>2, OpsStay, Zenon DEF Recover
  <2>7. UNCHANGED <<asked, seen>>
    BY <2>1, ReturnProbing DEF RecoveryPolled
  <2> QED
    BY <2>5, <2>6, <2>7, ProbingStays, PassStep, Zenon DEF Recover, fixed
<1>3. CASE mine[o].op = None
  <2>1. PICK r \in StartAnswers(Holder, "restore", mine[o].recoveries, None) :
           ops' = [ops EXCEPT ![Holder] = r.ops] /\ RecoveryStarted(o, r.got)
    BY <1>3, Zenon DEF Recover
  <2>2. /\ Starts(Holder, r.ops, "restore", mine[o].recoveries, None)
        /\ AnswerOf(r.got, "restore", mine[o].recoveries, None) /\ r.got # Missing
    BY <1>1, <2>1, StartAnswered, Zenon DEF Kinds, Statuses
  <2>3. GoesOn(o)
    BY <1>3, <2>1, <2>2, RecoveryStartedGoesOn, Zenon DEF Recover
  <2>4. OpsInv' /\ ops' \in [Members -> SUBSET Operations]
    BY <1>1, <2>1, <2>2, StartKeeps, Zenon DEF Recover
  <2>5. UNCHANGED <<asked, seen>>
    BY <2>1, ReturnProbing DEF RecoveryStarted
  <2> QED
    BY <2>3, <2>4, <2>5, ProbingStays, PassStep, Zenon DEF Recover, fixed
<1> QED
  BY <1>2, <1>3

\* A pass that goes to another place with the status it has.
LEMMA OnWithSame ==
    ASSUME IInv, NEW o \in Operators, NEW l \in Labels \ {"idle"},
           mine' = mine, pc' = [pc EXCEPT ![o] = l], known' = known,
           PassOK(mine[o], l, known[o]), o \notin stale => FreshOK(mine[o], l, known[o])
    PROVE  GoesOn(o)
<1>1. mine[o] \in Statuses /\ known[o] \in BOOLEAN /\ Moves(o, mine[o], l, known[o])
  BY DEF IInv, TypeOK, Moves
<1> QED
  BY <1>1 DEF GoesOn

\* It may always end with the status that it has.
LEMMA OnToWrite ==
    ASSUME IInv, NEW o \in Operators, pc[o] # "idle"
    PROVE  PassOK(mine[o], "write", known[o]) /\ (o \notin stale => FreshOK(mine[o], "write", known[o]))
  BY Zenon DEF IInv, PassInv, PassOK, FreshOK, AsRead

\* selectSeedSource asks a holder.
LEMMA ProbeStep ==
    ASSUME IInv, NEW o \in Operators, Probe(o)
    PROVE  IInv'
<1>1. PICK m \in Holders(mine[o]) \ asked[o] :
        \/ /\ asked' = [asked EXCEPT ![o] = @ \cup {m}]
           /\ seen' = [seen EXCEPT ![o] = @ \cup ({m} \cap masters)]
           /\ pc' = pc
        \/ Goto(o, "write") /\ UNCHANGED <<asked, seen>>
  BY Zenon DEF Probe
<1>2. TypeOK /\ mine[o] \in Statuses /\ m \in Members
  BY PeersFacts DEF IInv, TypeOK, Holders, Statuses
<1>3. asked' \in [Operators -> SUBSET Members] /\ seen' \in [Operators -> SUBSET Members]
  BY <1>1, <1>2 DEF TypeOK
<1>4. pc[o] = "observe" /\ mine' = mine /\ known' = known /\ pc[o] \in Labels \ {"idle"}
  BY DEF Probe, Labels
<1>5. GoesOn(o)
  <2>1. CASE pc' = pc
    <3>1. pc' = [pc EXCEPT ![o] = pc[o]]
      BY <1>2, <2>1 DEF TypeOK
    <3>2. PassOK(mine[o], pc[o], known[o]) /\ (o \notin stale => FreshOK(mine[o], pc[o], known[o]))
      BY <1>4, Zenon DEF IInv, PassInv
    <3> QED
      BY <1>4, <3>1, <3>2, OnWithSame, Zenon
  <2>2. CASE pc' = [pc EXCEPT ![o] = "write"]
    <3>1. "write" \in Labels \ {"idle"}
      BY DEF Labels
    <3> QED
      BY <1>4, <2>2, <3>1, OnToWrite, OnWithSame, Zenon
  <2> QED
    BY <1>1, <2>1, <2>2 DEF Goto
<1>6. OpsInv' /\ ops' \in [Members -> SUBSET Operations]
  BY OpsStay, Zenon DEF Probe, members
<1> QED
  BY <1>3, <1>5, <1>6, PassStep, Zenon DEF Probe, fixed, members

\* seedSourceAmong takes the master among the holders.
LEMMA SelectSourceStep ==
    ASSUME IInv, NEW o \in Operators, SelectSource(o)
    PROVE  IInv'
<1> DEFINE st == mine[o]
           same(source) == Copying(st) /\ st.seeding.copy.from = source
           round == IF Copying(st) THEN st.seeding.copy.round + 1 ELSE 0
<1>1. /\ TypeOK /\ Good(st) /\ st \in Statuses /\ st.created /\ ~st.failed /\ ~st.configured
      /\ Unseeded(st) # {} /\ st.seeded # {} /\ pc[o] = "observe"
      /\ st.seeding # None => st.seeding.restore = None /\ Remembered(st)
      /\ o \notin stale => GoneOn(st) /\ (st.seeding # None => SameCopy(st))
  BY Zenon DEF SelectSource, IInv, PassInv, PassOK, FreshOK, AsRead, Good
<1>2. st.seeding # None <=> Copying(st)
  BY <1>1, Zenon DEF Good, Formed, Copying
<1>3. GoesOn(o)
  <2>1. CASE Work(o, st) /\ Goto(o, "write") /\ known' = known
    <3>1. mine' = mine /\ pc' = [pc EXCEPT ![o] = "write"] /\ "write" \in Labels \ {"idle"}
      BY <1>1, <2>1, Zenon DEF Work, Goto, TypeOK, Labels
    <3> QED
      BY <1>1, <2>1, <3>1, OnToWrite, OnWithSame, Zenon
  <2>2. ASSUME NEW source \in seen[o], NEW to \in NextPeer(st),
               SeedStep(o, IF same(source) THEN st ELSE SetSeeding(st, to, source, round), same(source))
        PROVE  GoesOn(o)
    <3>1. source \in Members
      BY <1>1, Zenon DEF TypeOK
    <3>2. CASE same(source)
      <4>1. SeedStep(o, st, TRUE)
        BY <2>2, <3>2, Zenon
      <4> QED
        BY <1>1, <1>2, <3>2, <4>1, SeedStepGoesOn, Zenon
    <3>3. CASE ~same(source)
      <4> DEFINE t == SetSeeding(st, to, source, round)
      <4>1. SeedStep(o, t, FALSE)
        BY <2>2, <3>3, Zenon
      <4>2. round \in Nat /\ (st.seeding # None => round > st.seeding.copy.round)
        <5>1. st.seeding # None => st.seeding \in Seedings /\ st.seeding.copy.round \in Nat
          BY <1>1, Zenon DEF Statuses, Seedings, Copies
        <5> QED
          BY <1>2, <5>1
      <4> HIDE DEF round
      <4>3. /\ Good(t) /\ Advances(st, t) /\ t.seeding # None /\ t.seeding.restore = None
            /\ t.created /\ t.failed = st.failed /\ t.configured = st.configured /\ t.seeded = st.seeded
        <5> HIDE DEF st
        <5>1. Begun(st, SetSeeding(st, to, source, round))
          BY <1>1, <3>1, <4>2, CopyBegun, Zenon
        <5> QED
          BY <5>1, Zenon DEF Begun
      <4> HIDE DEF t
      <4>4. Unseeded(t) # {}
        BY <1>1, <4>3, SamePeer, Zenon
      <4> QED
        BY <1>1, <4>1, <4>3, <4>4, GoneOnOn, SeedStepGoesOn, Zenon
    <3> QED
      BY <3>2, <3>3
  <2> QED
    BY <2>1, <2>2, Zenon DEF SelectSource
<1>4. asked' \in [Operators -> SUBSET Members] /\ seen' \in [Operators -> SUBSET Members]
  BY <1>1, Zenon DEF SelectSource, TypeOK
<1>5. OpsInv' /\ ops' \in [Members -> SUBSET Operations]
  BY OpsStay, Zenon DEF SelectSource, members
<1> QED
  BY <1>3, <1>4, <1>5, PassStep, Zenon DEF SelectSource, fixed, members

\* retrySkipsSeedBackup finds what there is of the copy.
LEMMA LookupStep ==
    ASSUME IInv, NEW o \in Operators, Lookup(o)
    PROVE  IInv'
<1>1. PICK l \in {"restore", "backup", "write"} : pc' = [pc EXCEPT ![o] = l]
  BY DEF Lookup, Goto
<1>2. pc[o] = "lookup" /\ mine' = mine /\ known' = known /\ l \in Labels \ {"idle"} /\ UNCHANGED <<asked, seen>>
  BY DEF Lookup, Labels, probing
<1>3. PassOK(mine[o], l, known[o]) /\ (o \notin stale => FreshOK(mine[o], l, known[o]))
  BY <1>2, Zenon DEF IInv, PassInv, PassOK, FreshOK, AsRead
<1>4. OpsInv' /\ ops' \in [Members -> SUBSET Operations]
  BY OpsStay, Zenon DEF Lookup, members
<1> QED
  BY <1>1, <1>2, <1>3, <1>4, OnWithSame, ProbingStays, PassStep, Zenon DEF Lookup, fixed, members

\* seedBackup polls or starts the copy's backup.
LEMMA SeedBackupStep ==
    ASSUME IInv, NEW o \in Operators, SeedBackup(o)
    PROVE  IInv'
<1> DEFINE st == mine[o]
           copy == st.seeding.copy
<1>1. /\ TypeOK /\ Good(st) /\ st \in Statuses /\ st.seeding # None /\ st.seeding \in Seedings
      /\ copy \in Copies /\ copy.from \in Members /\ pc[o] = "backup"
  BY CopyFacts, Zenon DEF SeedBackup
<1>2. CASE st.seeding.backup # None
  <2>1. PICK got \in GetAnswers(copy.from, st.seeding.backup) : BackedUp(o, got)
    BY <1>2, Zenon DEF SeedBackup
  <2>2. st.seeding.backup \in Ids /\ Of(st.seeding.backup, "backup", st.attempts, copy)
    BY <1>1, <1>2, Zenon DEF Good, Formed, Seedings
  <2>3. AnswerOf(got, "backup", st.attempts, copy) /\ (got \in Operations => got.id = st.seeding.backup)
    <3> HIDE DEF st, copy
    <3>1. Told(copy.from, st.seeding.backup, got, "backup", st.attempts, copy)
      BY <1>1, <2>1, <2>2, GetAnswered, Zenon
    <3> QED
      BY <3>1, Zenon DEF Told
  <2>4. GoesOn(o)
    BY <1>1, <2>1, <2>3, BackedUpGoesOn, Zenon
  <2>5. OpsInv' /\ ops' \in [Members -> SUBSET Operations]
    BY <1>2, OpsStay, Zenon DEF SeedBackup
  <2>6. UNCHANGED <<asked, seen>>
    BY <2>1, ReturnProbing DEF BackedUp, probing
  <2> QED
    BY <2>4, <2>5, <2>6, ProbingStays, PassStep, Zenon DEF SeedBackup, fixed
<1>3. CASE st.seeding.backup = None
  <2>1. PICK r \in StartAnswers(copy.from, "backup", st.attempts, copy) :
           ops' = [ops EXCEPT ![copy.from] = r.ops] /\ BackedUp(o, r.got)
    BY <1>3, Zenon DEF SeedBackup
  <2>2. Starts(copy.from, r.ops, "backup", st.attempts, copy) /\ AnswerOf(r.got, "backup", st.attempts, copy)
    BY <1>1, <2>1, StartAnswered, Zenon DEF Kinds, Statuses
  <2>3. GoesOn(o)
    BY <1>1, <1>3, <2>1, <2>2, BackedUpGoesOn, Zenon
  <2>4. OpsInv' /\ ops' \in [Members -> SUBSET Operations]
    BY <1>1, <2>1, <2>2, StartKeeps, Zenon DEF SeedBackup
  <2>5. UNCHANGED <<asked, seen>>
    BY <2>1, ReturnProbing DEF BackedUp, probing
  <2> QED
    BY <2>3, <2>4, <2>5, ProbingStays, PassStep, Zenon DEF SeedBackup, fixed
<1> QED
  BY <1>2, <1>3

\* recordedSeedRestore polls the restore.
LEMMA PollRestoreStep ==
    ASSUME IInv, NEW o \in Operators, PollRestore(o)
    PROVE  IInv'
<1> DEFINE st == mine[o]
           copy == st.seeding.copy
<1>1. /\ TypeOK /\ Good(st) /\ st \in Statuses /\ st.seeding # None /\ st.seeding \in Seedings
      /\ copy \in Copies /\ copy.to \in Members /\ pc[o] = "poll"
  BY CopyFacts, Zenon DEF PollRestore
<1>2. PICK got \in GetAnswers(copy.to, st.seeding.restore) : Restored(o, got)
  BY DEF PollRestore
<1>3. st.seeding.restore # None
  BY <1>1, Zenon DEF IInv, PassInv, PassOK
<1>4. st.seeding.restore \in Ids /\ Of(st.seeding.restore, "restore", st.attempts, copy)
  BY <1>1, <1>3, Zenon DEF Good, Formed, Seedings
<1>5. /\ AnswerOf(got, "restore", st.attempts, copy) /\ (got \in Operations => got.id = st.seeding.restore)
      /\ got.state \in States => got \in ops[copy.to]
  <2>1. PICK to, id, c : to = copy.to /\ id = st.seeding.restore /\ c = copy
    BY Zenon
  <2>2. to \in Members /\ id \in Ids /\ Of(id, "restore", st.attempts, c) /\ got \in GetAnswers(to, id)
    BY <1>1, <1>2, <1>4, <2>1, Zenon
  <2>3. /\ AnswerOf(got, "restore", st.attempts, c) /\ (got \in Operations => got.id = id)
        /\ got.state \in States => got \in ops[to]
    <3>1. Told(to, id, got, "restore", st.attempts, c)
      BY <1>1, <2>2, GetAnswered, Zenon
    <3> QED
      BY <3>1, Zenon DEF Told
  <2> QED
    BY <2>1, <2>3
<1>6. ASSUME got.state = "Completed" PROVE Served(copy.to) /\ data[copy.to].copy = copy
  <2>1. got \in ops[copy.to] /\ got.id.kind = "restore" /\ got.id.copy = copy
    <3>1. "Completed" \in States /\ "Completed" \notin {"error", "refused", "missing"}
      BY DEF States
    <3> QED
      BY <1>5, <1>6, <3>1, AnswerStates DEF Of
  <2> QED
    BY <1>1, <1>6, <2>1, Zenon DEF IInv, OpsInv, OpInv
<1>7. GoesOn(o)
  BY <1>1, <1>2, <1>5, <1>6, RestoredGoesOn, Zenon
<1>8. OpsInv' /\ ops' \in [Members -> SUBSET Operations]
  BY OpsStay, Zenon DEF PollRestore, members
<1>9. UNCHANGED <<asked, seen>>
  BY <1>2, ReturnProbing DEF Restored
<1> QED
  BY <1>7, <1>8, <1>9, ProbingStays, PassStep, Zenon DEF PollRestore, fixed, members

\* seedMember starts a restore of a copy that is remembered, or of the first member.
LEMMA StartRestoreStep ==
    ASSUME IInv, NEW o \in Operators, StartRestore(o)
    PROVE  IInv'
<1> DEFINE st == mine[o]
           copy == st.seeding.copy
<1>1. /\ TypeOK /\ Good(st) /\ st \in Statuses /\ st.seeding # None /\ copy \in Copies /\ copy.to \in Members
      /\ pc[o] = "restore" /\ (o \notin stale => GoneOn(st))
  BY CopyFacts, Zenon DEF StartRestore
<1>2. CASE known[o]
  <2>1. PICK r \in StartAnswers(copy.to, "restore", st.attempts, copy) :
           ops' = [ops EXCEPT ![copy.to] = r.ops] /\ Restored(o, r.got)
    BY <1>2, Zenon DEF StartRestore, RestoreAllowed
  <2>2. /\ Starts(copy.to, r.ops, "restore", st.attempts, copy) /\ AnswerOf(r.got, "restore", st.attempts, copy)
        /\ r.got.state = "Completed" => r.got \in ops[copy.to]
    BY <1>1, <2>1, StartAnswered, Zenon DEF Kinds, Statuses
  <2>3. ASSUME r.got.state = "Completed" PROVE Served(copy.to) /\ data[copy.to].copy = copy
    <3>1. r.got.id.kind = "restore" /\ r.got.id.copy = copy
      <4> HIDE DEF st, copy
      <4> QED
        BY <2>2, <2>3, AnswerStates, Zenon DEF Of
    <3> QED
      BY <1>1, <2>2, <2>3, <3>1, Zenon DEF IInv, OpsInv, OpInv
  <2>4. st.seeding.restore = None /\ (st.seeded # {} => Remembered(st))
    BY <1>1, <1>2, Zenon DEF IInv, PassInv, PassOK
  <2>5. GoesOn(o)
    BY <1>1, <1>2, <2>1, <2>2, <2>3, <2>4, RestoredGoesOn, Zenon
  <2>6. copy.to = Peers[1] \/ <<"copy", st.attempts, copy>> \in kept
    BY <1>1, <2>4, FirstPeer, Zenon DEF Remembered, Good, Formed
  <2>7. OpsInv' /\ ops' \in [Members -> SUBSET Operations]
    BY <1>1, <2>1, <2>2, <2>6, StartKeeps, Zenon DEF StartRestore
  <2>8. UNCHANGED <<asked, seen>>
    BY <2>1, ReturnProbing DEF Restored
  <2> QED
    BY <2>5, <2>7, <2>8, ProbingStays, PassStep, Zenon DEF StartRestore, fixed
<1>3. CASE ~known[o]
  <2>1. Return(o, st) /\ ops' = ops
    BY <1>3, Zenon DEF StartRestore, RestoreAllowed
  <2>2. GoesOn(o)
    BY <1>1, <2>1, Returns, Zenon
  <2>3. OpsInv' /\ ops' \in [Members -> SUBSET Operations]
    BY <2>1, OpsStay, Zenon DEF StartRestore
  <2>4. UNCHANGED <<asked, seen>>
    BY <2>1, ReturnProbing
  <2> QED
    BY <2>2, <2>3, <2>4, ProbingStays, PassStep, Zenon DEF StartRestore, fixed
<1> QED
  BY <1>2, <1>3

-----------------------------------------------------------------------------
(* The other steps.                                                        *)

\* Reconcile reads the status.
LEMMA ReadStep ==
    ASSUME IInv, NEW o \in Operators, Read(o)
    PROVE  IInv'
<1>1. /\ TypeOK /\ Good(stored) /\ stored \in Statuses /\ ~stored.failed /\ ~stored.configured
      /\ stored.seeding # None /\ stored.seeded # {} => Remembered(stored)
  BY Zenon DEF Read, IInv, StoredInv, Good
<1>2. stale' = stale
  BY Zenon DEF Read, IInv, PassInv
<1>3. GoneOn(stored)
  BY DEF GoneOn, Advances
<1>4. CASE stored.created
  <2>1. reconcileSeeding(o, stored)
    BY <1>4 DEF Read
  <2>2. Ready(stored) /\ ReadyFresh(stored)
    BY <1>1, <1>3, <1>4 DEF Ready, ReadyFresh, SameCopy
  <2>3. GoesOn(o) /\ UNCHANGED <<asked, seen>>
    BY <1>1, <2>1, <2>2, SeedingGoesOn, ReturnProbing
  <2>4. OpsInv' /\ ops' \in [Members -> SUBSET Operations]
    BY OpsStay DEF Read, members
  <2> QED
    BY <1>2, <2>3, <2>4, ProbingStays, PassStep DEF Read, members
<1>5. CASE ~stored.created
  <2> DEFINE l == IF recovers THEN "recover" ELSE "create"
  <2>1. Work(o, stored) /\ Goto(o, l) /\ UNCHANGED probing
    BY <1>5 DEF Read
  <2>2. Moves(o, stored, l, known[o]) /\ known[o] \in BOOLEAN /\ UNCHANGED <<asked, seen>>
    BY <1>1, <2>1, KnownStays DEF Work, Goto, probing, Moves
  <2>3. PassOK(stored, l, known[o])
    BY <1>1, <1>5, Zenon DEF PassOK
  <2>4. FreshOK(stored, l, known[o])
    BY <1>1, <1>3, <1>5, Zenon DEF FreshOK, SameCopy, Good, Formed
  <2>5. l \in Labels \ {"idle"}
    BY DEF Labels
  <2>6. GoesOn(o)
    BY <1>1, <2>2, <2>3, <2>4, <2>5, Zenon DEF GoesOn
  <2>7. OpsInv' /\ ops' \in [Members -> SUBSET Operations]
    BY OpsStay DEF Read, members
  <2> QED
    BY <1>2, <2>2, <2>6, <2>7, ProbingStays, PassStep, Zenon DEF Read, members
<1> QED
  BY <1>4, <1>5

\* A cluster without a status is right.
LEMMA NoStatusGood == NoStatus \in Statuses /\ Good(NoStatus)
<1>1. NoStatus \in Statuses
  BY Zenon DEF NoStatus, Statuses
<1>2. Formed(NoStatus) /\ Truthful(NoStatus)
  BY Zenon DEF Formed, Truthful, NoStatus
<1> QED
  BY <1>1, <1>2 DEF Good

\* A pass that is over.
LEMMA IdlePass ==
    ASSUME IInv, Steady, NEW o \in Operators, Forgotten(o)
    PROVE  /\ PassOK(mine[o], pc[o], known[o])' /\ pc'[o] = "idle"
           /\ mine' \in [Operators -> Statuses] /\ pc' \in [Operators -> Labels] /\ known' \in [Operators -> BOOLEAN]
           /\ asked' \in [Operators -> SUBSET Members] /\ seen' \in [Operators -> SUBSET Members]
           /\ \A p \in Operators \ {o} : mine'[p] = mine[p] /\ pc'[p] = pc[p] /\ known'[p] = known[p]
<1>1. /\ mine' = [mine EXCEPT ![o] = NoStatus] /\ pc' = [pc EXCEPT ![o] = "idle"]
      /\ known' = [known EXCEPT ![o] = FALSE]
      /\ asked' = [asked EXCEPT ![o] = {}] /\ seen' = [seen EXCEPT ![o] = {}]
  BY DEF Forgotten, Work, Goto
<1>2. /\ mine'[o] = NoStatus /\ pc'[o] = "idle" /\ known'[o] = FALSE
      /\ \A p \in Operators \ {o} : mine'[p] = mine[p] /\ pc'[p] = pc[p] /\ known'[p] = known[p]
  BY <1>1 DEF IInv, TypeOK
<1>3. /\ mine' \in [Operators -> Statuses] /\ pc' \in [Operators -> Labels] /\ known' \in [Operators -> BOOLEAN]
      /\ asked' \in [Operators -> SUBSET Members] /\ seen' \in [Operators -> SUBSET Members]
  BY <1>1, NoStatusGood DEF IInv, TypeOK, Labels
<1>4. PICK st : st = NoStatus
  OBVIOUS
<1>5. PassOK(st, "idle", FALSE)
  BY <1>4, NoStatusGood DEF PassOK
<1>6. PassOK(st, "idle", FALSE)'
  BY <1>5, PassKept, Zenon
<1> QED
  BY <1>2, <1>3, <1>4, <1>6, PassAs, Zenon

\* The operations and what is kept of the copies, when more is kept.
LEMMA OpsKept ==
    ASSUME IInv, kept \subseteq kept', UNCHANGED <<ops, data>>
    PROVE  OpsInv'
<1>1. ASSUME NEW m \in Members, NEW op \in ops[m] PROVE OpInv(m, op)'
  <2>1. OpInv(m, op)
    BY DEF IInv, OpsInv
  <2> QED
    BY <2>1, Zenon DEF OpInv, Served
<1> QED
  BY <1>1 DEF IInv, OpsInv

\* writeStatus stores the status of an operator that is not stale, or none.
LEMMA WriteStep ==
    ASSUME IInv, NEW o \in Operators, WriteStatus(o)
    PROVE  IInv'
<1>1. Forgotten(o) /\ UNCHANGED <<recovers, ops, forgets, data, masters>> /\ kept \subseteq kept' /\ pc[o] = "write"
  BY Zenon DEF WriteStatus, fixed, members
<1>2. Steady
  BY <1>1 DEF Steady
<1>3. /\ PassOK(mine[o], pc[o], known[o])' /\ pc'[o] = "idle"
      /\ mine' \in [Operators -> Statuses] /\ pc' \in [Operators -> Labels] /\ known' \in [Operators -> BOOLEAN]
      /\ asked' \in [Operators -> SUBSET Members] /\ seen' \in [Operators -> SUBSET Members]
      /\ \A p \in Operators \ {o} : mine'[p] = mine[p] /\ pc'[p] = pc[p] /\ known'[p] = known[p]
  BY <1>1, <1>2, IdlePass, Zenon
<1>4. stored' \in {stored, mine[o]} /\ o \notin stale'
  BY Zenon DEF WriteStatus, IInv, PassInv
<1>5. TypeOK'
  BY <1>1, <1>3, <1>4 DEF IInv, TypeOK
<1>6. OpsInv'
  BY <1>1, OpsKept
<1>7. StoredInv'
  <2>1. CASE kept' = kept /\ stored' = stored
    BY <1>2, <2>1, StoredStays
  <2>2. CASE o \notin stale /\ stored' = mine[o] /\ kept' = kept \cup Remember(mine[o])
    <3>1. PICK st : st = mine[o]
      OBVIOUS
    <3>2. Good(st) /\ Advances(stored, st)
      BY <1>1, <2>2, <3>1, Zenon DEF IInv, PassInv, PassOK, FreshOK, GoneOn
    <3>3. Good(stored)'
      BY <1>2, <2>2, <3>1, <3>2, GoodKept, GoodStored
    <3>4. (stored.seeding # None /\ stored.seeded # {} => Remembered(stored))'
      BY <2>2 DEF Remember, Remembered
    <3>5. ASSUME NEW kind \in Kinds, NEW attempt \in Nat, NEW copy \in Copies \cup {None},
                 <<kind, attempt, copy>> \in kept'
          PROVE  Over(stored, kind, attempt, copy)'
      <4>1. <<kind, attempt, copy>> \in kept
        BY <2>2, <3>5 DEF Remember, Kinds
      <4>2. Over(st, kind, attempt, copy)'
        BY <3>2, <4>1, OverKept, Zenon DEF IInv, StoredInv, Advances
      <4>3. stored' = st
        BY <2>2, <3>1
      <4> QED
        BY <4>2, <4>3, Zenon DEF Over, OverFirst, OverCopy, Of
    <3> QED
      BY <3>3, <3>4, <3>5, Zenon DEF StoredInv
  <2> QED
    BY <2>1, <2>2, Zenon DEF WriteStatus
<1>8. ASSUME NEW p \in Operators \ {o}
      PROVE  /\ PassOK(mine[p], pc[p], known[p])'
             /\ p \notin stale' /\ pc'[p] # "idle" => FreshOK(mine[p], pc[p], known[p])'
             /\ p \in stale' => pc'[p] # "idle"
  <2>1. mine'[p] = mine[p] /\ pc'[p] = pc[p] /\ known'[p] = known[p]
    BY <1>3
  <2>2. CASE stored' = stored
    <3>1. p \in stale' <=> p \in stale
      BY <2>2 DEF WriteStatus
    <3> QED
      BY <1>2, <2>1, <2>2, <3>1, OtherPass, Zenon DEF IInv, PassInv
  <2>3. CASE stored' # stored
    <3>1. p \in stale' <=> pc[p] # "idle"
      BY <2>3 DEF WriteStatus
    <3>2. PICK st, l, k : st = mine[p] /\ l = pc[p] /\ k = known[p]
      OBVIOUS
    <3>3. PassOK(st, l, k)'
      BY <1>2, <3>2, PassKept, Zenon DEF IInv, PassInv
    <3> QED
      BY <2>1, <3>1, <3>2, <3>3, PassAs, Zenon
  <2> QED
    BY <2>2, <2>3, Zenon
<1>9. PassInv'
  BY <1>3, <1>4, <1>8, Zenon DEF PassInv
<1> QED
  BY <1>5, <1>6, <1>7, <1>9 DEF IInv

\* A step outside the operators.
LEMMA OutsideStep ==
    ASSUME IInv, Steady, OpsInv', StoredInv', UNCHANGED <<stored, stale, operator>>, forgets' \in Nat,
           ops' \in [Members -> SUBSET Operations], data' \in [Members -> Databases \cup {None}],
           masters' \subseteq Members
    PROVE  IInv'
<1>1. TypeOK'
  BY DEF IInv, TypeOK, operator, Steady
<1>2. ASSUME NEW o \in Operators
      PROVE  /\ PassOK(mine[o], pc[o], known[o])'
             /\ o \notin stale' /\ pc'[o] # "idle" => FreshOK(mine[o], pc[o], known[o])'
  BY OtherPass, Zenon DEF operator
<1>3. \A o \in Operators : o \in stale' => pc'[o] # "idle"
  BY DEF IInv, PassInv, operator
<1>4. PassInv'
  BY <1>2, <1>3, Zenon DEF PassInv
<1> QED
  BY <1>1, <1>4 DEF IInv

\* An operation of a member goes on.
LEMMA OperationGoesOn ==
    ASSUME IInv, NEW m \in Members, NEW op \in ops[m], op.state \in OpenStates, NEW new \in Operations, new.id = op.id,
           ops' = [ops EXCEPT ![m] = (@ \ {op}) \cup {new}],
           data' \in [Members -> Databases \cup {None}], \A n \in Members \ {m} : data'[n] = data[n],
           Served(m) => data'[m] = data[m], OpInv(m, new)', masters' \subseteq Members,
           UNCHANGED <<fixed, stored, kept, stale, operator, forgets, failovers>>
    PROVE  IInv'
<1>1. ops \in [Members -> SUBSET Operations] /\ OpsInv
  BY DEF IInv, TypeOK
<1>2. ops' \in [Members -> SUBSET Operations]
  BY <1>1
<1>3. Steady
  BY Zenon DEF Steady, fixed
<1>4. ASSUME NEW n \in Members
      PROVE  (n # m => ops'[n] = ops[n]) /\ (n = m => ops'[n] = (ops[m] \ {op}) \cup {new})
  BY <1>1
<1>5. ASSUME NEW n \in Members, NEW q \in ops'[n] PROVE OpInv(n, q)'
  <2>1. CASE n = m /\ q = new
    BY <2>1
  <2>2. CASE n = m /\ q # new
    <3>1. q \in ops[m] /\ q # op
      BY <1>4, <2>2, Zenon
    <3>2. OpInv(m, q) /\ q.state \notin OpenStates
      BY <1>1, <3>1 DEF OpsInv
    <3>3. q.state = "Completed" /\ q.id.kind \in {"create", "restore"} => data'[m] = data[m]
      BY <3>2, Zenon DEF OpInv
    <3> QED
      BY <2>2, <3>2, <3>3, Zenon DEF OpInv, Served, OpenStates
  <2>3. CASE n # m
    <3>1. OpInv(n, q) /\ data'[n] = data[n]
      BY <1>1, <1>4, <2>3 DEF OpsInv
    <3> QED
      BY <3>1, Zenon DEF OpInv, Served
  <2> QED
    BY <2>1, <2>2, <2>3, Zenon
<1>6. ASSUME NEW n \in Members, NEW p \in ops'[n], NEW q \in ops'[n], p.state \in OpenStates, q.state \in OpenStates
      PROVE  p = q
  BY <1>1, <1>4, <1>6 DEF OpsInv
<1>7. OpsInv'
  BY <1>5, <1>6, Zenon DEF OpsInv
<1>8. forgets' \in Nat /\ UNCHANGED <<stored, stale, operator, kept>>
  BY DEF IInv, TypeOK
<1> QED
  BY <1>2, <1>3, <1>7, <1>8, StoredStays, OutsideStep

\* A member's operation goes on or ends, and changes no served database.
LEMMA OperationStep ==
    ASSUME IInv, NEW m \in Members, OperationSteps(m)
    PROVE  IInv'
<1>1. PICK op \in ops[m] : op.state \in OpenStates /\ (CreateEnds(m, op) \/ BackupSteps(m, op) \/ RestoreSteps(m, op))
  BY Zenon DEF OperationSteps
<1>2. /\ op \in Operations /\ OpInv(m, op) /\ data \in [Members -> Databases \cup {None}] /\ masters \subseteq Members
      /\ op.id \in Ids /\ op.restored \in BOOLEAN
  BY DEF IInv, TypeOK, OpsInv, Operations
<1>3. UNCHANGED <<fixed, stored, kept, stale, operator, forgets, failovers>>
  BY DEF OperationSteps
<1>4. ASSUME NEW state \in States, NEW restored \in BOOLEAN
      PROVE  LET new == [op EXCEPT !.state = state, !.restored = restored] IN
             new \in Operations /\ new.id = op.id /\ new.state = state
  BY <1>2, Zenon DEF Operations
<1>5. CASE Fail(m, op)
  <2> DEFINE new == [op EXCEPT !.state = "Failed", !.restored = op.restored]
  <2>1. ops' = [ops EXCEPT ![m] = (@ \ {op}) \cup {new}] /\ UNCHANGED <<data, bucket, masters>>
    BY <1>5 DEF Fail, SetOp
  <2>2. new \in Operations /\ new.id = op.id /\ new.state = "Failed"
    BY <1>2, <1>4, Zenon DEF States
  <2> HIDE DEF new
  <2>3. PICK q : q = new
    BY Zenon
  <2>4. OpInv(m, q)'
    BY <1>2, <1>3, <2>2, <2>3, Zenon DEF OpInv
  <2> QED
    BY <1>1, <1>2, <1>3, <2>1, <2>2, <2>3, <2>4, OperationGoesOn, Zenon
<1>6. CASE /\ op.id.kind = "create" /\ data[m] = None /\ SetOp(m, op, "Completed", FALSE)
           /\ data' = [data EXCEPT ![m] = [served |-> TRUE, copy |-> None]] /\ masters' = masters \cup {m}
  <2> DEFINE new == [op EXCEPT !.state = "Completed", !.restored = FALSE]
  <2>1. ops' = [ops EXCEPT ![m] = (@ \ {op}) \cup {new}]
    BY <1>6 DEF SetOp
  <2>2. new \in Operations /\ new.id = op.id /\ new.state = "Completed"
    BY <1>4, Zenon DEF States
  <2> HIDE DEF new
  <2>3. [served |-> TRUE, copy |-> None] \in Databases
    BY Zenon DEF Databases
  <2>4. /\ data' \in [Members -> Databases \cup {None}] /\ \A n \in Members \ {m} : data'[n] = data[n]
        /\ Served(m)' /\ ~Served(m)
    BY <1>2, <1>6, <2>3, NoneAssumption, Zenon DEF Served
  <2>5. PICK q : q = new
    BY Zenon
  <2>6. OpInv(m, q)'
    BY <1>2, <1>3, <1>6, <2>2, <2>4, <2>5, Zenon DEF OpInv
  <2>7. masters' \subseteq Members
    BY <1>2, <1>6
  <2> QED
    BY <1>1, <1>2, <1>3, <2>1, <2>2, <2>4, <2>5, <2>6, <2>7, OperationGoesOn, Zenon
<1>7. CASE /\ op.id.kind = "backup" /\ SetOp(m, op, IF op.state = "Pending" THEN "Running" ELSE "Completed", FALSE)
           /\ UNCHANGED <<data, masters>>
  <2> DEFINE state == IF op.state = "Pending" THEN "Running" ELSE "Completed"
             new == [op EXCEPT !.state = state, !.restored = FALSE]
  <2>1. ops' = [ops EXCEPT ![m] = (@ \ {op}) \cup {new}]
    BY <1>7 DEF SetOp
  <2>2. new \in Operations /\ new.id = op.id
    BY <1>4, Zenon DEF States
  <2> HIDE DEF new
  <2>3. PICK q : q = new
    BY Zenon
  <2>4. OpInv(m, q)'
    BY <1>2, <1>3, <1>7, <2>2, <2>3, Zenon DEF OpInv
  <2> QED
    BY <1>1, <1>2, <1>3, <1>7, <2>1, <2>2, <2>3, <2>4, OperationGoesOn, Zenon
<1>8. CASE /\ op.id.kind = "restore" /\ ~Served(m) /\ SetOp(m, op, "Running", TRUE)
           /\ data' = [data EXCEPT ![m] = [served |-> FALSE, copy |-> op.id.copy]] /\ masters' = masters
  <2> DEFINE new == [op EXCEPT !.state = "Running", !.restored = TRUE]
  <2>1. ops' = [ops EXCEPT ![m] = (@ \ {op}) \cup {new}]
    BY <1>8 DEF SetOp
  <2>2. new \in Operations /\ new.id = op.id /\ new.state = "Running"
    BY <1>4, Zenon DEF States
  <2> HIDE DEF new
  <2>3. [served |-> FALSE, copy |-> op.id.copy] \in Databases
    BY <1>2, Zenon DEF Databases, Ids
  <2>4. /\ data' \in [Members -> Databases \cup {None}] /\ \A n \in Members \ {m} : data'[n] = data[n]
        /\ data'[m] # None /\ data'[m].copy = op.id.copy
    BY <1>2, <1>8, <2>3, NoneAssumption, Zenon
  <2>5. PICK q : q = new
    BY Zenon
  <2>6. OpInv(m, q)'
    BY <1>2, <1>3, <1>8, <2>2, <2>4, <2>5, Zenon DEF OpInv
  <2> QED
    BY <1>1, <1>2, <1>3, <1>8, <2>1, <2>2, <2>4, <2>5, <2>6, OperationGoesOn, Zenon
<1>9. CASE /\ op.id.kind = "restore" /\ op.state = "Running" /\ SetOp(m, op, "Completed", TRUE)
           /\ data' = [data EXCEPT ![m].served = TRUE]
           /\ masters' = IF op.id.copy = None THEN masters \cup {m} ELSE masters
  <2> DEFINE new == [op EXCEPT !.state = "Completed", !.restored = TRUE]
  <2>1. ops' = [ops EXCEPT ![m] = (@ \ {op}) \cup {new}]
    BY <1>9 DEF SetOp
  <2>2. new \in Operations /\ new.id = op.id /\ new.state = "Completed"
    BY <1>4, Zenon DEF States
  <2> HIDE DEF new
  <2>3. data[m] \in Databases /\ data[m].copy = op.id.copy
    BY <1>2, <1>9 DEF OpInv
  <2>4. [data[m] EXCEPT !.served = TRUE] \in Databases
    BY <2>3, Zenon DEF Databases
  <2>5. data'[m] = [data[m] EXCEPT !.served = TRUE] /\ \A n \in Members \ {m} : data'[n] = data[n]
    BY <1>2, <1>9
  <2>6. data'[m].served /\ data'[m].copy = op.id.copy
    BY <2>3, <2>5 DEF Databases
  <2>7. data' \in [Members -> Databases \cup {None}] /\ data'[m] # None
    BY <1>2, <1>9, <2>4, <2>5, NoneAssumption, Zenon
  <2>8. Served(m) => data'[m] = data[m]
    BY <2>3, <2>5, Zenon DEF Served, Databases
  <2>9. PICK q : q = new
    OBVIOUS
  <2>10. OpInv(m, q)'
    BY <1>2, <1>3, <1>9, <2>2, <2>6, <2>7, <2>9 DEF OpInv, Served
  <2>11. masters' \subseteq Members
    BY <1>2, <1>9
  <2> QED
    BY <1>1, <1>2, <1>3, <2>1, <2>2, <2>5, <2>7, <2>8, <2>9, <2>10, <2>11, OperationGoesOn, Zenon
<1> QED
  BY <1>1, <1>5, <1>6, <1>7, <1>8, <1>9, Zenon DEF CreateEnds, BackupSteps, RestoreSteps

\* A step whose operation is on record is not started again.
LEMMA RecordedIsOver ==
    ASSUME NEW st, Good(st), NEW id \in Ids, id \in Recorded(st)
    PROVE  Over(st, id.kind, id.attempt, id.copy)
<1>1. id # None
  BY NoneAssumption
<1>2. CASE id = st.op
  BY <1>1, <1>2, Zenon DEF Good, Formed, Over, OverFirst, Of
<1>3. CASE st.seeding # None /\ id \in {st.seeding.backup, st.seeding.restore}
  <2>1. id.attempt = st.attempts /\ id.copy = st.seeding.copy /\ Of(id, id.kind, id.attempt, id.copy)
    BY <1>1, <1>3, Zenon DEF Good, Formed, Of
  <2>2. id.copy # None
    BY <1>3, <2>1, NoneAssumption DEF Good, Statuses, Seedings
  <2> QED
    BY <1>1, <1>3, <2>1, <2>2, Zenon DEF Over, OverCopy
<1> QED
  BY <1>2, <1>3, Zenon DEF Recorded

\* A member loses its operations: those on record are over for the stored status.
LEMMA ForgetStep ==
    ASSUME IInv, NEW m \in Members, Forget(m)
    PROVE  IInv'
<1>1. ops \in [Members -> SUBSET Operations] /\ OpsInv /\ StoredInv /\ Good(stored)
  BY Zenon DEF IInv, TypeOK, StoredInv
<1>2. Steady
  BY Zenon DEF Forget, Steady, fixed
<1>3. ops' \in [Members -> SUBSET Operations] /\ \A n \in Members : ops'[n] \subseteq ops[n]
  BY <1>1 DEF Forget
<1>4. OpsInv'
  <2>1. ASSUME NEW n \in Members, NEW op \in ops'[n] PROVE OpInv(n, op)'
    <3>1. OpInv(n, op)
      BY <1>1, <1>3 DEF OpsInv
    <3> QED
      BY <1>2, <3>1, Zenon DEF OpInv, Served, Forget, Steady
  <2> QED
    BY <1>1, <1>3, <2>1 DEF OpsInv
<1>5. StoredInv'
  <2>1. PICK st : st = stored
    OBVIOUS
  <2>2. Good(stored)'
    BY <1>1, <1>2, <2>1, GoodKept, GoodStored DEF Forget
  <2>3. (stored.seeding # None /\ stored.seeded # {} => Remembered(stored))'
    BY <1>1, <1>2, Zenon DEF StoredInv, Remembered, Forget, Steady
  <2>4. ASSUME NEW kind \in Kinds, NEW attempt \in Nat, NEW copy \in Copies \cup {None}, <<kind, attempt, copy>> \in kept'
        PROVE  Over(stored, kind, attempt, copy)
    <3>1. CASE <<kind, attempt, copy>> \in kept
      BY <1>1, <3>1 DEF StoredInv
    <3>2. CASE <<kind, attempt, copy>> \notin kept
      <4>1. PICK op \in ops[m] : op.id \in Recorded(stored) /\ <<kind, attempt, copy>> = Step(op.id)
        BY <2>4, <3>2 DEF Forget
      <4>2. op.id \in Ids /\ kind = op.id.kind /\ attempt = op.id.attempt /\ copy = op.id.copy
        BY <1>1, <4>1 DEF Step, Operations
      <4> QED
        BY <1>1, <4>1, <4>2, RecordedIsOver, Zenon
    <3> QED
      BY <3>1, <3>2
  <2> QED
    BY <2>2, <2>3, <2>4, OverKept, Zenon DEF StoredInv, Forget
<1>6. forgets' \in Nat /\ data' \in [Members -> Databases \cup {None}] /\ masters' \subseteq Members
  BY DEF Forget, IInv, TypeOK
<1> QED
  BY <1>2, <1>3, <1>4, <1>5, <1>6, OutsideStep DEF Forget

\* The masters change, and nothing that the status says.
LEMMA MastersStep ==
    ASSUME IInv, Failover \/ Elect
    PROVE  IInv'
<1>1. UNCHANGED <<recovers, stored, kept, stale, operator, ops, forgets, data>>
  BY DEF Failover, Elect, fixed
<1>2. Steady
  BY <1>1 DEF Steady
<1>3. masters' \subseteq Members
  BY DEF Failover, Elect, IInv, TypeOK
<1>4. forgets' \in Nat /\ data' \in [Members -> Databases \cup {None}]
  BY <1>1 DEF IInv, TypeOK
<1> QED
  BY <1>1, <1>2, <1>3, <1>4, OpsStay, StoredStays, OutsideStep

-----------------------------------------------------------------------------
(* The theorems.                                                           *)

\* The invariant holds at first.
LEMMA InitInv ==
    ASSUME Init
    PROVE  IInv
<1>1. TypeOK
  BY NoStatusGood DEF Init, TypeOK, Labels
<1>2. StoredInv
  BY NoStatusGood, Zenon DEF Init, StoredInv, NoStatus
<1>3. OpsInv
  BY DEF Init, OpsInv
<1>4. PassInv
  BY NoStatusGood, Zenon DEF Init, PassInv, PassOK
<1> QED
  BY <1>1, <1>2, <1>3, <1>4 DEF IInv

\* Every step keeps it.
LEMMA NextInv ==
    ASSUME IInv, [Next]_vars
    PROVE  IInv'
<1>1. ASSUME NEW o \in Operators, Read(o) \/ Reconcile(o) \/ WriteStatus(o) PROVE IInv'
  BY <1>1, ReadStep, CreateStep, RecoverStep, ProbeStep, SelectSourceStep, LookupStep, SeedBackupStep, PollRestoreStep,
     StartRestoreStep, WriteStep DEF Reconcile
<1>2. ASSUME NEW m \in Members, OperationSteps(m) \/ Forget(m) PROVE IInv'
  BY <1>2, OperationStep, ForgetStep
<1>3. CASE UNCHANGED vars
  <2>1. UNCHANGED <<recovers, stored, kept, stale, operator, ops, forgets, data, masters>>
    BY <1>3 DEF vars, fixed, members
  <2>2. Steady
    BY <2>1 DEF Steady
  <2>3. forgets' \in Nat /\ data' \in [Members -> Databases \cup {None}] /\ masters' \subseteq Members
    BY <2>1 DEF IInv, TypeOK
  <2> QED
    BY <2>1, <2>2, <2>3, OpsStay, StoredStays, OutsideStep
<1> QED
  BY <1>1, <1>2, <1>3, MastersStep DEF Next

\* It holds always.
LEMMA Invariant == Spec => []IInv
  BY InitInv, NextInv, PTL DEF Spec

\* reconcileSeeding, seedMember: what the status says of the members is so, whatever
\* fails, is lost or is overtaken by another operator.
THEOREM StatusIsTrue == Spec => []SeededIsTrue
<1>1. IInv => SeededIsTrue
  <2>1. SUFFICES ASSUME IInv PROVE SeededIsTrue
    OBVIOUS
  <2>2. Truthful(stored)
    BY <2>1 DEF IInv, StoredInv, Good
  <2>3. ASSUME stored.configured, NEW m \in Members PROVE Served(m)
    <3>1. CASE m = Holder
      BY <2>2, <2>3, <3>1 DEF Truthful
    <3>2. CASE m # Holder
      <4>1. PICK i \in DOMAIN Peers : m = Peers[i]
        BY <3>2, PeersFacts
      <4>2. m \in stored.seeded
        BY <2>2, <2>3, <4>1 DEF Truthful, Unseeded
      <4> QED
        BY <2>2, <4>2 DEF Truthful, Holds
    <3> QED
      BY <3>1, <3>2
  <2> QED
    BY <2>2, <2>3 DEF SeededIsTrue, Truthful, Holds
<1> QED
  BY <1>1, Invariant, PTL

\* seedMember: no restore runs that nobody remembers the source of.
THEOREM SourceIsRemembered == Spec => []RestoreIsRemembered
<1>1. IInv => RestoreIsRemembered
  BY DEF IInv, OpsInv, OpInv, RestoreIsRemembered
<1> QED
  BY <1>1, Invariant, PTL

\* Only the write of the status changes it.
LEMMA StoredByWrite ==
    ASSUME [Next]_vars
    PROVE  stored' = stored \/ \E o \in Operators : WriteStatus(o) /\ o \notin stale /\ stored' = mine[o]
<1>1. ASSUME NEW o \in Operators, Read(o) \/ Reconcile(o) PROVE stored' = stored
  BY <1>1, Zenon DEF Read, Reconcile, Create, Recover, Probe, SelectSource, Lookup, SeedBackup, PollRestore, StartRestore
<1>2. ASSUME NEW m \in Members, OperationSteps(m) \/ Forget(m) PROVE stored' = stored
  BY <1>2 DEF OperationSteps, Forget
<1>3. ASSUME Failover \/ Elect \/ UNCHANGED vars PROVE stored' = stored
  BY <1>3 DEF Failover, Elect, vars
<1>4. ASSUME NEW o \in Operators, WriteStatus(o) PROVE stored' = stored \/ (o \notin stale /\ stored' = mine[o])
  BY <1>4 DEF WriteStatus
<1> QED
  BY <1>1, <1>2, <1>3, <1>4 DEF Next

\* seedMember: a member is recorded as seeded with the copy that the status held, the
\* first one with a copy from the holder.
THEOREM RecordedSource == Spec => SeededFromRecorded
<1>1. ASSUME IInv, [Next]_vars, NEW m \in stored'.seeded \ stored.seeded PROVE FromStored(m)
  <2>1. PICK o \in Operators : WriteStatus(o) /\ o \notin stale /\ stored' = mine[o]
    BY <1>1, StoredByWrite
  <2>2. GoneOn(mine[o])
    BY <1>1, <2>1, Zenon DEF WriteStatus, IInv, PassInv, FreshOK
  <2> QED
    BY <1>1, <2>1, <2>2, Zenon DEF GoneOn
<1>2. IInv /\ [Next]_vars =>
        [\A m \in stored'.seeded \ stored.seeded :
            IF stored.seeded = {} THEN data[m].copy.from = Holder
            ELSE stored.seeding # None /\ data[m].copy = stored.seeding.copy]_vars
  BY <1>1 DEF FromStored
<1> QED
  BY <1>2, Invariant, PTL DEF Spec, SeededFromRecorded

-----------------------------------------------------------------------------
(* What is started.                                                        *)

\* This operation is not of a lost step, or a stale operator asked for it.
NotAgain(op) == Step(op.id) \notin kept \/ \E o \in stale : pc'[o] # pc[o]

\* What an operator starts is not over for it.
LEMMA StartIsNew ==
    ASSUME IInv, NEW o \in Operators, pc[o] # "idle", NEW m \in Members, NEW after,
           NEW kind \in Kinds, NEW attempt \in Nat, NEW copy \in Copies \cup {None},
           Starts(m, after, kind, attempt, copy), ops' = [ops EXCEPT ![m] = after],
           ~Over(mine[o], kind, attempt, copy), pc'[o] # pc[o]
    PROVE  \A n \in Members : \A op \in ops'[n] : (\A was \in ops[n] : was.id # op.id) => NotAgain(op)
<1>1. SUFFICES ASSUME NEW n \in Members, NEW op \in ops'[n], op \notin ops[n], o \notin stale
              PROVE  Step(op.id) \notin kept
  BY Zenon DEF NotAgain
<1>2. Of(op.id, kind, attempt, copy)
  BY <1>1 DEF Starts, IInv, TypeOK
<1>3. Advances(stored, mine[o])
  BY <1>1, Zenon DEF IInv, PassInv, FreshOK, GoneOn
<1>4. <<kind, attempt, copy>> \notin kept
  BY <1>3, Zenon DEF IInv, StoredInv, Advances
<1> QED
  BY <1>2, <1>4, Zenon DEF Step, Of

\* A pass that ends, or goes on to the seeding, is at another place.
LEMMA PlaceAfter ==
    ASSUME TypeOK, NEW o \in Operators, NEW st
    PROVE  /\ Return(o, st) => pc'[o] = "write"
           /\ reconcileSeeding(o, st) => pc'[o] \in {"write", "poll", "observe", "lookup", "backup"}
  BY DEF TypeOK, Return, reconcileSeeding, SeedStep, Goto

\* reconcileHABootstrap starts a create operation only when none is on record.
LEMMA CreateIsNew ==
    ASSUME IInv, NEW o \in Operators, Create(o)
    PROVE  \A n \in Members : \A op \in ops'[n] : (\A was \in ops[n] : was.id # op.id) => NotAgain(op)
<1> DEFINE st == mine[o]
<1>1. /\ TypeOK /\ st \in Statuses /\ ~st.created /\ ~st.failed /\ Holder \in Members /\ pc[o] = "create"
  BY PeersFacts, Zenon DEF Create, IInv, PassInv, PassOK, Good
<1>2. CASE st.op # None
  BY <1>2, Zenon DEF Create
<1>3. CASE st.op = None
  <2>1. PICK r \in StartAnswers(Holder, "create", st.attempts, None) :
           ops' = [ops EXCEPT ![Holder] = r.ops] /\ Created(o, r.got)
    BY <1>3, Zenon DEF Create
  <2>2. Starts(Holder, r.ops, "create", st.attempts, None) /\ "create" \in Kinds /\ st.attempts \in Nat
    BY <1>1, <2>1, StartAnswered, Zenon DEF Kinds, Statuses
  <2>3. ~Over(st, "create", st.attempts, None)
    <3>1. st.attempts \in Nat
      BY <1>1 DEF Statuses
    <3>2. ~(st.attempts < st.attempts) /\ "create" # "restore"
      BY <3>1
    <3> QED
      BY <1>1, <1>3, <3>2, Zenon DEF Over, OverFirst
  <2>4. pc'[o] # "create"
    BY <1>1, <2>1, PlaceAfter DEF Created
  <2> QED
    BY <1>1, <2>1, <2>2, <2>3, <2>4, StartIsNew, Zenon
<1> QED
  BY <1>2, <1>3

\* reconcileRecovery starts a restore only when none is on record.
LEMMA RecoverIsNew ==
    ASSUME IInv, NEW o \in Operators, Recover(o)
    PROVE  \A n \in Members : \A op \in ops'[n] : (\A was \in ops[n] : was.id # op.id) => NotAgain(op)
<1> DEFINE st == mine[o]
<1>1. /\ TypeOK /\ st \in Statuses /\ ~st.created /\ ~st.failed /\ Holder \in Members /\ pc[o] = "recover"
  BY PeersFacts, Zenon DEF Recover, IInv, PassInv, PassOK, Good
<1>2. CASE st.op # None
  BY <1>2, Zenon DEF Recover
<1>3. CASE st.op = None
  <2>1. PICK r \in StartAnswers(Holder, "restore", st.recoveries, None) :
           ops' = [ops EXCEPT ![Holder] = r.ops] /\ RecoveryStarted(o, r.got)
    BY <1>3, Zenon DEF Recover
  <2>2. Starts(Holder, r.ops, "restore", st.recoveries, None) /\ "restore" \in Kinds /\ st.recoveries \in Nat
    BY <1>1, <2>1, StartAnswered, Zenon DEF Kinds, Statuses
  <2>3. ~Over(st, "restore", st.recoveries, None)
    <3>1. st.recoveries \in Nat
      BY <1>1 DEF Statuses
    <3>2. ~(st.recoveries < st.recoveries) /\ "restore" # "create"
      BY <3>1
    <3> QED
      BY <1>1, <1>3, <3>2, Zenon DEF Over, OverFirst
  <2>4. pc'[o] # "recover"
    BY <1>1, <2>1, PlaceAfter DEF RecoveryStarted
  <2> QED
    BY <1>1, <2>1, <2>2, <2>3, <2>4, StartIsNew, Zenon
<1> QED
  BY <1>2, <1>3

\* A copy that an operator backs up or restores is not over for it.
LEMMA CopyNotOver ==
    ASSUME IInv, NEW o \in Operators, NEW kind \in {"backup", "restore"}, pc[o] = kind,
           kind = "backup" => mine[o].seeding.backup = None
    PROVE  ~Over(mine[o], kind, mine[o].attempts, mine[o].seeding.copy)
<1> DEFINE st == mine[o]
           copy == st.seeding.copy
<1>1. /\ Good(st) /\ st \in Statuses /\ ~st.failed /\ Unseeded(st) # {} /\ st.seeding # None /\ st.seeding \in Seedings
      /\ copy \in Copies
  BY CopyFacts, Zenon
<1>2. copy # None /\ copy.to \notin st.seeded /\ copy.round \in Nat /\ st.attempts \in Nat
  BY <1>1, NextPeerFacts, NoneAssumption, Zenon DEF Good, Formed, Statuses, Copies
<1>3. st.seeding.restore = None /\ (st.seeding.backup # None => st.seeding.backup.kind = "backup")
  BY <1>1, Zenon DEF IInv, PassInv, PassOK, Good, Formed, Of
<1>4. ~OverCopy(st, kind, st.attempts, copy)
  <2>1. ~(st.attempts < st.attempts) /\ ~(copy.round > copy.round)
    BY <1>2
  <2>2. st.seeding.backup # None => st.seeding.backup.kind # kind
    BY <1>3
  <2> QED
    BY <1>2, <1>3, <2>1, <2>2, Zenon DEF OverCopy, Of
<1> QED
  BY <1>1, <1>2, <1>4, Zenon DEF Over

\* seedBackup starts a backup only when none is on record.
LEMMA BackupIsNew ==
    ASSUME IInv, NEW o \in Operators, SeedBackup(o)
    PROVE  \A n \in Members : \A op \in ops'[n] : (\A was \in ops[n] : was.id # op.id) => NotAgain(op)
<1> DEFINE st == mine[o]
           copy == st.seeding.copy
<1>1. TypeOK /\ st \in Statuses /\ copy \in Copies /\ copy.from \in Members /\ pc[o] = "backup"
  BY CopyFacts, Zenon DEF SeedBackup
<1>2. CASE st.seeding.backup # None
  BY <1>2, Zenon DEF SeedBackup
<1>3. CASE st.seeding.backup = None
  <2>1. PICK r \in StartAnswers(copy.from, "backup", st.attempts, copy) :
           ops' = [ops EXCEPT ![copy.from] = r.ops] /\ BackedUp(o, r.got)
    BY <1>3, Zenon DEF SeedBackup
  <2>2. Starts(copy.from, r.ops, "backup", st.attempts, copy) /\ "backup" \in Kinds /\ st.attempts \in Nat
    BY <1>1, <2>1, StartAnswered, Zenon DEF Kinds, Statuses
  <2>3. ~Over(st, "backup", st.attempts, copy)
    BY <1>1, <1>3, CopyNotOver, Zenon
  <2>4. pc'[o] # "backup"
    BY <1>1, <2>1, PlaceAfter DEF BackedUp, Goto, TypeOK
  <2> QED
    BY <1>1, <2>1, <2>2, <2>3, <2>4, StartIsNew, Zenon
<1> QED
  BY <1>2, <1>3

\* seedMember starts a restore only when none is on record.
LEMMA RestoreIsNew ==
    ASSUME IInv, NEW o \in Operators, StartRestore(o)
    PROVE  \A n \in Members : \A op \in ops'[n] : (\A was \in ops[n] : was.id # op.id) => NotAgain(op)
<1> DEFINE st == mine[o]
           copy == st.seeding.copy
<1>1. TypeOK /\ st \in Statuses /\ copy \in Copies /\ copy.to \in Members /\ pc[o] = "restore"
  BY CopyFacts, Zenon DEF StartRestore
<1>2. CASE ~known[o]
  BY <1>2, Zenon DEF StartRestore, RestoreAllowed
<1>3. CASE known[o]
  <2>1. PICK r \in StartAnswers(copy.to, "restore", st.attempts, copy) :
           ops' = [ops EXCEPT ![copy.to] = r.ops] /\ Restored(o, r.got)
    BY <1>3, Zenon DEF StartRestore, RestoreAllowed
  <2>2. Starts(copy.to, r.ops, "restore", st.attempts, copy) /\ "restore" \in Kinds /\ st.attempts \in Nat
    BY <1>1, <2>1, StartAnswered, Zenon DEF Kinds, Statuses
  <2>3. ~Over(st, "restore", st.attempts, copy)
    BY <1>1, CopyNotOver, Zenon
  <2>4. pc'[o] # "restore"
    BY <1>1, <2>1, PlaceAfter DEF Restored
  <2> QED
    BY <1>1, <2>1, <2>2, <2>3, <2>4, StartIsNew, Zenon
<1> QED
  BY <1>2, <1>3

\* An operation that goes on is not a new one.
LEMMA OperationIsNotNew ==
    ASSUME IInv, NEW m \in Members, OperationSteps(m), NEW n \in Members, NEW op \in ops'[n]
    PROVE  \E was \in ops[n] : was.id = op.id
<1>1. PICK q \in ops[m] : \E state, restored : SetOp(m, q, state, restored)
  BY Zenon DEF OperationSteps, CreateEnds, BackupSteps, RestoreSteps, Fail
<1> PICK state, restored : SetOp(m, q, state, restored)
  BY <1>1, Zenon
<1>2. q \in Operations /\ ops \in [Members -> SUBSET Operations]
  BY Zenon DEF IInv, TypeOK
<1>3. [q EXCEPT !.state = state, !.restored = restored].id = q.id
  BY <1>2 DEF Operations
<1> QED
  BY <1>2, <1>3, Zenon DEF SetOp

\* reconcileHABootstrap, reconcileRecovery, seedMember: a step that is on record is
\* not started a second time at a member that lost its operation, unless by an
\* operator that read the status before it was.
THEOREM OnceOnly == Spec => NeverStartedAgain
<1>1. ASSUME IInv, [Next]_vars, NEW n \in Members, NEW op \in ops'[n], \A was \in ops[n] : was.id # op.id
      PROVE  NotAgain(op)
  <2>1. CASE ops' = ops
    BY <1>1, <2>1
  <2>2. ASSUME NEW o \in Operators, Create(o) \/ Recover(o) \/ SeedBackup(o) \/ StartRestore(o) PROVE NotAgain(op)
    BY <1>1, <2>2, CreateIsNew, RecoverIsNew, BackupIsNew, RestoreIsNew, Zenon
  <2>3. ASSUME NEW m \in Members, OperationSteps(m) PROVE NotAgain(op)
    BY <1>1, <2>3, OperationIsNotNew, Zenon
  <2>4. ASSUME NEW m \in Members, Forget(m) PROVE NotAgain(op)
    BY <1>1, <2>4 DEF Forget, IInv, TypeOK
  <2>5. ASSUME NEW o \in Operators,
               Read(o) \/ Probe(o) \/ SelectSource(o) \/ Lookup(o) \/ PollRestore(o) \/ WriteStatus(o)
        PROVE  ops' = ops
    BY <2>5, Zenon DEF Read, Probe, SelectSource, Lookup, PollRestore, WriteStatus, members
  <2>6. ASSUME Failover \/ Elect \/ UNCHANGED vars PROVE ops' = ops
    BY <2>6, Zenon DEF Failover, Elect, vars, members
  <2> QED
    BY <1>1, <2>1, <2>2, <2>3, <2>4, <2>5, <2>6, Zenon DEF Next, Reconcile
<1>2. IInv /\ [Next]_vars =>
        [\A m \in Members : \A op \in ops'[m] :
            (\A was \in ops[m] : was.id # op.id)
            => Step(op.id) \notin kept \/ \E o \in stale : pc'[o] # pc[o]]_vars
  BY <1>1, Zenon DEF NotAgain
<1> QED
  BY <1>2, Invariant, PTL DEF Spec, NeverStartedAgain
=============================================================================
