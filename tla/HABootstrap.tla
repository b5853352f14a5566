----------------------------- MODULE HABootstrap -----------------------------
(***************************************************************************)
(* The bootstrap of an HA cluster's first database by the operator         *)
(* (internal/controller/habootstrap.go): it is created on one member, or   *)
(* restored there from a backup (bootstrap.go), and every other member is  *)
(* seeded with a backup of the master, one at a time, through idempotent   *)
(* operations of the members' Instance Managers.                           *)
(*                                                                         *)
(* Object storage is configured, and the answers of a member are about the *)
(* database that was asked for.  Several operator processes may work at a  *)
(* time, each on the copy of the status it read.                           *)
(***************************************************************************)
EXTENDS Naturals, FiniteSets, Sequences

CONSTANTS
    Holder,        \* the member the database is created on, ordinal 0
    Peers,         \* the other members, by ordinal
    Operators,     \* operator processes
    MaxAttempts,   \* maxBootstrapAttempts
    MaxFailovers,  \* bound: changes of the masters
    MaxForgets,    \* bound: losses of an operation store
    MaxTroubles,   \* bound: both together
    MaxOverlaps,   \* bound: reconciles that begin while another is under way
    None

Members == {Holder} \cup {Peers[i] : i \in DOMAIN Peers}

ASSUME AttemptsAssumption == MaxAttempts \in Nat \ {0}
ASSUME BoundsAssumption == {MaxFailovers, MaxForgets, MaxTroubles, MaxOverlaps} \subseteq Nat
ASSUME MembersAssumption ==
    /\ Peers \in Seq(Members \ {Holder})
    /\ Peers # <<>>
    /\ \A i, j \in DOMAIN Peers : Peers[i] = Peers[j] => i = j
    /\ None \notin Members

VARIABLES
    recovers,   \* spec.bootstrap.recovery: the database is restored, not created
    stored,     \* the cluster's status: the database's entry and, with a recovery, bootstrap
    kept,       \* history: the copies that were ever stored, with their attempt, and the
                \* steps on record whose operation its member lost
    mine,       \* the copy each operator works on
    stale,      \* operators whose copy is older than the stored status
    pc,         \* what each operator does
    asked,      \* the holders each operator has asked for their role
    seen,       \* the masters among them
    known,      \* sourceRecorded of seedMember
    ops,        \* the operations on record at each member
    forgets,    \* how often a member lost its store
    data,       \* the database directory of each member
    bucket,     \* the seed backups in object storage
    masters,    \* the members that report themselves master
    failovers,  \* how often that changed
    overlaps    \* how often a reconcile began while another was under way

fixed == <<recovers, overlaps>>
operator == <<mine, pc, asked, seen, known>>
members == <<ops, forgets, data, bucket, masters, failovers>>
vars == <<fixed, stored, kept, stale, operator, members>>

\* One copy: the member it is for, its source and its round.
Copies == [to : Members, from : Members, round : Nat]
Kinds == {"create", "backup", "restore"}
Ids == [kind : Kinds, attempt : Nat, copy : Copies \cup {None}, gen : Nat]
Seedings == [copy : Copies, backup : Ids \cup {None}, restore : Ids \cup {None}]
Databases == [served : BOOLEAN, copy : Copies \cup {None}]

ASSUME NoneAssumption == None \notin Copies /\ None \notin Ids /\ None \notin Seedings /\ None \notin Databases

NoStatus == [created |-> FALSE, op |-> None, missing |-> FALSE, recoveries |-> 0, attempts |-> 0,
             seeding |-> None, seeded |-> {}, configured |-> FALSE, failed |-> FALSE]

Init ==
    /\ recovers \in BOOLEAN
    /\ stored = NoStatus
    /\ kept = {}
    /\ mine = [o \in Operators |-> NoStatus]
    /\ stale = {}
    /\ pc = [o \in Operators |-> "idle"]
    /\ asked = [o \in Operators |-> {}]
    /\ seen = [o \in Operators |-> {}]
    /\ known = [o \in Operators |-> FALSE]
    /\ ops = [m \in Members |-> {}]
    /\ forgets = 0
    /\ data = [m \in Members |-> None]
    /\ bucket = {}
    /\ masters = {}
    /\ failovers = 0
    /\ overlaps = 0

-----------------------------------------------------------------------------
(* Calls to a member.                                                      *)

\* An answer that is not an operation.
NoOperation(what) == [id |-> None, state |-> what, restored |-> FALSE]
Error == NoOperation("error")      \* no answer, or one that says nothing of the operation
Refused == NoOperation("refused")  \* errRequestRefused
Missing == NoOperation("missing")  \* errOperationMissing

OpenStates == {"Pending", "Running"}

\* The Instance Manager's FindOrCreate: the member's operations after a start.
FindOrCreate(m, kind, attempt, copy) ==
    LET same == {op \in ops[m] : op.id.kind = kind /\ op.id.attempt = attempt /\ op.id.copy = copy}
        busy == \E op \in ops[m] : op.state \in OpenStates
        new == [id |-> [kind |-> kind, attempt |-> attempt, copy |-> copy, gen |-> forgets],
                state |-> "Pending", restored |-> FALSE]
    IN IF same # {} \/ busy THEN ops[m] ELSE ops[m] \cup {new}

\* A start: the operations after it, and what the operator learns.  It may not
\* arrive, its answer may be lost, and a conflict is looked up by its key.
StartAnswers(m, kind, attempt, copy) ==
    LET after == FindOrCreate(m, kind, attempt, copy)
        found == {op \in after : op.id.kind = kind /\ op.id.attempt = attempt /\ op.id.copy = copy}
    IN {[ops |-> ops[m], got |-> Error], [ops |-> after, got |-> Error]}
       \cup {[ops |-> ops[m], got |-> r] : r \in IF found \subseteq ops[m] THEN {} ELSE {Refused}}
       \cup {[ops |-> after, got |-> op] : op \in found}

GetAnswers(m, id) ==
    LET found == {op \in ops[m] : op.id = id}
    IN {Error} \cup IF found = {} THEN {Missing} ELSE found

-----------------------------------------------------------------------------
(* A reconcile.                                                            *)

Work(o, st) == mine' = [mine EXCEPT ![o] = st]
Goto(o, label) == pc' = [pc EXCEPT ![o] = label]
probing == <<asked, seen, known>>

\* The pass ends with this status to be written.
Return(o, st) == Work(o, st) /\ Goto(o, "write") /\ UNCHANGED probing

\* Mutant of bootstrapStepFailed: the attempt is not counted.
bootstrapStepFailedSame(st) == st

bootstrapStepFailed(st) ==
    IF st.attempts + 1 < MaxAttempts THEN [st EXCEPT !.attempts = @ + 1] ELSE [st EXCEPT !.failed = TRUE]

\* Mutant of stepOperationMissing: the step is started again.
stepOperationMissingRestarts(st) == {[st EXCEPT !.op = None]}

\* The wait starts, or goes on, or has lasted for bootstrapOperationMissingWait.
stepOperationMissing(st) ==
    {[st EXCEPT !.missing = TRUE]} \cup IF st.missing THEN {[st EXCEPT !.failed = TRUE]} ELSE {}

\* The first member, by ordinal, without the database: the only one in NextPeer.
Unseeded(st) == {i \in DOMAIN Peers : Peers[i] \notin st.seeded}
NextPeer(st) == {Peers[i] : i \in {k \in Unseeded(st) : \A j \in Unseeded(st) : k <= j}}
Copying(st) == st.seeding # None /\ st.seeding.copy.to \in NextPeer(st)
SetSeeding(st, to, from, round) ==
    [st EXCEPT !.seeding = [copy |-> [to |-> to, from |-> from, round |-> round],
                            backup |-> None, restore |-> None],
               !.missing = FALSE]

\* The first attempt looks nothing up before the seed backup.
SeedStep(o, st, sourceRecorded) ==
    /\ Work(o, st)
    /\ known' = [known EXCEPT ![o] = sourceRecorded]
    /\ Goto(o, IF st.attempts = 0 THEN "backup" ELSE "lookup")

\* reconcileSeeding and the beginning of seedMember for the first member that
\* does not hold the database: its recorded restore is polled, the first peer is
\* copied from the holder, and for a later one the holders are asked.
reconcileSeeding(o, st) ==
    /\ IF Unseeded(st) = {}
       THEN Work(o, [st EXCEPT !.seeding = None, !.configured = TRUE]) /\ Goto(o, "write") /\ known' = known
       ELSE IF Copying(st) /\ st.seeding.restore # None
       THEN Work(o, st) /\ Goto(o, "poll") /\ known' = known
       ELSE IF st.seeded = {}
       THEN \E to \in NextPeer(st) : SeedStep(o, IF Copying(st) THEN st ELSE SetSeeding(st, to, Holder, 0), TRUE)
       ELSE Work(o, st) /\ Goto(o, "observe") /\ known' = known
    /\ UNCHANGED <<asked, seen>>

Overlapping == \E p \in Operators : pc[p] # "idle"

\* Reconcile reads the status; a database, or a recovery, that is Failed and one
\* that is configured are left alone.
Read(o) ==
    /\ pc[o] = "idle"
    /\ Overlapping => overlaps < MaxOverlaps
    /\ overlaps' = IF Overlapping THEN overlaps + 1 ELSE overlaps
    /\ ~stored.failed /\ ~stored.configured
    /\ stale' = stale \ {o}
    /\ IF stored.created THEN reconcileSeeding(o, stored)
       ELSE Work(o, stored) /\ Goto(o, IF recovers THEN "recover" ELSE "create") /\ UNCHANGED probing
    /\ UNCHANGED <<recovers, stored, kept, members>>

\* What the create step makes of an answer.
Created(o, got) ==
    LET st == mine[o]
        on == [st EXCEPT !.op = got.id, !.missing = FALSE] IN
    CASE got.state = "error" -> Return(o, st)
      [] got.state = "refused" -> Return(o, bootstrapStepFailed(st))
      [] got.state = "missing" -> \E next \in stepOperationMissing(st) : Return(o, next)
      [] got.state = "Completed" -> reconcileSeeding(o, [on EXCEPT !.created = TRUE])
      [] got.state = "Failed" -> Return(o, bootstrapStepFailed([on EXCEPT !.op = None]))
      [] OTHER -> Return(o, on)

\* reconcileHABootstrap: the recorded operation is polled, or one is started.
Create(o) ==
    /\ pc[o] = "create"
    /\ IF mine[o].op # None
       THEN ops' = ops /\ \E got \in GetAnswers(Holder, mine[o].op) : Created(o, got)
       ELSE \E r \in StartAnswers(Holder, "create", mine[o].attempts, None) :
                ops' = [ops EXCEPT ![Holder] = r.ops] /\ Created(o, r.got)
    /\ UNCHANGED <<fixed, stored, kept, stale, forgets, data, bucket, masters, failovers>>

\* restoreAttemptFailed.
restoreAttemptFailed(st) ==
    IF st.recoveries + 1 < MaxAttempts THEN [st EXCEPT !.recoveries = @ + 1, !.op = None]
    ELSE [st EXCEPT !.failed = TRUE]

\* What reconcileRecovery makes of the answer to a start: an operation is
\* recorded, whatever its state.
RecoveryStarted(o, got) ==
    LET st == mine[o] IN
    CASE got.state = "error" -> Return(o, st)
      [] got.state = "refused" -> Return(o, restoreAttemptFailed(st))
      [] OTHER -> Return(o, [st EXCEPT !.op = got.id])

\* What it makes of a poll: restoreOperationMissing waits as stepOperationMissing
\* does, and reconcileRecoverySeeding goes on from a completed restore.
RecoveryPolled(o, got) ==
    LET st == mine[o]
        read == [st EXCEPT !.missing = FALSE] IN
    CASE got.state = "error" -> Return(o, st)
      [] got.state = "missing" -> \E next \in stepOperationMissing(st) : Return(o, next)
      [] got.state = "Completed" -> reconcileSeeding(o, [read EXCEPT !.created = TRUE])
      [] got.state = "Failed" -> Return(o, restoreAttemptFailed(read))
      [] OTHER -> Return(o, read)

\* reconcileRecovery; a target of another engine series is waited for.
Recover(o) ==
    /\ pc[o] = "recover"
    /\ IF mine[o].op # None
       THEN ops' = ops /\ \E got \in GetAnswers(Holder, mine[o].op) : RecoveryPolled(o, got)
       ELSE \E r \in StartAnswers(Holder, "restore", mine[o].recoveries, None) :
                ops' = [ops EXCEPT ![Holder] = r.ops] /\ RecoveryStarted(o, r.got)
    /\ UNCHANGED <<fixed, stored, kept, stale, forgets, data, bucket, masters, failovers>>

Holders(st) == {Holder} \cup st.seeded

\* selectSeedSource asks one holder after the other.
Probe(o) ==
    /\ pc[o] = "observe"
    /\ \E m \in Holders(mine[o]) \ asked[o] :
         /\ m = Holder \/ Holder \in asked[o]
         /\ \/ /\ asked' = [asked EXCEPT ![o] = @ \cup {m}]
               /\ seen' = [seen EXCEPT ![o] = @ \cup ({m} \cap masters)]
               /\ pc' = pc
            \/ Goto(o, "write") /\ UNCHANGED <<asked, seen>>
    /\ UNCHANGED <<fixed, stored, kept, stale, mine, known, members>>

\* seedSourceAmong: the one holder that is master, when all have answered.  A
\* source that is not the recorded one begins a new round.
SelectSource(o) ==
    /\ pc[o] = "observe"
    /\ asked[o] = Holders(mine[o])
    /\ LET st == mine[o] IN
       \/ (\A m \in seen[o] : seen[o] # {m}) /\ Work(o, st) /\ Goto(o, "write") /\ known' = known
       \/ \E source \in seen[o], to \in NextPeer(st) :
            LET same == Copying(st) /\ st.seeding.copy.from = source
                round == IF Copying(st) THEN st.seeding.copy.round + 1 ELSE 0
            IN seen[o] = {source} /\ SeedStep(o, IF same THEN st ELSE SetSeeding(st, to, source, round), same)
    /\ asked' = [asked EXCEPT ![o] = {}]
    /\ seen' = [seen EXCEPT ![o] = {}]
    /\ UNCHANGED <<fixed, stored, kept, stale, members>>

Restores(m, attempt, copy) ==
    {op \in ops[m] : op.id.kind = "restore" /\ op.id.attempt = attempt /\ op.id.copy = copy}

\* retrySkipsSeedBackup: this attempt has a restore, or the latest earlier one
\* that had one failed after it had restored this copy's backup.
retrySkipsSeedBackup(st) ==
    LET copy == st.seeding.copy
        earlier == {a \in 0..(st.attempts - 1) : Restores(copy.to, a, copy) # {}}
    IN \/ Restores(copy.to, st.attempts, copy) # {}
       \/ \E a \in earlier : /\ \A b \in earlier : b <= a
                             /\ \A op \in Restores(copy.to, a, copy) : op.state = "Failed" /\ op.restored

Lookup(o) ==
    /\ pc[o] = "lookup"
    /\ \/ Goto(o, IF retrySkipsSeedBackup(mine[o]) THEN "restore" ELSE "backup")
       \/ Goto(o, "write")
    /\ UNCHANGED <<fixed, stored, kept, stale, mine, probing, members>>

\* What seedBackup makes of an answer.
BackedUp(o, got) ==
    LET st == mine[o]
        ended == [st EXCEPT !.seeding = None, !.missing = FALSE]
        on == [st EXCEPT !.seeding.backup = got.id, !.missing = FALSE] IN
    CASE got.state = "error" -> Return(o, st)
      [] got.state \in {"refused", "Failed"} -> Return(o, bootstrapStepFailed(ended))
      [] got.state = "missing" -> \E next \in stepOperationMissing(st) : Return(o, next)
      [] got.state = "Completed" -> Work(o, on) /\ Goto(o, "restore") /\ UNCHANGED probing
      [] OTHER -> Return(o, on)

\* seedBackup; a source of another engine series is waited for.
SeedBackup(o) ==
    /\ pc[o] = "backup"
    /\ LET st == mine[o]
           source == st.seeding.copy.from IN
       IF st.seeding.backup # None
       THEN ops' = ops /\ \E got \in GetAnswers(source, st.seeding.backup) : BackedUp(o, got)
       ELSE \E r \in StartAnswers(source, "backup", st.attempts, st.seeding.copy) :
                ops' = [ops EXCEPT ![source] = r.ops] /\ BackedUp(o, r.got)
    /\ UNCHANGED <<fixed, stored, kept, stale, forgets, data, bucket, masters, failovers>>

\* Mutant of Restored: a restore that runs counts as done.
RestoredEarly(o, got) ==
    LET st == mine[o] IN
    IF got.state \in {"error", "refused", "missing", "Failed"} THEN Return(o, st)
    ELSE reconcileSeeding(o, [st EXCEPT !.seeded = @ \cup {st.seeding.copy.to}, !.seeding = None])

\* What seedMember makes of an answer about the restore.
Restored(o, got) ==
    LET st == mine[o]
        ended == [st EXCEPT !.seeding = None, !.missing = FALSE] IN
    CASE got.state = "error" -> Return(o, st)
      [] got.state \in {"refused", "Failed"} -> Return(o, bootstrapStepFailed(ended))
      [] got.state = "missing" -> \E next \in stepOperationMissing(st) : Return(o, next)
      [] got.state = "Completed" -> reconcileSeeding(o, [ended EXCEPT !.seeded = @ \cup {st.seeding.copy.to}])
      [] OTHER -> Return(o, [st EXCEPT !.seeding.restore = got.id, !.missing = FALSE])

\* recordedSeedRestore.
PollRestore(o) ==
    /\ pc[o] = "poll"
    /\ \E got \in GetAnswers(mine[o].seeding.copy.to, mine[o].seeding.restore) : Restored(o, got)
    /\ UNCHANGED <<fixed, stored, kept, stale, members>>

\* Mutant of RestoreAllowed: the source need not be in the stored status.
RestoreAllowedUnrecorded(o) == TRUE

RestoreAllowed(o) == known[o]

\* The restore is started, once the status that was read held its source.
StartRestore(o) ==
    /\ pc[o] = "restore"
    /\ LET st == mine[o]
           to == st.seeding.copy.to IN
       IF RestoreAllowed(o)
       THEN \E r \in StartAnswers(to, "restore", st.attempts, st.seeding.copy) :
                ops' = [ops EXCEPT ![to] = r.ops] /\ Restored(o, r.got)
       ELSE Return(o, st) /\ ops' = ops
    /\ UNCHANGED <<fixed, stored, kept, stale, forgets, data, bucket, masters, failovers>>

\* The source of the first peer's copy is always the same.
Remember(st) ==
    IF st.seeding = None \/ st.seeded = {} THEN {} ELSE {<<"copy", st.attempts, st.seeding.copy>>}

\* The pass is over, and its copy is forgotten.
Forgotten(o) ==
    /\ Work(o, NoStatus)
    /\ Goto(o, "idle")
    /\ asked' = [asked EXCEPT ![o] = {}]
    /\ seen' = [seen EXCEPT ![o] = {}]
    /\ known' = [known EXCEPT ![o] = FALSE]

\* Mutant of WriteStatus: a copy that is not the latest is written as well.
WriteStatusUnchecked(o) ==
    /\ pc[o] = "write"
    /\ stored' = mine[o]
    /\ kept' = kept \cup Remember(mine[o])
    /\ Forgotten(o)
    /\ UNCHANGED <<fixed, stale, members>>

\* writeStatus: written, or refused as a conflict or lost.
WriteStatus(o) ==
    /\ pc[o] = "write"
    /\ \/ /\ o \notin stale
          /\ stored' = mine[o]
          /\ kept' = kept \cup Remember(mine[o])
          /\ stale' = IF stored' = stored THEN stale ELSE {p \in Operators \ {o} : pc[p] # "idle"}
       \/ stored' = stored /\ kept' = kept /\ stale' = stale \ {o}
    /\ Forgotten(o)
    /\ UNCHANGED <<fixed, members>>

-----------------------------------------------------------------------------
(* The members.                                                            *)

Served(m) == data[m] # None /\ data[m].served
SetOp(m, op, state, restored) ==
    ops' = [ops EXCEPT ![m] = (@ \ {op}) \cup {[op EXCEPT !.state = state, !.restored = restored]}]

Fail(m, op) == SetOp(m, op, "Failed", op.restored) /\ UNCHANGED <<data, bucket, masters>>

\* createdb: never over a database that is there.
CreateEnds(m, op) ==
    /\ op.id.kind = "create"
    /\ \/ /\ data[m] = None
          /\ SetOp(m, op, "Completed", FALSE)
          /\ data' = [data EXCEPT ![m] = [served |-> TRUE, copy |-> None]]
          /\ masters' = masters \cup {m}
          /\ bucket' = bucket
       \/ Fail(m, op)

\* backupdb: the member's role is read before and after it.
BackupSteps(m, op) ==
    /\ op.id.kind = "backup"
    /\ \/ /\ m \in masters
          /\ SetOp(m, op, IF op.state = "Pending" THEN "Running" ELSE "Completed", FALSE)
          /\ bucket' = IF op.state = "Running" THEN bucket \cup {op.id.copy} ELSE bucket
          /\ UNCHANGED <<data, masters>>
       \/ Fail(m, op)

\* restoredb, and the start of what it restored: what the manager's own failed
\* operation left is taken over or removed, a served database is kept.  Without
\* a copy it restores the recovery's manifest, and its member becomes master.
RestoreSteps(m, op) ==
    /\ op.id.kind = "restore"
    /\ \/ /\ op.state = "Pending"
          /\ ~Served(m)
          /\ op.id.copy \in bucket \cup {None}
          /\ SetOp(m, op, "Running", TRUE)
          /\ data' = [data EXCEPT ![m] = [served |-> FALSE, copy |-> op.id.copy]]
          /\ UNCHANGED <<bucket, masters>>
       \/ /\ op.state = "Running"
          /\ SetOp(m, op, "Completed", TRUE)
          /\ data' = [data EXCEPT ![m].served = TRUE]
          /\ masters' = IF op.id.copy = None THEN masters \cup {m} ELSE masters
          /\ bucket' = bucket
       \/ Fail(m, op)

OperationSteps(m) ==
    /\ \E op \in ops[m] : op.state \in OpenStates /\ (CreateEnds(m, op) \/ BackupSteps(m, op) \/ RestoreSteps(m, op))
    /\ UNCHANGED <<fixed, stored, kept, stale, operator, forgets, failovers>>

Step(id) == <<id.kind, id.attempt, id.copy>>
Recorded(st) == {st.op} \cup IF st.seeding = None THEN {} ELSE {st.seeding.backup, st.seeding.restore}

\* The member's operation store is lost; its database stays.
Forget(m) ==
    /\ forgets < MaxForgets /\ forgets + failovers < MaxTroubles
    /\ ops[m] # {}
    /\ forgets' = forgets + 1
    /\ ops' = [ops EXCEPT ![m] = {}]
    /\ kept' = kept \cup {Step(op.id) : op \in {op \in ops[m] : op.id \in Recorded(stored)}}
    /\ UNCHANGED <<fixed, stored, stale, operator, data, bucket, masters, failovers>>

\* CUBRID changes the roles of the members it runs on, to one master or more.  A
\* time without one shows as members that do not answer and backups that fail.
Failover ==
    /\ failovers < MaxFailovers /\ forgets + failovers < MaxTroubles
    /\ failovers' = failovers + 1
    /\ \E ms \in SUBSET {m \in Members : Served(m)} : ms \notin {{}, masters} /\ masters' = ms
    /\ UNCHANGED <<fixed, stored, kept, stale, operator, ops, forgets, data, bucket>>

\* It settles on one master.
Elect ==
    /\ Cardinality(masters) > 1
    /\ \E m \in masters : masters' = {m}
    /\ UNCHANGED <<fixed, stored, kept, stale, operator, ops, forgets, data, bucket, failovers>>

Reconcile(o) ==
    \/ Create(o) \/ Recover(o) \/ Probe(o) \/ SelectSource(o) \/ Lookup(o) \/ SeedBackup(o)
    \/ PollRestore(o) \/ StartRestore(o)

Next ==
    \/ \E o \in Operators : Read(o) \/ Reconcile(o) \/ WriteStatus(o)
    \/ \E m \in Members : OperationSteps(m) \/ Forget(m)
    \/ Failover \/ Elect

Spec == Init /\ [][Next]_vars

\* A call that goes on being made is answered, a write that goes on being tried
\* succeeds, an operation ends, a wait runs out and CUBRID settles on a master.
Answered(o, labels) == pc[o] \in labels /\ Reconcile(o) /\ (pc'[o] # "write" \/ mine'[o] # mine[o])
Waited(o) == pc[o] \in {"create", "recover", "backup", "poll"} /\ Reconcile(o) /\ mine'[o].failed
Stores(o) == WriteStatus(o) /\ stored' = mine[o] /\ stored' # stored

FairSpec ==
    /\ Spec
    /\ \A o \in Operators :
         /\ WF_vars(Read(o) \/ Reconcile(o) \/ WriteStatus(o))
         /\ \A labels \in {{"create", "recover"}, {"lookup"}, {"backup"}, {"poll"}, {"restore"}} : SF_vars(Answered(o, labels))
         /\ \A n \in DOMAIN Peers : SF_vars(Cardinality(asked[o]) = n - 1 /\ Answered(o, {"observe"}))
         /\ SF_vars(Waited(o)) /\ SF_vars(Stores(o))
    /\ \A m \in Members : WF_vars(OperationSteps(m))
    /\ WF_vars(Elect)

-----------------------------------------------------------------------------
(* Properties.                                                             *)

\* seedMember: a member that the status names as seeded serves the database,
\* copied for it from another member, and HAConfigured means all of them do.
SeededIsTrue ==
    /\ \A m \in stored.seeded : Served(m) /\ data[m].copy # None /\ data[m].copy.to = m
    /\ stored.created => Served(Holder)
    /\ stored.configured => \A m \in Members : Served(m)

\* seedMember: what a member is recorded as seeded with is the copy of the source
\* and round that the status held before, never that of another round.
SeededFromRecorded ==
    [][\A m \in stored'.seeded \ stored.seeded :
            IF stored.seeded = {} THEN data[m].copy.from = Holder
            ELSE stored.seeding # None /\ data[m].copy = stored.seeding.copy]_vars

\* seedMember: "a status that was not written cannot leave a restore running that
\* nobody remembers the source of".
RestoreIsRemembered ==
    \A m \in Members : \A op \in ops[m] :
        op.id.kind = "restore" /\ op.id.copy # None /\ op.id.copy.to # Peers[1] => <<"copy", op.id.attempt, op.id.copy>> \in kept

\* reconcileHABootstrap, reconcileRecovery, seedMember: a step whose operation is
\* on record in the status is only polled: a member that lost the operation never
\* runs it again, unless an operator that read the status before asks it to.
NeverStartedAgain ==
    [][\A m \in Members : \A op \in ops'[m] :
            (\A was \in ops[m] : was.id # op.id)
            => Step(op.id) \notin kept \/ \E o \in stale : pc'[o] # pc[o]]_vars

\* reconcileHABootstrap, reconcileRecovery: every bootstrap ends, with all members seeded or Failed,
\* once the master is one of the members that the status names as holders.
BootstrapEnds == <>[](masters \subseteq Holders(stored)) => <>(stored.configured \/ stored.failed)
=============================================================================
