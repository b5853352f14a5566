-------------------------- MODULE BackupController --------------------------
(***************************************************************************)
(* The CubridBackup controller (internal/controller/                       *)
(* cubridbackup_controller.go, backuptarget.go) and the members it calls,  *)
(* for one CubridBackup.                                                   *)
(*                                                                         *)
(* A worker is an operator process.  Leader election is off by default, so *)
(* two may overlap.  A reconcile reads the backup (Read) and then decides  *)
(* on that copy, which may be stale by then: the API server refuses a      *)
(* status update of an outdated copy.  Only one thing happens after a      *)
(* status write of the same reconcile: the start that is sent to the       *)
(* target just recorded (Dispatch).  Every other reconcile ends in at most *)
(* one status write, so it is one action.  A status write that fails       *)
(* leaves the stored status alone, like an operator that stops before it.  *)
(*                                                                         *)
(* Times in the status are ages here: Tick makes them all grow, up to the  *)
(* first age past their bound.  A member is known by the operation its     *)
(* store holds under the backup's key (OperationStore: it holds at most    *)
(* one, and starts it once while its record lasts).                        *)
(***************************************************************************)
EXTENDS Integers, FiniteSets

CONSTANTS
    Members,      \* the Pods of the cluster, by name
    Workers,      \* operator processes
    Preferences,  \* values of spec.target.preference
    Refusals,     \* ways a spec may be refused
    TargetWait,   \* backupTargetWait
    MissingWait,  \* backupOperationMissingWait
    LogEndWait,   \* primaryLogEndWait
    ClusterWait,  \* backupClusterWait
    MaxRuns,      \* bound: starts a member may make
    Late,         \* for how many ticks a member may still handle a start its caller gave up on
    Forgets,      \* TRUE: a member may lose its records (its volume is replaced)
    None

ASSUME WaitsAssumption == {TargetWait, MissingWait, LogEndWait, ClusterWait} \subseteq Nat
ASSUME BoundAssumption == MaxRuns \in Nat \ {0} /\ Late \in Nat /\ Forgets \in BOOLEAN
ASSUME MembersAssumption == None \notin Members /\ IsFiniteSet(Members)
ASSUME PreferenceAssumption == Preferences \subseteq {"StandbyOnly", "PrimaryOnly", "PreferStandby"}
ASSUME RefusalAssumption == Refusals \subseteq {"none", "spec", "destination"}

\* A time, a phase or a reason that the status does not have.
Unset  == -1
Empty  == ""
Single == Cardinality(Members) = 1

\* The reasons that end a backup, told apart as far as they claim something.
Reasons == {Empty, "Rejected", "ClusterGone", "ClusterReplaced", "StorageWaitExpired", "NotStarted",
            "Unverified", "Refused", "Lost", "BackupFailed"}

\* The status of the CubridBackup; the phase Uploading counts as Running.
Statuses == [phase : {Empty, "Pending", "Running", "Completed", "Failed"}, reason : Reasons,
             target : Members \cup {None}, role : {None, "slave", "master", "unknown"},
             cluster : {None, "first", "second"}, op : 0..MaxRuns,
             recordedAt : Unset..(TargetWait + 1), missingSince : Unset..(MissingWait + 1),
             noStorageSince : Unset..(TargetWait + 1), logEndSince : Unset..(LogEndWait + 1)]

NoStatus == [phase |-> Empty, reason |-> Empty, target |-> None, role |-> None, cluster |-> None, op |-> 0,
             recordedAt |-> Unset, missingSince |-> Unset, noStorageSince |-> Unset, logEndSince |-> Unset]

VARIABLES
    spec,     \* the backup's spec: its preference, and whether it is refused
    stored,   \* the status in the API server
    age,      \* how long ago the backup was created
    pc,       \* what each worker does next: "idle", "read", "dispatch"
    mine,     \* each worker's copy of the status
    stale,    \* workers whose copy is outdated
    cluster,  \* None: not created yet; "first"; "gone"; "second": created again
    storage,  \* spec.objectStorage of the cluster is set
    held,     \* the operation each member's store holds under the backup's key
    runs,     \* history: how often each member started the backup
    done,     \* history: the runs of each member that completed
    late      \* for how long each member may still handle a start its caller gave up on

vars == <<spec, stored, age, pc, mine, stale, cluster, storage, held, runs, done, late>>

NoOp == [n |-> 0, state |-> "none"]
Ended(s) == s.phase \in {"Completed", "Failed"}
Exists == cluster \in {"first", "second"}
Started(s) == IF s.phase = Empty THEN "Pending" ELSE s.phase

Init ==
    /\ spec \in [preference : Preferences, refusal : Refusals]
    /\ \/ stored = NoStatus
       \/ \E m \in Members :    \* recorded by an operator that kept no time
            stored = [NoStatus EXCEPT !.phase = "Pending", !.target = m, !.role = "slave", !.cluster = "first"]
    /\ cluster \in IF stored.target = None THEN {None, "first"} ELSE {"first"}
    /\ age = 0
    /\ pc = [w \in Workers |-> "idle"]
    /\ mine = [w \in Workers |-> NoStatus]
    /\ stale = {}
    /\ storage = TRUE
    /\ held = [m \in Members |-> NoOp]
    /\ runs = [m \in Members |-> 0]
    /\ done = [m \in Members |-> {}]
    /\ late = [m \in Members |-> 0]

-----------------------------------------------------------------------------
(* Status writes.                                                          *)

\* Mutant of Store: the copy a write is based on is not checked.
StoreUnchecked(w, s) == stored' = s /\ stale' = Workers \ {w}

Store(w, s) ==
    /\ w \notin stale
    /\ stored' = s
    /\ stale' = Workers \ {w}

\* commit: the reconcile ends, whether or not its write went through.
commit(w, s) ==
    /\ pc' = [pc EXCEPT ![w] = "idle"]
    /\ mine' = [mine EXCEPT ![w] = NoStatus]
    /\ Store(w, s) \/ UNCHANGED <<stored, stale>>

Failed(s, why) == [s EXCEPT !.phase = "Failed", !.reason = why]

-----------------------------------------------------------------------------
(* What a reconcile may write, by what the members answer.  A member may   *)
(* always fail to answer.                                                  *)

\* Mutants of operationMissing: the lost operation is started again; every
\* poll starts the wait anew.
operationMissingRestarts(s) == [s EXCEPT !.op = 0]
operationMissingAnew(s) == [s EXCEPT !.missingSince = 0]

operationMissing(s) ==
    LET t == [s EXCEPT !.missingSince = IF @ = Unset THEN 0 ELSE @]
    IN  IF t.missingSince > MissingWait THEN Failed(t, "Lost") ELSE t

\* Mutant of pollBackup: an operation that ended counts as completed.
pollBackupAnyEnd(s) ==
    {s} \cup {IF held[s.target].state \in {"Completed", "Failed"} THEN [s EXCEPT !.phase = "Completed"] ELSE s}

pollBackup(s) ==
    LET op   == held[s.target]
        read == [s EXCEPT !.missingSince = Unset]
    IN  {s} \cup {IF op.n # s.op THEN operationMissing(s)
                  ELSE CASE op.state = "Completed" -> [read EXCEPT !.phase = "Completed"]
                         [] op.state = "Failed"    -> Failed(read, "BackupFailed")
                         [] OTHER                  -> [read EXCEPT !.phase = "Running"]}

adoptBackup(s) == pollBackup([s EXCEPT !.phase = "Running", !.op = held[s.target].n])

HoldsOperation(s) == held[s.target].n # 0

\* Mutant of Timed: every retry starts the wait anew.
TimedAnew(s) == [s EXCEPT !.recordedAt = 0]

\* recordedTargetWaitExpired: a target without a time is given the present.
Timed(s) == [s EXCEPT !.recordedAt = IF @ = Unset THEN 0 ELSE @]
recordedTargetWaitExpired(s) == Timed(s).recordedAt > TargetWait

\* Mutant of endRecordedTargetWait: a member that does not answer holds nothing.
endRecordedTargetWaitUnasked(s) ==
    {Failed(s, "NotStarted")} \cup IF HoldsOperation(s) THEN adoptBackup(s) ELSE {}

endRecordedTargetWait(s) ==
    {Failed(s, "Unverified")} \cup IF HoldsOperation(s) THEN adoptBackup(s) ELSE {Failed(s, "NotStarted")}

holdRecordedTarget(s) ==
    IF recordedTargetWaitExpired(s) THEN endRecordedTargetWait(Timed(s))
    ELSE {Timed(s)} \cup IF HoldsOperation(s) THEN adoptBackup(Timed(s)) ELSE {}

\* The answer 400, 413 or 422 to a start, and the lookup that follows it.
requestRefused(s) ==
    {s} \cup IF HoldsOperation(s) THEN adoptBackup(s) ELSE {Failed(s, "Refused")}

-----------------------------------------------------------------------------
(* Target selection.  A view is what one reconcile's probes showed.        *)

Views == {v \in [primary : Members \cup {None}, slaves : SUBSET Members,
                 standby : Members \cup {None}, unread : BOOLEAN] :
            /\ v.primary \notin v.slaves
            /\ v.standby # None => v.primary # None /\ v.standby \in v.slaves
            /\ v.unread => v.primary # None /\ v.slaves # {}}

Target(m, role) == [instance |-> m, role |-> role, reason |-> "selected"]
NoTarget(why) == [instance |-> None, role |-> None, reason |-> why]

selectBackupTarget(v, logEndWaitOver) ==
    CASE spec.preference # "PrimaryOnly" /\ v.standby # None -> Target(v.standby, "slave")
      [] spec.preference = "StandbyOnly" /\ v.standby = None -> NoTarget("NoHealthyStandby")
      [] spec.preference = "PrimaryOnly" /\ v.primary # None -> Target(v.primary, "master")
      [] spec.preference = "PrimaryOnly" /\ v.primary = None -> NoTarget("PrimaryNotResolved")
      [] OTHER ->
           CASE v.primary = None /\ Single                 -> Target(CHOOSE m \in Members : TRUE, "unknown")
             [] v.primary = None /\ ~Single                -> NoTarget("NoSafeTarget")
             [] v.primary # None /\ v.unread /\ ~logEndWaitOver -> NoTarget("PrimaryLogEndNotRead")
             [] OTHER                                      -> Target(v.primary, "master")

recordedTargetEligible(s, v) ==
    CASE s.role = "slave"  -> s.target \in v.slaves
      [] s.role = "master" -> s.target = v.primary
      [] OTHER             -> Single

\* What startBackup records of the wait for the master's log end.
AfterSelection(s, sel) ==
    [s EXCEPT !.logEndSince = IF sel.reason # "PrimaryLogEndNotRead" THEN Unset
                              ELSE IF @ = Unset THEN 0 ELSE @]

-----------------------------------------------------------------------------
(* The reconcile.                                                          *)

world == <<spec, age, cluster, storage, held, runs, done, late>>

Read(w) ==
    /\ pc[w] = "idle"
    /\ pc' = [pc EXCEPT ![w] = "read"]
    /\ mine' = [mine EXCEPT ![w] = stored]
    /\ stale' = stale \ {w}
    /\ UNCHANGED <<stored, world>>

\* Nothing is written: the backup has ended.
AlreadyEnded(w) ==
    /\ pc[w] = "read"
    /\ Ended(mine[w])
    /\ pc' = [pc EXCEPT ![w] = "idle"]
    /\ mine' = [mine EXCEPT ![w] = NoStatus]
    /\ UNCHANGED <<stored, stale, world>>

Open(w) == pc[w] = "read" /\ ~Ended(mine[w])

clusterMissing(s) ==
    IF s.cluster # None THEN Failed(s, "ClusterGone")
    ELSE IF age > ClusterWait THEN Failed(s, "Rejected")
    ELSE [s EXCEPT !.phase = Started(s)]

\* validateBackupSpec and backupDestinationRefusal.
SpecRefused(s) == spec.refusal = "spec" /\ s.op = 0
DestinationRefused(s) == spec.refusal = "destination" /\ s.op = 0 /\ s.target = None
Replaced(s) == s.cluster \notin {None, cluster}

\* The backup is refused, its cluster is not there, or it is another cluster.
EndsEarly(w) ==
    /\ Open(w)
    /\ LET s == mine[w]
       IN  \/ SpecRefused(s) /\ commit(w, Failed(s, "Rejected"))
           \/ ~SpecRefused(s) /\ ~Exists /\ commit(w, clusterMissing(s))
           \/ ~SpecRefused(s) /\ Exists /\ Replaced(s) /\ commit(w, Failed(s, "ClusterReplaced"))
           \/ Exists /\ DestinationRefused(s) /\ commit(w, Failed(s, "Rejected"))
    /\ UNCHANGED world

Accepted(w) ==
    /\ Open(w)
    /\ Exists
    /\ ~SpecRefused(mine[w]) /\ ~Replaced(mine[w]) /\ ~DestinationRefused(mine[w])

Poll(w) ==
    /\ Accepted(w)
    /\ mine[w].op # 0
    /\ \E s \in pollBackup(mine[w]) : commit(w, s)
    /\ UNCHANGED world

StorageNotConfigured(w) ==
    /\ Accepted(w)
    /\ mine[w].op = 0
    /\ ~storage
    /\ IF mine[w].target # None
       THEN \E s \in holdRecordedTarget(mine[w]) : commit(w, s)
       ELSE commit(w, [mine[w] EXCEPT !.phase = Started(mine[w]), !.noStorageSince = Unset, !.logEndSince = Unset])
    /\ UNCHANGED world

\* startBackup of a backup without a target: none is selected, the selected Pod
\* does not run with the cluster's settings, or it could not be looked up.
Waits(w) ==
    /\ Accepted(w)
    /\ mine[w].op = 0 /\ mine[w].target = None /\ storage
    /\ \E v \in Views :
         LET since == mine[w].logEndSince
             sel   == selectBackupTarget(v, since # Unset /\ since >= LogEndWait)
             s     == AfterSelection(mine[w], sel)
             t     == [s EXCEPT !.phase = Started(s), !.noStorageSince = IF @ = Unset THEN 0 ELSE @]
         IN  IF sel.instance = None
             THEN commit(w, [s EXCEPT !.noStorageSince = Unset])
             ELSE commit(w, IF t.noStorageSince > TargetWait THEN Failed(t, "StorageWaitExpired") ELSE t)
    /\ UNCHANGED world

\* Mutant of RecordTarget: the start is sent before the target is recorded.
RecordTargetUnwritten(w) ==
    /\ Accepted(w)
    /\ mine[w].op = 0 /\ mine[w].target = None /\ storage
    /\ \E m \in Members :
         mine' = [mine EXCEPT ![w] = [@ EXCEPT !.target = m, !.role = "slave", !.cluster = cluster, !.recordedAt = 0]]
    /\ pc' = [pc EXCEPT ![w] = "dispatch"]
    /\ UNCHANGED <<stored, stale, world>>

\* startBackup records the target before anything is sent to it.
RecordTarget(w) ==
    /\ Accepted(w)
    /\ mine[w].op = 0 /\ mine[w].target = None /\ storage
    /\ \E v \in Views :
         LET since == mine[w].logEndSince
             sel   == selectBackupTarget(v, since # Unset /\ since >= LogEndWait)
             s     == [AfterSelection(mine[w], sel) EXCEPT
                         !.phase = Started(mine[w]), !.target = sel.instance, !.role = sel.role,
                         !.cluster = cluster, !.recordedAt = 0, !.noStorageSince = Unset]
         IN  /\ sel.instance # None
             /\ Store(w, s)
             /\ mine' = [mine EXCEPT ![w] = s]
             /\ pc' = [pc EXCEPT ![w] = "dispatch"]
    /\ UNCHANGED world

\* startBackup of a backup with a target.
RecordedTarget(w) ==
    /\ Accepted(w)
    /\ mine[w].op = 0 /\ mine[w].target # None /\ storage
    /\ LET s == Timed(mine[w])
       IN  \/ /\ recordedTargetWaitExpired(s)
              /\ \E t \in endRecordedTargetWait(s) : commit(w, t)
           \/ /\ ~recordedTargetWaitExpired(s)
              /\ \E v \in Views :
                   /\ ~recordedTargetEligible(s, v)
                   /\ \E t \in holdRecordedTarget(s) : commit(w, t)
           \/ /\ ~recordedTargetWaitExpired(s)
              /\ \E v \in Views : recordedTargetEligible(s, v)
              /\ pc' = [pc EXCEPT ![w] = "dispatch"]
              /\ mine' = [mine EXCEPT ![w] = s]
              /\ UNCHANGED <<stored, stale>>
    /\ UNCHANGED world

\* The member handles a start: it begins one, or has it already.
Handle(m) ==
    IF held[m].n # 0 THEN UNCHANGED <<held, runs>>
    ELSE /\ Exists /\ runs[m] < MaxRuns
         /\ runs' = [runs EXCEPT ![m] = @ + 1]
         /\ held' = [held EXCEPT ![m] = [n |-> runs[m] + 1, state |-> "open"]]

\* The start is sent: it is accepted, its answer is lost, it is not handled
\* (yet), or it is refused.
Dispatch(w) ==
    /\ pc[w] = "dispatch"
    /\ LET s == mine[w]
           m == s.target
       IN  \/ /\ Handle(m)
              /\ \/ commit(w, [s EXCEPT !.phase = "Running", !.op = held'[m].n])
                 \/ commit(w, s)
              /\ late' = late
           \/ /\ late' \in {late, [late EXCEPT ![m] = Late]}
              /\ commit(w, s)
              /\ UNCHANGED <<held, runs>>
           \/ /\ \E t \in holdRecordedTarget(s) \cup requestRefused(s) : commit(w, t)
              /\ UNCHANGED <<held, runs, late>>
    /\ UNCHANGED <<spec, age, cluster, storage, done>>

\* An operator process ends and another one takes over.
Restart(w) ==
    /\ pc[w] # "idle"
    /\ pc' = [pc EXCEPT ![w] = "idle"]
    /\ mine' = [mine EXCEPT ![w] = NoStatus]
    /\ UNCHANGED <<stored, stale, world>>

-----------------------------------------------------------------------------
(* The members, the cluster and time.                                      *)

operator == <<spec, stored, pc, mine, stale>>

\* A start whose caller gave up on it is handled after all.
HandleLate(m) ==
    /\ late[m] > 0
    /\ Handle(m)
    /\ late' = [late EXCEPT ![m] = 0]
    /\ UNCHANGED <<operator, age, cluster, storage, done>>

OperationEnds(m, end) ==
    /\ held[m].state = "open"
    /\ held' = [held EXCEPT ![m].state = end]
    /\ done' = IF end = "Completed" THEN [done EXCEPT ![m] = @ \cup {held[m].n}] ELSE done
    /\ UNCHANGED <<operator, age, cluster, storage, runs, late>>

\* The member's volume is replaced: its records and its work are gone.
Forget(m) ==
    /\ Forgets
    /\ held[m].n # 0
    /\ held' = [held EXCEPT ![m] = NoOp]
    /\ late' = [late EXCEPT ![m] = 0]
    /\ UNCHANGED <<operator, age, cluster, storage, runs, done>>

\* The cluster is created, deleted with its members, or created again.
ChangeCluster ==
    /\ \/ cluster = None /\ cluster' = "first" /\ UNCHANGED <<held, late>>
       \/ /\ cluster = "first" /\ cluster' = "gone"
          /\ held' = [m \in Members |-> IF held[m].state = "open" THEN [held[m] EXCEPT !.state = "Failed"] ELSE held[m]]
          /\ late' = [m \in Members |-> 0]
       \/ cluster = "gone" /\ cluster' = "second" /\ UNCHANGED <<held, late>>
    /\ UNCHANGED <<operator, age, storage, runs, done>>

SetStorage ==
    /\ storage' = ~storage
    /\ UNCHANGED <<operator, age, cluster, held, runs, done, late>>

Older(a, bound) == IF a = Unset \/ a > bound THEN a ELSE a + 1
Aged(s) == [s EXCEPT !.recordedAt = Older(@, TargetWait), !.missingSince = Older(@, MissingWait),
                     !.noStorageSince = Older(@, TargetWait), !.logEndSince = Older(@, LogEndWait)]

Tick ==
    /\ stored' = Aged(stored)
    /\ mine' = [w \in Workers |-> Aged(mine[w])]
    /\ age' = Older(age, ClusterWait)
    /\ late' = [m \in Members |-> IF late[m] = 0 THEN 0 ELSE late[m] - 1]
    /\ UNCHANGED <<spec, pc, stale, cluster, storage, held, runs, done>>

Step(w) ==
    \/ AlreadyEnded(w) \/ EndsEarly(w) \/ Poll(w) \/ StorageNotConfigured(w)
    \/ Waits(w) \/ RecordTarget(w) \/ RecordedTarget(w) \/ Dispatch(w)

Next ==
    \/ \E w \in Workers : Read(w) \/ Step(w) \/ Restart(w)
    \/ \E m \in Members : HandleLate(m) \/ Forget(m)
    \/ \E m \in Members, end \in {"Completed", "Failed"} : OperationEnds(m, end)
    \/ ChangeCluster
    \/ SetStorage
    \/ Tick

Spec == Init /\ [][Next]_vars

\* A requeue follows every reconcile that did not end the backup, and its
\* writes and the members' answers do not fail for ever.
Fairness ==
    /\ WF_vars(Tick)
    /\ \A w \in Workers : WF_vars(Read(w)) /\ WF_vars(Step(w)) /\ SF_vars(Step(w) /\ stored' # stored)

FairSpec == Spec /\ Fairness

-----------------------------------------------------------------------------
(* Properties.                                                             *)

TypeOK ==
    /\ spec \in [preference : Preferences, refusal : Refusals]
    /\ stored \in Statuses
    /\ age \in 0..(ClusterWait + 1)
    /\ pc \in [Workers -> {"idle", "read", "dispatch"}]
    /\ mine \in [Workers -> Statuses]
    /\ stale \subseteq Workers
    /\ cluster \in {None, "first", "gone", "second"}
    /\ storage \in BOOLEAN
    /\ held \in [Members -> [n : 0..MaxRuns, state : {"none", "open", "Completed", "Failed"}]]
    /\ runs \in [Members -> 0..MaxRuns]
    /\ done \in [Members -> SUBSET (1..MaxRuns)]
    /\ late \in [Members -> 0..Late]

\* startBackup: the backup never runs on two members, whatever answers are
\* lost, however late a start is handled, and with operators that overlap.
OneMember ==
    \A m, n \in Members : runs[m] > 0 /\ runs[n] > 0 => m = n

\* Reconcile and writeStatus: an end that was reported is never taken back, by
\* any operator with an older copy.
EndIsFinal ==
    [][Ended(stored) => stored'.phase = stored.phase /\ stored'.reason = stored.reason]_vars

\* pollBackup and adoptBackup: the backup is Completed only when the run that
\* its status names completed, on the member that its status names.
CompletedIsTrue ==
    stored.phase = "Completed" => stored.op \in done[stored.target]

\* endRecordedTargetWait, requestRefused and startBackup: a backup that ends
\* with "nothing runs" or "nothing was started" has no run, then or later, when
\* no member handles a start after its caller gave up on it (Late = 0).
NothingRuns ==
    stored.reason \in {"NotStarted", "Refused", "StorageWaitExpired"} =>
        \A m \in Members : held[m].state # "open"

\* operationMissing: once its operation is recorded, the backup is never
\* started again, also when its member has lost the record.
NeverStartedAgain ==
    [][stored.op # 0 => stored'.op = stored.op /\ runs' = runs]_vars

\* backupTargetWait: a backup with a target does not wait for its start for
\* ever, whatever the member answers.
StartWaitEnds ==
    (stored.target # None) ~> (stored.op # 0 \/ Ended(stored))

\* pollBackup: the end, or the loss, of the recorded operation is reported.
OperationEndIsReported ==
    (stored.op # 0 /\ held[stored.target].state # "open") ~> Ended(stored)
=============================================================================
