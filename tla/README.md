# Verification of the CUBRID Kubernetes operator

TLA+ specifications of the operator and of the Instance Manager that runs beside
CUBRID in every member Pod, their TLC models, and TLAPS proofs. Paths below are
relative to the repository; `PROJECT.json` maps every definition to its lines.

## The system

A **CubridCluster** is a StatefulSet of members. Each member's container runs
`build/instance-manager/entrypoint.sh`, which starts CUBRID and then the
**Instance Manager** (IM), an HTTP server that takes backups, restores and the HA
bootstrap as durable, idempotent operations. The **operator**
(`internal/controller`) reconciles the cluster and each **CubridBackup** by
calling the members' IMs and recording what it learns in the status. Leader
election is off by default, so two operator processes may overlap.

| part | state | operations | talks to | what is hard |
|---|---|---|---|---|
| operation store (`opstore.go`) | record files, ends kept in memory, interrupted records | FindOrCreate, FindByKey, Get, Update, Settle, start | every IM operation | failed and unsynced writes, unreadable records, crash, power loss |
| member database (`restore.go`, `habootstrap.go`, `ownership.go`, `server.go`, `entrypoint.sh`) | database directory, ownership marker, `databases.txt`, records | restore, createdb, reclaim, adopt, resume, entrypoint start | store | a stop between any two durable steps |
| backups on a member (`staging.go`, `stagingwriter.go`, `upload.go`, `server.go`) | staging directories, records, bucket | claim, backupdb, upload, remove, reclaim | store, bucket | contending requests, writers that outlive their command |
| member lock (`volumelock.go`, `volumelock_linux.go`, `entrypoint.sh`) | lock file, locks of CUBRID on the volume | open, take, probe | other containers of the member | a container that outlives its replacement, an image without the lock, a replaced lock file |
| stop of a member (`operations.go`, `cmd/instance-manager/main.go`, `entrypoint.sh`) | stop file, stopping/stopped, process state | hook, trap, last check, Stop, resume | kubelet | a stop racing every way CUBRID is started |
| watchdog (`watchdog.go`) | armed, time a process is missing | look, ask, end the manager | the manager's operations | what it saw is old when it asks whether that was intended |
| CubridBackup controller | the backup's status | Reconcile | IMs, API server | stale copies, lost and late calls, waits |
| HA bootstrap and recovery (`habootstrap.go`, `bootstrap.go`) | the database's entry and the recovery in the status | create or recover, choose source, backup, restore, record | IMs, API server | fail-overs, lost status writes, lost stores |
| roles and replication (`haresolve.go`, `replication.go`, `applierpositions.go`, `roleprober.go`) | instances, conditions and times of the status, readings in memory | observe, compare, hold times, write | IMs, API server | readings that are compared over failed writes, restarts and held times |
| token rotation | Secret, tokens of containers | rotate, stamp, ask, drop, defer | kubelet, members | the check is not atomic with the drop |
| rolling update, readiness, brokers, child objects | see `components` in `PROJECT.json` | | | a function of one observation or of the spec |

What makes the system correct: no served data is ever removed and no unfinished
database started; a request runs once; what a status or an operation reports as
completed is true and stays reported; a stopped member stays stopped; the
operator never loses access to a member; one container at a time runs CUBRID on a
volume; a stall is reported if and only if the readings show it; and every wait
ends.

## Modules

| module | models | state |
|---|---|---|
| `OperationStore` | the store; every method holds its mutex, so each is one action | `disk`, `unsettled`, `interrupted` are the code's; `shadow` holds contents a power loss may bring back; `work`, `told` are history |
| `OperationLedger` | what the store promises: operations are entered once per key, hold a database alone, end once | `ledger`, `settled` |
| `MemberDatabase` | one member's directory and all that makes, removes or starts it | `dir`, `tomb`, `registered`, `ops`, `end`, `pc` |
| `BackupStaging` | the backups of one destination | `record`, `mu` (stagingMu), `entries`, `writer`, `bucket`, `manifest` |
| `MemberLock` | what any number of containers do to the lock and the volume | `stage` of each container, `stale` (its file was replaced), `live` (its CUBRID runs) |
| `MemberStop` | one of these containers from the entrypoint's first command to its end, with its manager, its operations and the watchdog | the entrypoint's flags, `stopFile`, `command`, `manager`, `op`, `armed`, `missing`, `looked`; extends `MemberLock` |
| `BackupController` | the controller of one CubridBackup and its members | `stored` (status), `mine` (each operator's copy), `held` and `runs` of the members |
| `HABootstrap` | creation or recovery of the first database, and its seeding | `stored`, `mine`, `ops`, `data`, `bucket`, `masters` |
| `ReplicationHealth` | what the operator reports of roles and replication | `stored` (status), `kept` (readings in memory); `source`, `backlog`, `lag` are CUBRID's; `changed` says what differs from each remembered reading |
| `TokenRotation` | the token Secret and the containers that read it | `secret`, `copy`, `asked`, `held`, `after` |
| `OperationStoreProofs`, `TokenRotationProofs`, `MemberStopProofs`, `MemberDatabaseProofs`, `BackupStagingProofs`, `BackupControllerProofs`, `HABootstrapProofs`, `ReplicationHealthProofs` | theorems | |
| `MCOperationStore`, `MCBackupController`, `MCHABootstrap` | request sets, member order and symmetry for TLC | |

The modules meet at small interfaces. `OperationStore` proves that a key runs
once and a database has one operation; `MemberDatabase`, `BackupStaging`,
`BackupController` and `HABootstrap` use exactly that of a member. `MemberStop`
covers the interleavings of stops and starts; `MemberDatabase` covers where one
actor can be cut off, because only one works on a database at a time. That no
other container does is what `MemberLock` shows: `MemberStop` extends it, starts
and ends CUBRID in `live` without a guard on the lock, and is shown to implement
`LockSpec`.

A reconcile is a read followed by actions on the copy it read. A status write
succeeds only if the copy is current, as the API server's resource version
demands. A call to a member may be answered, refused, lost before or after it
was handled, and, in `BackupController`, handled after its caller gave up.
Times are ages that `Tick` increases up to the first value past their bound.

In `ReplicationHealth` a log address, a counter or an applier's identity is only
ever compared with a remembered one, so a memory is the set of things that
changed since it was taken. A reconcile is one action there: a write of an
outdated status is refused and keeps no reading. Every other member than the
primary is a slave, because the API version in use has no replicas; either the
applier or the copier falls behind in a behaviour (`weak`), not both.

In `HABootstrap` a recovery is the behaviours with `recovers`: the first step is
a restore of the manifest on the first member instead of a createdb. In
`MemberLock` the end of a container leaves its place to another one.

Definitions whose comment says "Mutant of ..." are the plausible bugs that each
property is shown to catch; no specification uses them.

## Runs

`tlc -workers 2 -config <cfg> <module>`; state counts are distinct states.

| run | states | question |
|---|---|---|
| `store_faults` | 131k | With every write failing or unsynced, unreadable records, crashes and power losses: one operation per database and per key, no invented success, no ended operation answered as open, and the store implements `OperationLedger` |
| `store_orphan` | violation | see Findings |
| `member_faults` | 474k | With any three failures or crashes: no started database is removed, none unfinished is started, markers and records agree, the role answer tells what the next operation does, and repeated restores bring a new volume up |
| `member_undo` | violation | see Findings |
| `backup_overlap` | 129k | Two operators, stale copies, late starts: one member only, Completed is true, an end is final |
| `backup_single` | 119k | One operator, all preferences, members that lose records: "nothing runs" is true, no second start, every wait ends |
| `stop_order` | 228k | Every order of lock, hook, signal, manager start, resume, operation, watchdog and dying processes, beside a waiting container and one of an earlier image: one owner of the volume, which the container only runs CUBRID as; a stop is final; nothing is left running; a termination ends; a process that is gone is noticed |
| `staging_claims` | 84k | Two backups contend for one destination: own files only, manifest means whole, staging in use is kept, bounded staging, every backup ends |
| `bootstrap_overlap` | 1.6M | Two operators, three members, creation or recovery, a changing master, a lost store: seeded is true and from the recorded copy, and no recorded step runs twice |
| `bootstrap_live` | 72k | A bootstrap and a recovery end, through two attempts and lost answers |
| `token_rotate` | 78k | Nobody is locked out, overlaps end, deferred requests are carried out |
| `health` | 197k | A master and a slave with missing and contradicting answers, failed writes, restarts and changing sources: a reported stall is founded, HAReady rests on recent readings, the history lasts, a lasting stall is reported |

**Bounds.** Two IDs let two operations meet on a key or a database; four IDs
allow one attempt after each of three faults in `member_faults` (`MaxFaults`
stays below the number of IDs so that a last attempt is left). Two members are
the least on which a backup can run twice. Three members are the least where a
seed source is chosen rather than fixed; liveness of the bootstrap is checked with
two, so the choice among several holders is covered by the safety run only.
`MaxOverlaps` bounds how often a second operator reads while the first is at
work. One other container that waits and one of an earlier image are enough to
compete for a volume; the theorems below are for any number. One operation, a
backup or one that starts CUBRID, meets the stops and the watchdog.
In `health` the intervals 1, 2 and 2 keep the order that the code's 5, 30 and 60
seconds have, with the write interval as long as the window, its worst case. Waits of one or two ticks tell "before",
"at" and "after" the bound apart. One crash, spoiled record and failed removal
fall at every point of `staging_claims`. The same model with three keys
has 4.0M states, and `token_rotate` with two operators 4.3M; the safety
properties of both hold there as well, but their liveness takes too long at that
size, so the smaller models are the ones kept as runs. Members are symmetric where only equality tells them apart; symmetry is
not used with liveness.

**Deadlock** is checked for the store and the backup controller. The other
systems may stop: a container exits, a bootstrap ends, requests are bounded.

**Fairness** is stated where liveness is checked, and justified by the code:

- `member_faults`: the kubelet restarts the container; the entrypoint, the
  manager and an operation go on; the operator repeats a failed request.
- `backup_single`: each reconcile requeues and time passes. Strong fairness of
  steps that change the status says that answers and writes do not fail for ever.
- `stop_order`: processes run, and every command has a context that ends. An
  operation runs finitely many commands, hence strong fairness of its end. The
  watchdog ticks and time passes, hence strong fairness of the end of `Grace`.
- `staging_claims`: `stagingMu` is handed over; backup contexts and the wait for
  writers are bounded. Crashes are bounded.
- `bootstrap_live`: a repeated call is answered in the end, a repeated write
  succeeds, a wait runs out, CUBRID settles on one master. `BootstrapEnds`
  assumes that the master is in the end a recorded holder of the database: a
  master not recorded yet makes the controller wait, by design.
- `health`: once the faults are over (`Settle`), a reconcile comes before the
  next tick, time passes, and a copier that is not stuck copies.
- `token_rotate`: reconciles go on, and a person replaces the Pods, as the
  rotation's event asks for; a replaced Pod gets the current Secret in the end.

## Findings

1. `store_orphan` (`opstore.go:203`): the comment says that the record of a
   failed create is removed, so that it "holds neither the key nor the database
   for an operation that nothing runs". The error of the removal is ignored.
   When it fails too, the Pending record is answered to a repeat as if it ran,
   and blocks its database until the manager restarts.
2. `member_undo` (`restore.go:386`): `entrypoint.sh:265` says that an unfinished
   database "is neither created over nor started". The undo of a failed restore
   removes the registered directory in place, marker included, and unregisters
   it afterwards. A container that stops in between leaves a registered directory
   without a marker, which the next entrypoint starts. `reclaimIncomplete`
   avoids this with the opposite order. `UnfinishedNotStarted` shows that
   nothing else is started unfinished.

Limits that are by design, visible in the constants:

- `Late > 0` in `BackupController`: a member that handles a start after the
  operator gave up makes "nothing runs" untrue later (`NothingRuns` is checked
  for `Late = 0`; `OneMember` with `Late = 2`).
- `StaleKubelets = TRUE` in `TokenRotation`: a kubelet that starts a container
  with an older Secret after the drop leaves it with a dropped token.
- A stop file that cannot be written is a `trouble`; `StopIsFinal` and
  `LeftStopped` speak of containers without troubles, `TerminationEnds` of all.
- An earlier image's CUBRID that is started again after the probe is not kept
  off the volume: `MemberLock` lets it only end. The lock file of a container
  that holds its lock is not replaced; nothing in the repository removes it.
- A stall that a restarted operator has nothing to compare with is kept, not
  founded anew ("uncompared" in `StallIsFounded`), as `replication.go` says.
- A stop between `Mkdir` and `markOwned` leaves an unmarked directory for a
  person (`Stuck` in `MemberDatabase`).

## Proofs

`tlapm <module>.tla` checks each of the eight `...Proofs` modules
(`HABootstrapProofs` takes about a quarter of an hour, the others less). Assumed: the named `ASSUME`s of the components. They
say that the values that stand for nothing (`NoRecord`, `Absent`, `None`) are
not one of the values they are compared with, that bounds and intervals are
naturals and flags Booleans, that a stored time is written at least once per
stall window, that the backups of a destination and the members are finitely
many, that the peers of a cluster are distinct and at least one, that the
strings for preferences, refusals and components are those of the code, and that
the container is of this image. Nothing is assumed of how many IDs, requests,
members, operators, containers, attempts or faults there are: the theorems cover
every number of them, where the runs have two or three.

Each inductive invariant was model-checked on the instance of the component's
run before it was proved.

**The store** (`DatabaseIsExclusive`, `KeyRunsOnce`, `CompletedIsNeverInvented`,
`OpenIsNeverOver`, `TypeCorrect`). The first three invariants are not inductive: that a new operation may
take a database follows only if the record of every running operation is open on
disk. `IInv` adds

- `RunningIsOpen`: a running operation has its open record, and no kept end;
- `RanIsRecorded`: the record of an operation that ever ran stays with its
  request, also in every content a power loss may bring back;
- `KeptIsTrue`: an end kept in memory is the operation's end;
- `CompletedIsTrue`: Completed is on disk, or in an earlier content, only if so;
- `InterruptedIsRecorded`: what the start could not read is there.

`OpenIsNeverOver` needs one more, `OpenIsKnown`: an open record is of an
operation that runs or never began, or the store still remembers that it ended
(`unsettled`) or was cut off (`interrupted`), and so does not answer it as open.

Lemmas say what the settling and reading that precede every call do to disk,
shadow and memory (`DiskAfterFacts` ... `CallFacts`); one lemma per action
follows, and `NextIInv` joins them.

**The ledger** (`StoreImplementsLedger`: `Spec => ImplementsLedger`). Beside
`IInv` the refinement needs `EarlierIsOpen` (what a power loss may bring back is
open, absent, or has the end that is on disk) and `KeptIsOnDisk` (an end that is
both kept and on disk is one end), so that writing a kept end again changes no
entry. `Wrote` and `Earlier` say what one write may do to a record and to what a
power loss brings back; `WritesStep` and `EnterStep` show that steps of that
kind are ledger steps, and one lemma per group of actions brings it under one of
them or, for `LosePower`, under `Lose`.

**Token rotation** (`NeverLockedOut`, `TypeCorrect`, both for
`StaleKubelets = FALSE`). `MembersReachable` needs to know that a pass that is
about to drop a token has asked every member, and that what it was told still
holds. `Inv` adds `CopyIsStored` (a copy that is not stale is the stored
Secret), `CopyIsDecided` (where a pass is says what it read), `AskedHold` (the
members asked hold the current token from then on, because a restart only gives
them a token at least as new), `Newest` and `StartedWithToken`. The theorem
covers any number of overlapping operators, where the run has one.

**The member lock** (`OneContainerOwns`, `ContainerTakesLockFirst`,
`VolumeHasOneOwner`). `OneOwner` is not inductive: a second container stays out
only because the file whose lock is held is the one at the path. `LockInv` adds
that no holder is stale, that there is one holder, that CUBRID runs in an owner
or is an earlier image's, and that an owner has seen the latter end. The
refinement needs `OwnerInv`: past `take_member_lock` the container owns the
volume until it exits, and before that it has no manager and no operation. One
lemma per process shows that each of its steps is a step of `MemberLock` or
leaves the lock alone; the two theorems together give `OneOwner` of `MemberStop`.

**The stop** (`StoppedForGood`, `ExitsStopped`). A successful shutdown command
keeps CUBRID down only because of what the others know of it. `StopInv` adds
`CommandInv` (a command past its record has left the stop file, one that stops
CUBRID finds the manager still), `ServerInv`, `ShellInv` (what the entrypoint
has started at each of its places, and whether the manager was launched) and
`SignalInv` (a termination handled after the last check has run a command that
succeeded). `Still` is what makes the order of the code matter: no operation and
no resume is under way, and none can begin, because the file is written before
the manager is asked and the manager looks at the file before it starts anything.

**The member database** (`NoUnfinishedStart`, `StartedIsRecorded`,
`ServedIsKept`, `ReportIsTrue`). What may be started or removed is decided by
three things on disk, the directory, its marker and the record, that no step
changes together. `IInv` says what a marker of an operation means (`OwnerInv`),
what the lack of one means (`DirInv`), which ends are kept (`EndInv`), and what
the running operation or the entrypoint knows at each of its places (`CurInv`,
`EntryInv`, `ReclaimInv`, `MakeInv`, `StartInv`). `Crash` may cut any of them
off there, so that `OwnerInv` and `DirInv` have to hold between any two writes.

**Backup staging** (`OwnFiles`, `WholeUpload`, `BoundedDestination`,
`InUseKept`). `IInv` adds that `stagingMu` is held exactly between a request and
its answer, that an operation is open as long as something works on it, that it
stages in its own directory, until when `cub_server` may hold its file
(`WriterInv`), and `JudgedInv`: what `reclaimDestination` judged stays true until
the directories are removed. The last is why the judgement and the removal have
to be under one lock.

**The backup controller** (`RunsOnOneMember`, `CompletedWasDone`, `EndStays`,
`StartedOnce`, `NotStartedIsTrue`, `TypeCorrect`). `Sound` says what a status
claims of the members, `CopyInv` that a copy that is not outdated agrees with
the stored status in what a write must not change, and `RunInv` that the backup
runs, or may yet be started late, on the recorded target only. `Follows` says
what the handlers may write over a copy: one lemma per handler brings its
results under it, and one, `CommitStep`, carries every write to the store. Two
theorems have a hypothesis, and it is needed:

- `NotStartedIsTrue` assumes `Lone`: one operator at a time and no start that is
  handled after its caller gave up. A second operator, or a late start, begins
  the backup after the first was told by the member that nothing runs.
- `StartedOnce` assumes one operator at a time (`Alone`), or that no member loses
  its records. After a loss, the member has nothing that would tell the start of
  a second operator, with an older copy of the status, from a new backup. A start
  that is handled late does no harm: `LoneInv` shows that with one operator it
  finds the recorded operation.

TLC finds a counterexample to each without its hypothesis.

**The HA bootstrap** (`StatusIsTrue`, `SourceIsRemembered`, `RecordedSource`,
`OnceOnly`), for any number of members, operators, attempts and failovers.

- `OpsInv` says what the operations of a member have done to its database, and
  that one of them is open at a time.
- `Good` says of a status, stored or a copy, that it is `Formed` (what is on
  record is of the attempt and of the copy it names, which is for the first
  member that has no database) and `Truthful`. It stays so in an outdated copy,
  because what it claims of the members does not become false.
- `PassOK` says what an operator knows at each place of its pass; `FreshOK`
  relates a copy that is not outdated to the stored status.
- `Over` says that an operator with a status does not start a step any more:
  it is on record, or its attempt, its round or its member is done with. Every
  write `Advances` the stored status, so that what is over stays over; a step
  whose operation was lost is over, which gives `OnceOnly`.

The handlers work on a status and a place, not on primed variables, so the
lemma of a handler is about what it leaves for the place it goes on to
(`GoesOn`); `WriteStatus` is the one step that moves `stored`.

**The reported replication** (`Recent`, `Founded`, `HistoryKept`), for any members,
operators and intervals with `WriteInterval <= StallWindow`. Of the intervals the
code fixes, that order is all that is assumed. `IInv` adds

- `AgeInv`: the stored time of a reading is no later than the reading, and lags
  behind it by at most one interval between two writes. It is what makes
  the lag that `History` allows for enough (`HistoryKept`), and a reading whose
  stored time is younger than the window recent (`Recent`);
- `CopyInv`: a copy that grew since the stop that the status reports has also
  grown since the last reading, so that `nextLogCopy` sees it;
- `StallInv`: the same of an applier that moved since the stall that is reported.
  Without positions the status's own reading tells. With them the reading of
  every operator that keeps one does, or else a reading that had nothing to be
  compared with has been passed over (`doubt`). An operator that takes over with
  an old reading compares with that one;
- `DoubtInv`: what the histories record of a reported stall, from which
  `Founded` follows;
- `SourceInv`: where there are slaves there is a member that is none. Without it
  a lone slave could be the resolved primary with nothing read.

A reconcile is one action, so its proof is the longest: `NewFields` says what
`nextReplication` makes of a reading, `WrittenFacts` what is written of it,
`NotedFacts` what the memories see afterwards, and `Compares` and `KeptFacts`
that a comparison with an operator's reading, or with the status, misses no move.
The lemmas of the other actions rest on `ChangeFacts` and `TellingFacts`: a
change is noted by every memory that a later comparison may use.

**Only model-checked.** All liveness (`...Ends`, `...Reported` and the like), which
is out of the prover's reach. Every safety property of a passing run is stated by
a theorem. The two runs that expect a violation state what does not hold.

## Not modelled

Parsing, rendering, logging, metrics, authentication, TLS and the HTTP layer;
the building of child objects; the broker tier; generated code. CUBRID itself is
known by its commands' results. Deletion of custom resources is left out, since
the controllers have no finalizers.

- The rolling update (`update.go`, `rollingplan.go`): the guard and the plan are
  functions of one observation without state of their own, and no command of the
  repository turns the replacement of Pods on.
- How a member reads its own role and replication (`role.go`, `convergence.go`)
  is parsing of CUBRID's output; `ReplicationHealth` takes every answer as input.
- The shared readiness check (`sharedReadiness`): requests that join and leave
  one check in memory; no other component depends on it.
- A container started as root takes the lock twice; the operator's Pods do not.

`PROJECT.json` gives the reason for each component, and a note for each hazard
that no property covers. The `TypeOK` of a module says what its variables hold;
those of the store, the token rotation and the backup controller are theorems, and
every other one is a part of an inductive invariant above.
