----------------------- MODULE BackupControllerProofs -----------------------
(***************************************************************************)
(* The safety of one CubridBackup, for any members and operators, any      *)
(* waits and any number of starts.                                         *)
(***************************************************************************)
EXTENDS BackupController, FiniteSetTheorems, TLAPS

\* One operator at a time (leader election), and with it no start handled after its
\* caller gave up on it: what the claims about starts that were not made rest on.
Alone == \A v, w \in Workers : v = w
Lone == Late = 0 /\ Alone

NothingStarted == {"NotStarted", "Refused", "StorageWaitExpired"}

\* What a member's store holds is a run of it, and Completed when the run completed.
HeldInv ==
    \A m \in Members :
        /\ held[m].n = 0 <=> held[m].state = "none"
        /\ held[m].n # 0 => runs[m] > 0
        /\ held[m].state = "Completed" => held[m].n \in done[m]

\* What holds of a status, stored or copied, when the members hold h and the runs d
\* completed: it names an operation of its target only, and a target that does not
\* forget holds the operation that the status names.
Sound(s, h, d) ==
    /\ s.op # 0 => s.target # None
    /\ s.phase = "Completed" => s.target # None /\ s.op \in d[s.target]
    /\ s.reason # Empty => s.phase = "Failed"
    /\ s.op # 0 /\ ~Forgets => s.op = h[s.target].n

\* A copy has no target or the stored one.  One that is not outdated agrees with
\* the stored status on all but times, and one that is being sent is not over.
CopyInv(w) ==
    /\ Sound(mine[w], held, done)
    /\ mine[w].target \in {None, stored.target}
    /\ pc[w] # "idle" /\ w \notin stale =>
         /\ mine[w].phase = stored.phase /\ mine[w].reason = stored.reason
         /\ mine[w].target = stored.target /\ mine[w].op = stored.op
    /\ pc[w] = "dispatch" => mine[w].target # None /\ mine[w].op = 0 /\ ~Ended(mine[w])

\* The backup runs on its target, and may be started late there only.
RunInv == \A m \in Members : runs[m] > 0 \/ late[m] > 0 => m = stored.target

\* One operator at a time has no outdated copy, and a start that is handled late then
\* finds the recorded operation at its member.
LoneInv ==
    /\ Alone => stale = {}
    /\ Alone /\ stored.op # 0 => \A m \in Members : late[m] > 0 => held[m].n # 0
    /\ Lone => NothingRuns

IInv == TypeOK /\ HeldInv /\ Sound(stored, held, done) /\ (\A w \in Workers : CopyInv(w)) /\ RunInv /\ LoneInv

\* The empty string is no phase that was reported and no reason.
LEMMA EmptyIsNone == Empty \notin {"Pending", "Running", "Completed", "Failed"} /\ Empty \notin NothingStarted
  BY Zenon DEF Empty, NothingStarted

\* Every wait may not have begun, or begin now.
LEMMA AgeBounds ==
    /\ Unset \in Unset..(TargetWait + 1) /\ 0 \in Unset..(TargetWait + 1)
    /\ Unset \in Unset..(MissingWait + 1) /\ 0 \in Unset..(MissingWait + 1)
    /\ Unset \in Unset..(LogEndWait + 1) /\ 0 \in Unset..(LogEndWait + 1)
  BY WaitsAssumption DEF Unset

-----------------------------------------------------------------------------
(* What a reconcile writes.                                                *)

\* A status that is written over the copy s of a backup that is not over, when the
\* members hold h.
Follows(s, t, h) ==
    /\ t \in Statuses
    /\ t.target = s.target
    /\ t.op # s.op => s.op = 0 /\ s.target # None /\ t.op = h[s.target].n
    /\ t.phase = "Completed" => s.target # None /\ t.op \in done[s.target]
    /\ t.reason # Empty => t.phase = "Failed"
    /\ t.reason \in NothingStarted => s.target = None \/ h[s.target].n = 0

\* A copy that such a status is written over.
Unfinished(s) == s \in Statuses /\ ~Ended(s) /\ s.reason = Empty

\* The fields of a status that is not over.
LEMMA UnfinishedFields ==
    ASSUME NEW s, Unfinished(s)
    PROVE  /\ s \in Statuses /\ s.phase \in {Empty, "Pending", "Running"} /\ s.reason = Empty
           /\ s.target \in Members \cup {None} /\ s.op \in 0..MaxRuns
  BY DEF Unfinished, Statuses, Ended

\* What may be written over a copy depends on its target and its operation.
LEMMA SameBase ==
    ASSUME NEW s, NEW u, NEW t, NEW h, Follows(s, t, h), u.target = s.target, u.op = s.op
    PROVE  Follows(u, t, h)
  BY DEF Follows

\* writeStatus of the copy as it is.
LEMMA KeepFollows ==
    ASSUME NEW s, Unfinished(s), NEW h
    PROVE  Follows(s, s, h)
  BY UnfinishedFields, EmptyIsNone DEF Follows

\* A failure is written: nothing started is said only where no member holds the operation.
LEMMA FailedFollows ==
    ASSUME NEW s, Unfinished(s), NEW why \in Reasons, NEW h,
           why \in NothingStarted => s.target = None \/ h[s.target].n = 0
    PROVE  Follows(s, Failed(s, why), h)
<1>0. s \in Statuses
  BY DEF Unfinished
<1>1. Failed(s, why) \in Statuses
  BY <1>0, Zenon DEF Failed, Statuses
<1>2. /\ Failed(s, why).target = s.target /\ Failed(s, why).op = s.op
      /\ Failed(s, why).phase = "Failed" /\ Failed(s, why).reason = why
  BY <1>0 DEF Failed, Statuses
<1> QED
  BY <1>1, <1>2 DEF Follows

\* Noting when a wait began changes nothing else.
LEMMA TimedUnfinished ==
    ASSUME NEW s, Unfinished(s)
    PROVE  Unfinished(Timed(s)) /\ Timed(s).target = s.target /\ Timed(s).op = s.op
           /\ Timed(s).phase = s.phase
<1>1. Timed(s) \in Statuses
  BY UnfinishedFields, WaitsAssumption DEF Timed, Statuses, Unset
<1>2. /\ Timed(s).target = s.target /\ Timed(s).op = s.op
      /\ Timed(s).phase = s.phase /\ Timed(s).reason = s.reason
  BY UnfinishedFields DEF Timed, Statuses
<1> QED
  BY <1>1, <1>2 DEF Unfinished, Ended

\* operationMissing: the wait for a lost operation, and its end.
LEMMA MissingFollows ==
    ASSUME NEW s, Unfinished(s), NEW h
    PROVE  Follows(s, operationMissing(s), h)
<1> DEFINE t == [s EXCEPT !.missingSince = IF @ = Unset THEN 0 ELSE @]
<1>1. t \in Statuses /\ t.target = s.target /\ t.op = s.op /\ t.phase = s.phase /\ t.reason = s.reason
  BY UnfinishedFields, WaitsAssumption DEF Statuses, Unset
<1>2. Unfinished(t)
  BY <1>1 DEF Unfinished, Ended
<1>3. Follows(t, Failed(t, "Lost"), h) /\ Follows(t, t, h)
  BY <1>2, FailedFollows, KeepFollows DEF Reasons, NothingStarted
<1>4. operationMissing(s) \in {t, Failed(t, "Lost")}
  BY DEF operationMissing
<1> QED
  BY <1>1, <1>3, <1>4, Zenon DEF Follows

\* pollBackup: what the target answers of the recorded operation.
LEMMA PollFollows ==
    ASSUME TypeOK, HeldInv, NEW s, Unfinished(s), s.target \in Members, NEW t \in pollBackup(s)
    PROVE  Follows(s, t, held) /\ t.op = s.op
<1> DEFINE op == held[s.target]
           read == [s EXCEPT !.missingSince = Unset]
<1>0. s.target # None
  BY MembersAssumption
<1>1. /\ read \in Statuses /\ read.target = s.target /\ read.op = s.op
      /\ read.phase = s.phase /\ read.reason = s.reason
  BY UnfinishedFields, WaitsAssumption DEF Statuses, Unset
<1>2. Unfinished(read)
  BY <1>1 DEF Unfinished, Ended
<1>3. CASE t \in {s, operationMissing(s)}
  <2>1. operationMissing(s).op = s.op
    BY UnfinishedFields DEF operationMissing, Failed, Statuses
  <2> QED
    BY <1>3, <2>1, KeepFollows, MissingFollows
<1>4. CASE op.n = s.op /\ op.state = "Completed" /\ t = [read EXCEPT !.phase = "Completed"]
  <2>1. t \in Statuses /\ t.target = s.target /\ t.op = s.op /\ t.phase = "Completed" /\ t.reason = Empty
    BY <1>1, <1>4, UnfinishedFields, Zenon DEF Statuses
  <2>2. t.op \in done[s.target]
    BY <1>4, <2>1 DEF HeldInv
  <2> QED
    BY <1>0, <2>1, <2>2, EmptyIsNone DEF Follows
<1>5. CASE t = Failed(read, "BackupFailed")
  <2>1. Follows(read, t, held)
    BY <1>2, <1>5, FailedFollows DEF Reasons, NothingStarted
  <2>2. t.op = s.op
    BY <1>1, <1>5 DEF Failed, Statuses
  <2> QED
    BY <1>1, <2>1, <2>2 DEF Follows
<1>6. CASE t = [read EXCEPT !.phase = "Running"]
  <2>1. t \in Statuses /\ t.target = s.target /\ t.op = s.op /\ t.phase = "Running" /\ t.reason = Empty
    BY <1>1, <1>6, UnfinishedFields, Zenon DEF Statuses
  <2> QED
    BY <2>1, EmptyIsNone DEF Follows
<1>7. CASE op.n # s.op
  BY <1>3, <1>7 DEF pollBackup
<1>8. CASE op.n = s.op /\ op.state = "Completed"
  BY <1>3, <1>4, <1>8 DEF pollBackup
<1>9. CASE op.n = s.op /\ op.state = "Failed"
  BY <1>3, <1>5, <1>9 DEF pollBackup
<1>10. CASE op.n = s.op /\ op.state \notin {"Completed", "Failed"}
  BY <1>3, <1>6, <1>10 DEF pollBackup
<1> QED
  BY <1>7, <1>8, <1>9, <1>10

\* A copy whose target is recorded and no operation.
Recorded(s) == Unfinished(s) /\ s.target \in Members /\ s.op = 0

\* adoptBackup: the operation the target holds for this backup is recorded.
LEMMA AdoptFollows ==
    ASSUME TypeOK, HeldInv, NEW s, Recorded(s), HoldsOperation(s), NEW t \in adoptBackup(s)
    PROVE  Follows(s, t, held)
<1> DEFINE r == [s EXCEPT !.phase = "Running", !.op = held[s.target].n]
<1>0. s \in Statuses /\ s.target # None /\ held[s.target].n \in 0..MaxRuns
  BY MembersAssumption DEF TypeOK, Recorded, Unfinished
<1>1. /\ r \in Statuses /\ r.target = s.target /\ r.op = held[s.target].n
      /\ r.phase = "Running" /\ r.reason = s.reason
  BY <1>0, Zenon DEF Statuses
<1>2. Unfinished(r) /\ r.target \in Members
  BY <1>1 DEF Unfinished, Ended, Recorded
<1>3. Follows(r, t, held) /\ t.op = r.op
  BY <1>2, PollFollows, Zenon DEF adoptBackup
<1> HIDE DEF r
<1>4. t.reason \notin NothingStarted
  BY <1>0, <1>1, <1>3 DEF Follows, HoldsOperation
<1> QED
  BY <1>0, <1>1, <1>3, <1>4 DEF Follows, Recorded

\* A failure that says nothing started, the target having answered that it holds nothing.
LEMMA NotHeldFollows ==
    ASSUME TypeOK, NEW s, Recorded(s), ~HoldsOperation(s), NEW why \in {"NotStarted", "Refused"}
    PROVE  Follows(s, Failed(s, why), held)
  BY FailedFollows DEF Recorded, HoldsOperation, Reasons

\* endRecordedTargetWait: adopted, not started, or unverified.
LEMMA EndWaitFollows ==
    ASSUME TypeOK, HeldInv, NEW s, Recorded(s), NEW t \in endRecordedTargetWait(s)
    PROVE  Follows(s, t, held)
<1>1. CASE t = Failed(s, "Unverified")
  BY <1>1, FailedFollows DEF Recorded, Reasons, NothingStarted
<1>2. CASE HoldsOperation(s) /\ t \in adoptBackup(s)
  BY <1>2, AdoptFollows
<1>3. CASE ~HoldsOperation(s) /\ t = Failed(s, "NotStarted")
  BY <1>3, NotHeldFollows
<1> QED
  BY <1>1, <1>2, <1>3 DEF endRecordedTargetWait

\* What may follow once the wait is noted may follow the copy itself.
LEMMA TimedRecorded ==
    ASSUME NEW s, Recorded(s)
    PROVE  /\ Recorded(Timed(s)) /\ Timed(s).target = s.target /\ Timed(s).op = s.op /\ Timed(s).phase = s.phase
           /\ \A t, h : Follows(Timed(s), t, h) => Follows(s, t, h)
<1>1. Unfinished(Timed(s)) /\ Timed(s).target = s.target /\ Timed(s).op = s.op /\ Timed(s).phase = s.phase
  BY TimedUnfinished DEF Recorded
<1> QED
  BY <1>1 DEF Recorded, Follows

\* holdRecordedTarget: a wait, or the end of it.
LEMMA HoldFollows ==
    ASSUME TypeOK, HeldInv, NEW s, Recorded(s), NEW t \in holdRecordedTarget(s)
    PROVE  Follows(s, t, held)
<1>1. Recorded(Timed(s))
  BY TimedRecorded
<1>2. CASE t \in endRecordedTargetWait(Timed(s))
  BY <1>1, <1>2, EndWaitFollows, TimedRecorded
<1>3. CASE t = Timed(s)
  <2>1. Follows(Timed(s), Timed(s), held)
    BY <1>1, KeepFollows DEF Recorded
  <2> QED
    BY <1>3, <2>1, TimedRecorded
<1>4. CASE HoldsOperation(s) /\ t \in adoptBackup(Timed(s))
  <2>1. HoldsOperation(Timed(s))
    BY <1>4, TimedRecorded DEF HoldsOperation
  <2> QED
    BY <1>1, <1>4, <2>1, AdoptFollows, TimedRecorded
<1> QED
  BY <1>2, <1>3, <1>4 DEF holdRecordedTarget

\* requestRefused: the target is asked before the refusal is believed.
LEMMA RefusedFollows ==
    ASSUME TypeOK, HeldInv, NEW s, Recorded(s), NEW t \in requestRefused(s)
    PROVE  Follows(s, t, held)
<1>1. CASE t = s
  BY <1>1, KeepFollows DEF Recorded
<1>2. CASE HoldsOperation(s) /\ t \in adoptBackup(s)
  BY <1>2, AdoptFollows
<1>3. CASE ~HoldsOperation(s) /\ t = Failed(s, "Refused")
  BY <1>3, NotHeldFollows
<1> QED
  BY <1>1, <1>2, <1>3 DEF requestRefused

\* Started, and other changes of the times alone.
LEMMA StartedFollows ==
    ASSUME NEW s, Unfinished(s), NEW t \in Statuses, NEW h,
           t.target = s.target, t.op = s.op, t.reason = s.reason, t.phase \in {s.phase, Started(s)}
    PROVE  Follows(s, t, h) /\ Unfinished(t)
<1>1. t.phase \in {Empty, "Pending", "Running"} /\ t.reason = Empty
  BY UnfinishedFields DEF Started
<1> QED
  BY <1>1, EmptyIsNone DEF Follows, Unfinished, Ended

\* clusterMissing, before and after a target was recorded.
LEMMA ClusterMissingFollows ==
    ASSUME NEW s, Unfinished(s), NEW h
    PROVE  Follows(s, clusterMissing(s), h)
<1>1. Follows(s, Failed(s, "ClusterGone"), h) /\ Follows(s, Failed(s, "Rejected"), h)
  BY FailedFollows DEF Reasons, NothingStarted
<1>2. Follows(s, [s EXCEPT !.phase = Started(s)], h)
  <2> DEFINE t == [s EXCEPT !.phase = Started(s)]
  <2>0. s \in Statuses /\ Started(s) \in {"Pending", "Running"}
    BY UnfinishedFields DEF Started
  <2>1. t \in Statuses /\ t.target = s.target /\ t.op = s.op /\ t.reason = s.reason /\ t.phase = Started(s)
    BY <2>0 DEF Statuses
  <2> QED
    BY <2>1, StartedFollows, Zenon
<1> QED
  BY <1>1, <1>2 DEF clusterMissing

-----------------------------------------------------------------------------
(* The end of a reconcile.                                                 *)

\* A status stays true while runs complete and, where nothing is forgotten, operations stay.
LEMMA SoundKept ==
    ASSUME NEW s \in Statuses, NEW h, NEW d, NEW g, NEW e, Sound(s, h, d),
           \A m \in Members : d[m] \subseteq e[m],
           ~Forgets => \A m \in Members : h[m].n # 0 => g[m].n = h[m].n
    PROVE  Sound(s, g, e)
<1>1. s.target # None => s.target \in Members
  BY DEF Statuses
<1> QED
  BY <1>1 DEF Sound

\* What a reconcile writes over a true status is true.
LEMMA FollowsSound ==
    ASSUME NEW s, NEW t, NEW h, Sound(s, h, done), Follows(s, t, h)
    PROVE  Sound(t, h, done)
  BY DEF Follows, Sound

\* The status of a new backup claims nothing.
LEMMA NoStatusSound ==
    ASSUME NEW h, NEW d
    PROVE  /\ NoStatus \in Statuses /\ Sound(NoStatus, h, d) /\ NoStatus.target = None
           /\ NoStatus.phase = Empty /\ NoStatus.reason = Empty /\ NoStatus.op = 0
<1>1. NoStatus \in Statuses
  BY WaitsAssumption, BoundAssumption DEF NoStatus, Statuses, Reasons, Unset
<1>2. /\ NoStatus.target = None /\ NoStatus.phase = Empty /\ NoStatus.reason = Empty /\ NoStatus.op = 0
  BY DEF NoStatus
<1> QED
  BY <1>1, <1>2, EmptyIsNone DEF Sound

WorldOK ==
    /\ spec \in [preference : Preferences, refusal : Refusals]
    /\ age \in 0..(ClusterWait + 1)
    /\ cluster \in {None, "first", "gone", "second"}
    /\ storage \in BOOLEAN
    /\ held \in [Members -> [n : 0..MaxRuns, state : {"none", "open", "Completed", "Failed"}]]
    /\ runs \in [Members -> 0..MaxRuns]
    /\ done \in [Members -> SUBSET (1..MaxRuns)]
    /\ late \in [Members -> 0..Late]

\* What happens at the members in a step of w: at most, its target starts the backup
\* or may still start it.
WorldStep(w) ==
    /\ WorldOK' /\ HeldInv' /\ done' = done
    /\ \A m \in Members : held[m].n # 0 => held'[m].n = held[m].n
    /\ \A m \in Members : runs'[m] > 0 \/ late'[m] > 0 => m = mine[w].target \/ runs[m] > 0 \/ late[m] > 0
    /\ mine[w].op # 0 => \A m \in Members : late'[m] > 0 => late[m] > 0

\* A reconcile that sends nothing changes nothing at the members.
LEMMA SameWorld ==
    ASSUME TypeOK, HeldInv, UNCHANGED world, NEW w
    PROVE  WorldStep(w)
<1>1. UNCHANGED <<spec, age, cluster, storage, held, runs, done, late>>
  BY DEF world
<1>2. WorldOK'
  BY <1>1 DEF WorldOK, TypeOK
<1>3. HeldInv'
  BY <1>1 DEF HeldInv
<1> QED
  BY <1>1, <1>2, <1>3 DEF WorldStep

\* A reconcile works on a copy that is not over, and one that is not stale agrees with the store.
LEMMA OpenCopy ==
    ASSUME IInv, NEW w \in Workers, Open(w) \/ pc[w] = "dispatch"
    PROVE  /\ Unfinished(mine[w])
           /\ w \notin stale => stored.reason = Empty /\ ~Ended(stored)
<1>1. mine[w] \in Statuses /\ CopyInv(w)
  BY DEF IInv, TypeOK
<1>2. ~Ended(mine[w]) /\ pc[w] # "idle"
  BY <1>1 DEF CopyInv, Open
<1>3. mine[w].reason = Empty
  BY <1>1, <1>2 DEF CopyInv, Sound, Ended
<1> QED
  BY <1>1, <1>2, <1>3 DEF Unfinished, CopyInv, Ended

\* What a step may do to the stored status: an end stays, and so does an operation.
StatusStep ==
    /\ Ended(stored) => stored'.phase = stored.phase /\ stored'.reason = stored.reason
    /\ stored.op # 0 => stored'.op = stored.op

\* writeStatus: a conflict is dropped, and anything else written follows the stored status.
LEMMA CommitStep ==
    ASSUME IInv, NEW w \in Workers, Open(w) \/ pc[w] = "dispatch", WorldStep(w),
           NEW t, commit(w, t), Follows(mine[w], t, held')
    PROVE  IInv' /\ StatusStep
<1>0. /\ stored \in Statuses /\ mine \in [Workers -> Statuses] /\ stale \subseteq Workers
      /\ pc \in [Workers -> {"idle", "read", "dispatch"}]
      /\ t \in Statuses /\ pc[w] # "idle"
  BY DEF IInv, TypeOK, Follows, Open
<1>1. /\ pc' = [pc EXCEPT ![w] = "idle"]
      /\ mine' = [mine EXCEPT ![w] = NoStatus]
      /\ \/ w \notin stale /\ stored' = t /\ stale' = Workers \ {w}
         \/ stored' = stored /\ stale' = stale
  BY DEF commit, Store
<1>2. TypeOK'
  <2>1. /\ pc' \in [Workers -> {"idle", "read", "dispatch"}]
        /\ mine' \in [Workers -> Statuses] /\ stored' \in Statuses /\ stale' \subseteq Workers
    BY <1>0, <1>1, NoStatusSound
  <2> QED
    BY <2>1 DEF WorldStep, WorldOK, TypeOK
<1>3. ASSUME NEW s \in Statuses, Sound(s, held, done) PROVE Sound(s, held', done')
  BY <1>3, SoundKept DEF WorldStep
<1>4. Sound(mine[w], held', done) /\ Sound(t, held', done')
  BY <1>0, <1>3, FollowsSound DEF WorldStep, IInv, CopyInv
<1>5. Sound(stored', held', done')
  BY <1>0, <1>1, <1>3, <1>4 DEF IInv
<1>6. stored'.target = stored.target
  BY <1>0, <1>1 DEF Follows, IInv, CopyInv
<1>7. ASSUME NEW v \in Workers PROVE CopyInv(v)'
  <2>1. CASE v = w
    <3>1. pc'[v] = "idle" /\ mine'[v] = NoStatus
      BY <1>0, <1>1, <2>1
    <3> QED
      BY <3>1, NoStatusSound DEF CopyInv
  <2>2. CASE v # w
    <3>1. pc'[v] = pc[v] /\ mine'[v] = mine[v] /\ Sound(mine[v], held', done') /\ CopyInv(v)
      BY <1>0, <1>1, <1>3, <2>2 DEF IInv, CopyInv
    <3>2. v \in stale' \/ (stored' = stored /\ stale' = stale)
      BY <1>1, <2>2
    <3> QED
      BY <1>6, <3>1, <3>2 DEF CopyInv
  <2> QED
    BY <2>1, <2>2
<1>8. RunInv'
  <2>1. ASSUME NEW m \in Members, runs'[m] > 0 \/ late'[m] > 0 PROVE m = stored.target
    <3>1. m = mine[w].target \/ runs[m] > 0 \/ late[m] > 0
      BY <2>1 DEF WorldStep
    <3>2. m = mine[w].target => m = stored.target
      BY <1>0, MembersAssumption DEF IInv, CopyInv
    <3> QED
      BY <3>1, <3>2 DEF IInv, RunInv
  <2> QED
    BY <1>6, <2>1 DEF RunInv
<1>9. LoneInv'
  <2>1. Alone => stale = {} /\ stale' = {}
    BY <1>1 DEF IInv, LoneInv, Alone
  <2>2. ASSUME Alone, stored'.op # 0, NEW m \in Members, late'[m] > 0 PROVE held'[m].n # 0
    <3>1. mine[w].target = stored.target /\ mine[w].op = stored.op
      BY <1>0, <2>1, <2>2 DEF IInv, CopyInv
    <3>2. CASE stored.op # 0
      <4>1. held[m].n # 0
        BY <2>2, <3>1, <3>2 DEF WorldStep, IInv, LoneInv
      <4> QED
        BY <4>1 DEF WorldStep
    <3>3. CASE stored.op = 0
      <4>1. stored' = t /\ t.op # mine[w].op
        BY <1>1, <2>2, <3>1, <3>3
      <4>2. held'[mine[w].target].n # 0
        BY <2>2, <3>1, <3>3, <4>1 DEF Follows
      <4>3. m = stored.target
        BY <1>6, <1>8, <2>2 DEF RunInv
      <4> QED
        BY <3>1, <4>2, <4>3
    <3> QED
      BY <3>2, <3>3
  <2>3. ASSUME Lone PROVE NothingRuns'
    <3>0. stale = {}
      BY <2>1, <2>3 DEF Lone
    <3>1. CASE stored' = stored
      BY <3>0, <3>1, OpenCopy, EmptyIsNone DEF NothingRuns, NothingStarted
    <3>2. CASE stored' = t
      <4>1. ASSUME stored'.reason \in NothingStarted, NEW m \in Members, held'[m].state = "open" PROVE FALSE
        <5>1. mine[w].target = None \/ held'[mine[w].target].n = 0
          BY <3>2, <4>1 DEF Follows
        <5>2. mine[w].target = stored.target
          BY <1>0, <3>0 DEF IInv, CopyInv
        <5>3. held'[m].n # 0 /\ runs'[m] > 0
          BY <4>1 DEF WorldStep, HeldInv
        <5>4. m = stored.target
          BY <1>6, <1>8, <5>3 DEF RunInv
        <5> QED
          BY <5>1, <5>2, <5>3, <5>4, MembersAssumption
      <4> QED
        BY <4>1 DEF NothingRuns, NothingStarted
    <3> QED
      BY <1>1, <3>1, <3>2
  <2> QED
    BY <2>1, <2>2, <2>3 DEF LoneInv
<1>10. StatusStep
  BY <1>0, <1>1, OpenCopy DEF Follows, IInv, CopyInv, StatusStep
<1> QED
  BY <1>2, <1>5, <1>7, <1>8, <1>9, <1>10 DEF IInv, WorldStep

\* A reconcile that leaves the members alone and ends in a write.
LEMMA ReconcileStep ==
    ASSUME IInv, NEW w \in Workers, Open(w), UNCHANGED world,
           NEW t, commit(w, t), Follows(mine[w], t, held)
    PROVE  IInv' /\ StatusStep
<1>1. WorldStep(w) /\ held' = held
  BY SameWorld DEF IInv, world
<1> QED
  BY <1>1, CommitStep

-----------------------------------------------------------------------------
(* The steps of a reconcile.                                               *)

\* A refused backup, a cluster that is not there and one that was replaced.
LEMMA EndsEarlyStep ==
    ASSUME IInv, NEW w \in Workers, EndsEarly(w)
    PROVE  IInv' /\ StatusStep
<1>1. Open(w) /\ UNCHANGED world /\ Unfinished(mine[w])
  BY OpenCopy DEF EndsEarly
<1>2. PICK t \in {Failed(mine[w], "Rejected"), clusterMissing(mine[w]), Failed(mine[w], "ClusterReplaced")} :
        commit(w, t)
  BY DEF EndsEarly
<1>3. Follows(mine[w], t, held)
  BY <1>1, <1>2, FailedFollows, ClusterMissingFollows DEF Reasons, NothingStarted
<1> QED
  BY <1>1, <1>2, <1>3, ReconcileStep

\* A reconcile whose operation is recorded.
LEMMA PollStep ==
    ASSUME IInv, NEW w \in Workers, Poll(w)
    PROVE  IInv' /\ StatusStep
<1>1. Open(w) /\ UNCHANGED world /\ Unfinished(mine[w]) /\ mine[w].op # 0
  BY OpenCopy DEF Poll, Accepted
<1>2. PICK t \in pollBackup(mine[w]) : commit(w, t)
  BY DEF Poll
<1>3. mine[w].target \in Members
  BY <1>1, UnfinishedFields DEF IInv, CopyInv, Sound
<1>4. Follows(mine[w], t, held)
  BY <1>1, <1>3, PollFollows DEF IInv
<1> QED
  BY <1>1, <1>2, <1>4, ReconcileStep

\* A reconcile that finds no object storage configured.
LEMMA StorageNotConfiguredStep ==
    ASSUME IInv, NEW w \in Workers, StorageNotConfigured(w)
    PROVE  IInv' /\ StatusStep
<1> DEFINE s == mine[w]
<1>1. Open(w) /\ UNCHANGED world /\ Unfinished(s) /\ s.op = 0
  BY OpenCopy DEF StorageNotConfigured, Accepted
<1>2. CASE s.target # None
  <2>1. PICK t \in holdRecordedTarget(s) : commit(w, t)
    BY <1>2 DEF StorageNotConfigured
  <2>2. Recorded(s)
    BY <1>1, <1>2, UnfinishedFields DEF Recorded
  <2>3. Follows(s, t, held)
    BY <2>2, HoldFollows DEF IInv
  <2> QED
    BY <1>1, <2>1, <2>3, ReconcileStep
<1>3. CASE s.target = None
  <2> DEFINE t == [s EXCEPT !.phase = Started(s), !.noStorageSince = Unset, !.logEndSince = Unset]
  <2>1. commit(w, t)
    BY <1>3 DEF StorageNotConfigured
  <2>2. s \in Statuses /\ Started(s) \in {"Pending", "Running"}
    BY <1>1, UnfinishedFields DEF Started
  <2>3. t \in Statuses
    BY <2>2, AgeBounds, Zenon DEF Statuses
  <2>4. t.target = s.target /\ t.op = s.op /\ t.reason = s.reason /\ t.phase = Started(s)
    BY <2>2 DEF Statuses
  <2>5. Follows(s, t, held)
    BY <1>1, <2>3, <2>4, StartedFollows, Zenon
  <2> QED
    BY <1>1, <2>1, <2>5, ReconcileStep
<1> QED
  BY <1>2, <1>3

\* selectBackupTarget answers a member or none.
LEMMA SelectedType ==
    ASSUME NEW v \in Views, NEW over
    PROVE  /\ selectBackupTarget(v, over).instance \in Members \cup {None}
           /\ selectBackupTarget(v, over).role \in {None, "slave", "master", "unknown"}
<1>1. v.primary \in Members \cup {None} /\ v.standby \in Members \cup {None}
  BY DEF Views
<1>2. Single => (CHOOSE m \in Members : TRUE) \in Members
  BY FS_EmptySet DEF Single
<1> QED
  BY <1>1, <1>2 DEF selectBackupTarget, Target, NoTarget

\* The wait for the master's log end, and the copy with it.
LEMMA AfterSelectionUnfinished ==
    ASSUME NEW s, Unfinished(s), NEW sel
    PROVE  LET t == AfterSelection(s, sel)
           IN  /\ Unfinished(t) /\ t \in Statuses /\ t.target = s.target /\ t.op = s.op
               /\ t.phase = s.phase /\ t.reason = s.reason
<1>0. s \in Statuses
  BY DEF Unfinished
<1>1. AfterSelection(s, sel) \in Statuses
  BY <1>0, WaitsAssumption DEF AfterSelection, Statuses, Unset
<1>2. LET t == AfterSelection(s, sel)
      IN  t.target = s.target /\ t.op = s.op /\ t.phase = s.phase /\ t.reason = s.reason
  BY <1>0 DEF AfterSelection, Statuses
<1> QED
  BY <1>1, <1>2 DEF Unfinished, Ended

\* startBackup writes no target: none is selected, or the selected Pod is not ready for it.
LEMMA WaitsStep ==
    ASSUME IInv, NEW w \in Workers, Waits(w)
    PROVE  IInv' /\ StatusStep
<1>1. Open(w) /\ UNCHANGED world /\ Unfinished(mine[w]) /\ mine[w].target = None
  BY OpenCopy DEF Waits, Accepted
<1>2. PICK v \in Views :
        LET since == mine[w].logEndSince
            sel   == selectBackupTarget(v, since # Unset /\ since >= LogEndWait)
            s     == AfterSelection(mine[w], sel)
            t     == [s EXCEPT !.phase = Started(s), !.noStorageSince = IF @ = Unset THEN 0 ELSE @]
        IN  IF sel.instance = None
            THEN commit(w, [s EXCEPT !.noStorageSince = Unset])
            ELSE commit(w, IF t.noStorageSince > TargetWait THEN Failed(t, "StorageWaitExpired") ELSE t)
  BY Zenon DEF Waits
<1> DEFINE since == mine[w].logEndSince
           sel == selectBackupTarget(v, since # Unset /\ since >= LogEndWait)
           s == AfterSelection(mine[w], sel)
           r == [s EXCEPT !.noStorageSince = Unset]
           t == [s EXCEPT !.phase = Started(s), !.noStorageSince = IF @ = Unset THEN 0 ELSE @]
<1>3. commit(w, r) \/ commit(w, t) \/ commit(w, Failed(t, "StorageWaitExpired"))
  BY <1>2
<1> HIDE DEF sel
<1>4. /\ Unfinished(s) /\ s \in Statuses /\ s.target = mine[w].target /\ s.op = mine[w].op
      /\ s.phase = mine[w].phase /\ s.reason = mine[w].reason
  BY <1>1, AfterSelectionUnfinished
<1> HIDE DEF s
<1>5. r \in Statuses /\ r.target = s.target /\ r.op = s.op /\ r.reason = s.reason /\ r.phase = s.phase
  BY <1>4, AgeBounds DEF Statuses
<1>6. t \in Statuses
  <2>1. Started(s) \in {"Pending", "Running"}
    BY <1>4, UnfinishedFields DEF Started
  <2>2. (IF s.noStorageSince = Unset THEN 0 ELSE s.noStorageSince) \in Unset..(TargetWait + 1)
    BY <1>4, AgeBounds DEF Statuses
  <2> QED
    BY <1>4, <2>1, <2>2, Zenon DEF Statuses
<1>7. t.target = s.target /\ t.op = s.op /\ t.reason = s.reason /\ t.phase = Started(s)
  BY <1>4 DEF Statuses
<1> HIDE DEF r, t
<1>8. Follows(s, r, held) /\ Follows(s, t, held) /\ Unfinished(t)
  BY <1>4, <1>5, <1>6, <1>7, StartedFollows
<1>9. Follows(t, Failed(t, "StorageWaitExpired"), held)
  BY <1>1, <1>4, <1>7, <1>8, FailedFollows DEF Reasons
<1>10. Follows(mine[w], r, held) /\ Follows(mine[w], t, held)
  BY <1>4, <1>8, SameBase
<1>11. Follows(mine[w], Failed(t, "StorageWaitExpired"), held)
  BY <1>4, <1>7, <1>9, SameBase
<1> QED
  BY <1>1, <1>3, <1>10, <1>11, ReconcileStep

\* The copy w now has, of which the start may be sent.
LEMMA ToDispatch ==
    ASSUME IInv, NEW w \in Workers, Open(w), UNCHANGED world, NEW s, Recorded(s),
           mine' = [mine EXCEPT ![w] = s], pc' = [pc EXCEPT ![w] = "dispatch"],
           \/ UNCHANGED <<stored, stale>> /\ s.target = mine[w].target /\ s.op = mine[w].op /\ s.phase = mine[w].phase
           \/ Store(w, s) /\ mine[w].target = None /\ mine[w].op = 0
    PROVE  IInv' /\ StatusStep
<1>0. /\ stored \in Statuses /\ mine \in [Workers -> Statuses] /\ stale \subseteq Workers
      /\ pc \in [Workers -> {"idle", "read", "dispatch"}]
      /\ s \in Statuses /\ pc[w] # "idle" /\ CopyInv(w)
  BY DEF IInv, TypeOK, Recorded, Unfinished, Open
<1>1. UNCHANGED <<spec, age, cluster, storage, held, runs, done, late>>
  BY DEF world
<1>2. TypeOK'
  <2>1. /\ pc' \in [Workers -> {"idle", "read", "dispatch"}]
        /\ mine' \in [Workers -> Statuses] /\ stored' \in Statuses /\ stale' \subseteq Workers
    BY <1>0 DEF Store
  <2> QED
    BY <1>1, <2>1 DEF IInv, TypeOK
<1>3. /\ s.op = 0 /\ s.target \in Members /\ s.target # None /\ s.reason = Empty
      /\ ~Ended(s) /\ Sound(s, held, done)
  BY EmptyIsNone, MembersAssumption DEF Recorded, Unfinished, Sound, Ended
<1>4. Sound(stored', held', done')
  BY <1>1, <1>3 DEF Store, IInv
<1>5. stored'.target = s.target /\ (stored.target = None \/ stored.target = stored'.target)
  BY <1>0, <1>3 DEF Store, CopyInv
<1>6. ASSUME NEW v \in Workers PROVE CopyInv(v)'
  <2>1. CASE v = w
    <3>1. pc'[v] = "dispatch" /\ mine'[v] = s
      BY <1>0, <2>1
    <3>2. v \notin stale' => /\ s.phase = stored'.phase /\ s.reason = stored'.reason
                             /\ s.target = stored'.target /\ s.op = stored'.op
      BY <1>0, <1>3, <2>1, OpenCopy DEF Store, CopyInv
    <3> QED
      BY <1>1, <1>3, <1>5, <3>1, <3>2, Zenon DEF CopyInv
  <2>2. CASE v # w
    <3>1. pc'[v] = pc[v] /\ mine'[v] = mine[v] /\ CopyInv(v)
      BY <1>0, <2>2 DEF IInv
    <3>2. v \in stale' \/ (stored' = stored /\ stale' = stale)
      BY <2>2 DEF Store
    <3> QED
      BY <1>1, <1>5, <3>1, <3>2 DEF CopyInv
  <2> QED
    BY <2>1, <2>2
<1>7. RunInv'
  BY <1>1, <1>5, MembersAssumption DEF IInv, RunInv
<1>8. LoneInv'
  <2>1. Alone => stale = {} /\ stale' = {}
    BY DEF IInv, LoneInv, Alone, Store
  <2>2. Alone => stored'.reason = Empty /\ stored'.op = 0
    BY <1>0, <1>3, <2>1, OpenCopy DEF Store, CopyInv
  <2> QED
    BY <2>1, <2>2, EmptyIsNone DEF LoneInv, Lone, NothingRuns, NothingStarted
<1>9. HeldInv'
  BY <1>1 DEF IInv, HeldInv
<1>10. StatusStep
  BY <1>0, OpenCopy DEF Store, CopyInv, StatusStep
<1> QED
  BY <1>2, <1>4, <1>6, <1>7, <1>8, <1>9, <1>10 DEF IInv

\* The target is written before any request is sent to it.
LEMMA RecordTargetStep ==
    ASSUME IInv, NEW w \in Workers, RecordTarget(w)
    PROVE  IInv' /\ StatusStep
<1>1. /\ Open(w) /\ UNCHANGED world /\ Unfinished(mine[w]) /\ mine[w].target = None /\ mine[w].op = 0
      /\ cluster \in {"first", "second"}
  BY OpenCopy DEF RecordTarget, Accepted, Exists
<1>2. PICK v \in Views :
        LET since == mine[w].logEndSince
            sel   == selectBackupTarget(v, since # Unset /\ since >= LogEndWait)
            s     == [AfterSelection(mine[w], sel) EXCEPT
                        !.phase = Started(mine[w]), !.target = sel.instance, !.role = sel.role,
                        !.cluster = cluster, !.recordedAt = 0, !.noStorageSince = Unset]
        IN  /\ sel.instance # None
            /\ Store(w, s)
            /\ mine' = [mine EXCEPT ![w] = s]
            /\ pc' = [pc EXCEPT ![w] = "dispatch"]
  BY Zenon DEF RecordTarget
<1> DEFINE since == mine[w].logEndSince
           sel == selectBackupTarget(v, since # Unset /\ since >= LogEndWait)
           a == AfterSelection(mine[w], sel)
           s == [a EXCEPT !.phase = Started(mine[w]), !.target = sel.instance, !.role = sel.role,
                          !.cluster = cluster, !.recordedAt = 0, !.noStorageSince = Unset]
<1>3. /\ sel.instance # None /\ Store(w, s)
      /\ mine' = [mine EXCEPT ![w] = s] /\ pc' = [pc EXCEPT ![w] = "dispatch"]
  BY <1>2
<1>4. sel.instance \in Members /\ sel.role \in {None, "slave", "master", "unknown"}
  BY <1>3, SelectedType
<1> HIDE DEF sel
<1>5. a \in Statuses /\ a.op = 0 /\ a.reason = Empty
  BY <1>1, AfterSelectionUnfinished DEF Unfinished
<1> HIDE DEF a
<1>6. Started(mine[w]) \in {"Pending", "Running"}
  BY <1>1, UnfinishedFields DEF Started
<1>7. s \in Statuses
  <2>1. 0 \in Unset..(TargetWait + 1) /\ Unset \in Unset..(TargetWait + 1)
    BY AgeBounds
  <2> QED
    BY <1>1, <1>4, <1>5, <1>6, <2>1, Zenon DEF Statuses
<1>8. s.target = sel.instance /\ s.op = a.op /\ s.reason = a.reason /\ s.phase = Started(mine[w])
  BY <1>5 DEF Statuses
<1> HIDE DEF s
<1>9. Recorded(s)
  BY <1>4, <1>5, <1>6, <1>7, <1>8 DEF Recorded, Unfinished, Ended
<1> QED
  BY <1>1, <1>3, <1>9, ToDispatch, Zenon

\* A reconcile whose target is recorded and not its operation.
LEMMA RecordedTargetStep ==
    ASSUME IInv, NEW w \in Workers, RecordedTarget(w)
    PROVE  IInv' /\ StatusStep
<1> DEFINE s == Timed(mine[w])
<1>1. /\ Open(w) /\ UNCHANGED world /\ Recorded(mine[w])
  <2>1. Open(w) /\ UNCHANGED world /\ Unfinished(mine[w]) /\ mine[w].target # None /\ mine[w].op = 0
    BY OpenCopy DEF RecordedTarget, Accepted
  <2> QED
    BY <2>1, UnfinishedFields DEF Recorded
<1>2. /\ Recorded(s) /\ s.target = mine[w].target /\ s.op = mine[w].op /\ s.phase = mine[w].phase
      /\ \A t : Follows(s, t, held) => Follows(mine[w], t, held)
  BY <1>1, TimedRecorded
<1>3. \/ \E t \in endRecordedTargetWait(s) \cup holdRecordedTarget(s) : commit(w, t)
      \/ mine' = [mine EXCEPT ![w] = s] /\ pc' = [pc EXCEPT ![w] = "dispatch"] /\ UNCHANGED <<stored, stale>>
  BY DEF RecordedTarget
<1> HIDE DEF s
<1>4. CASE \E t \in endRecordedTargetWait(s) \cup holdRecordedTarget(s) : commit(w, t)
  <2>1. PICK t \in endRecordedTargetWait(s) \cup holdRecordedTarget(s) : commit(w, t)
    BY <1>4
  <2>2. Follows(s, t, held)
    BY <1>2, EndWaitFollows, HoldFollows DEF IInv
  <2> QED
    BY <1>1, <1>2, <2>1, <2>2, ReconcileStep
<1>5. CASE mine' = [mine EXCEPT ![w] = s] /\ pc' = [pc EXCEPT ![w] = "dispatch"] /\ UNCHANGED <<stored, stale>>
  BY <1>1, <1>2, <1>5, ToDispatch, Zenon
<1> QED
  BY <1>3, <1>4, <1>5

\* A member that handles a start holds one operation for the backup.
LEMMA HandleFacts ==
    ASSUME TypeOK, HeldInv, NEW m \in Members, Handle(m), done' = done
    PROVE  /\ held' \in [Members -> [n : 0..MaxRuns, state : {"none", "open", "Completed", "Failed"}]]
           /\ runs' \in [Members -> 0..MaxRuns]
           /\ HeldInv'
           /\ \A j \in Members : held[j].n # 0 => held'[j].n = held[j].n
           /\ \A j \in Members \ {m} : runs'[j] = runs[j]
<1>0. /\ held \in [Members -> [n : 0..MaxRuns, state : {"none", "open", "Completed", "Failed"}]]
      /\ runs \in [Members -> 0..MaxRuns]
  BY DEF TypeOK
<1>1. CASE held[m].n # 0
  <2>1. held' = held /\ runs' = runs
    BY <1>1 DEF Handle
  <2> QED
    BY <1>0, <2>1 DEF HeldInv
<1>2. CASE held[m].n = 0
  <2>1. /\ runs[m] < MaxRuns
        /\ runs' = [runs EXCEPT ![m] = @ + 1]
        /\ held' = [held EXCEPT ![m] = [n |-> runs[m] + 1, state |-> "open"]]
    BY <1>2 DEF Handle
  <2>2. runs[m] \in Nat /\ runs[m] + 1 \in 0..MaxRuns
    BY <1>0, <2>1, BoundAssumption
  <2>3. held'[m] = [n |-> runs[m] + 1, state |-> "open"] /\ runs'[m] = runs[m] + 1
    BY <1>0, <2>1
  <2>4. \A j \in Members \ {m} : held'[j] = held[j] /\ runs'[j] = runs[j]
    BY <1>0, <2>1
  <2>5. /\ held' \in [Members -> [n : 0..MaxRuns, state : {"none", "open", "Completed", "Failed"}]]
        /\ runs' \in [Members -> 0..MaxRuns]
    BY <1>0, <2>1, <2>2
  <2>6. HeldInv'
    <3>1. held'[m].n # 0 /\ held'[m].state = "open" /\ runs'[m] > 0
      BY <2>2, <2>3
    <3> QED
      BY <2>4, <3>1 DEF HeldInv
  <2> QED
    BY <1>2, <2>4, <2>5, <2>6
<1> QED
  BY <1>1, <1>2

\* startBackup: the request, answered, refused, lost or still on its way.
LEMMA DispatchStep ==
    ASSUME IInv, NEW w \in Workers, Dispatch(w)
    PROVE  IInv' /\ StatusStep
<1> DEFINE s == mine[w]
           m == s.target
<1>0. pc[w] = "dispatch" /\ UNCHANGED <<spec, age, cluster, storage, done>>
  BY DEF Dispatch
<1>1. Recorded(s)
  <2>1. Unfinished(s)
    BY <1>0, OpenCopy
  <2> QED
    BY <1>0, <2>1, UnfinishedFields DEF Recorded, IInv, CopyInv
<1>2. m \in Members /\ s.op = 0 /\ Unfinished(s) /\ m # None
  BY <1>1, MembersAssumption DEF Recorded
<1>3. CASE /\ Handle(m)
           /\ commit(w, [s EXCEPT !.phase = "Running", !.op = held'[m].n]) \/ commit(w, s)
           /\ late' = late
  <2> DEFINE t == [s EXCEPT !.phase = "Running", !.op = held'[m].n]
  <2>1. /\ held' \in [Members -> [n : 0..MaxRuns, state : {"none", "open", "Completed", "Failed"}]]
        /\ runs' \in [Members -> 0..MaxRuns]
        /\ HeldInv'
        /\ \A j \in Members : held[j].n # 0 => held'[j].n = held[j].n
        /\ \A j \in Members \ {m} : runs'[j] = runs[j]
    BY <1>0, <1>2, <1>3, HandleFacts DEF IInv
  <2>2. WorldOK'
    BY <1>0, <1>3, <2>1 DEF IInv, TypeOK, WorldOK
  <2>3. WorldStep(w)
    BY <1>0, <1>3, <2>1, <2>2 DEF WorldStep
  <2>4. s \in Statuses /\ held'[m].n \in 0..MaxRuns
    BY <1>2, <2>1 DEF Unfinished
  <2>5. t \in Statuses
    BY <2>4, Zenon DEF Statuses
  <2>6. t.target = s.target /\ t.op = held'[m].n /\ t.phase = "Running" /\ t.reason = s.reason
    BY <2>4 DEF Statuses
  <2> HIDE DEF t
  <2>7. Follows(s, t, held')
    BY <1>2, <2>5, <2>6, EmptyIsNone DEF Follows, Unfinished
  <2>8. Follows(s, s, held')
    BY <1>2, KeepFollows
  <2> QED
    BY <1>0, <1>3, <2>3, <2>7, <2>8, CommitStep DEF t
<1>4. CASE /\ late' \in {late, [late EXCEPT ![m] = Late]}
           /\ commit(w, s)
           /\ UNCHANGED <<held, runs>>
  <2>0. late \in [Members -> 0..Late] /\ Late \in 0..Late
    BY BoundAssumption DEF IInv, TypeOK
  <2>1. late' \in [Members -> 0..Late] /\ \A j \in Members \ {m} : late'[j] = late[j]
    BY <1>4, <2>0
  <2>2. WorldOK' /\ HeldInv'
    BY <1>0, <1>4, <2>1 DEF IInv, TypeOK, WorldOK, HeldInv
  <2>3. WorldStep(w)
    BY <1>0, <1>2, <1>4, <2>1, <2>2 DEF WorldStep
  <2>4. Follows(s, s, held')
    BY <1>2, KeepFollows
  <2> QED
    BY <1>0, <1>4, <2>3, <2>4, CommitStep
<1>5. CASE /\ \E t \in holdRecordedTarget(s) \cup requestRefused(s) : commit(w, t)
           /\ UNCHANGED <<held, runs, late>>
  <2>1. PICK t \in holdRecordedTarget(s) \cup requestRefused(s) : commit(w, t)
    BY <1>5
  <2>2. WorldStep(w)
    BY <1>0, <1>5, SameWorld DEF IInv, world
  <2>3. Follows(s, t, held')
    BY <1>1, <1>5, HoldFollows, RefusedFollows DEF IInv
  <2> QED
    BY <1>0, <2>1, <2>2, <2>3, CommitStep
<1> QED
  BY <1>3, <1>4, <1>5 DEF Dispatch

\* A reconcile begins with the stored status, or ends without a write.
LEMMA CopyStep ==
    ASSUME IInv, NEW w \in Workers, UNCHANGED <<stored, world>>,
           \/ pc' = [pc EXCEPT ![w] = "read"] /\ mine' = [mine EXCEPT ![w] = stored] /\ stale' = stale \ {w}
           \/ pc' = [pc EXCEPT ![w] = "idle"] /\ mine' = [mine EXCEPT ![w] = NoStatus] /\ stale' = stale
    PROVE  IInv' /\ StatusStep
<1>0. /\ stored \in Statuses /\ mine \in [Workers -> Statuses] /\ stale \subseteq Workers
      /\ pc \in [Workers -> {"idle", "read", "dispatch"}]
  BY DEF IInv, TypeOK
<1>1. UNCHANGED <<spec, age, cluster, storage, held, runs, done, late>> /\ stored' = stored
  BY DEF world
<1>2. TypeOK'
  <2>1. /\ pc' \in [Workers -> {"idle", "read", "dispatch"}]
        /\ mine' \in [Workers -> Statuses] /\ stale' \subseteq Workers
    BY <1>0, NoStatusSound
  <2> QED
    BY <1>1, <2>1 DEF IInv, TypeOK
<1>3. ASSUME NEW v \in Workers PROVE CopyInv(v)'
  <2>1. CASE v = w
    <3>1. \/ pc'[v] = "read" /\ mine'[v] = stored
          \/ pc'[v] = "idle" /\ mine'[v] = NoStatus
      BY <1>0, <2>1
    <3>2. CASE pc'[v] = "read" /\ mine'[v] = stored
      <4>1. Sound(mine'[v], held', done')
        BY <1>1, <3>2 DEF IInv
      <4> QED
        BY <1>1, <3>2, <4>1 DEF CopyInv
    <3>3. CASE pc'[v] = "idle" /\ mine'[v] = NoStatus
      BY <3>3, NoStatusSound DEF CopyInv
    <3> QED
      BY <3>1, <3>2, <3>3
  <2>2. CASE v # w
    <3>1. pc'[v] = pc[v] /\ mine'[v] = mine[v] /\ CopyInv(v) /\ (v \in stale' <=> v \in stale)
      BY <1>0, <2>2 DEF IInv
    <3> QED
      BY <1>1, <3>1 DEF CopyInv
  <2> QED
    BY <2>1, <2>2
<1>4. Sound(stored, held, done)' /\ HeldInv' /\ RunInv'
  BY <1>1 DEF IInv, HeldInv, RunInv
<1>5. LoneInv'
  BY <1>1 DEF IInv, LoneInv, NothingRuns
<1> QED
  BY <1>1, <1>2, <1>3, <1>4, <1>5 DEF IInv, StatusStep

-----------------------------------------------------------------------------
(* The members, the cluster and time.                                      *)

\* A step in which no operator moves and no backup is started.
LEMMA OutsideStep ==
    ASSUME IInv, UNCHANGED operator, WorldOK', HeldInv',
           \A m \in Members : done[m] \subseteq done'[m],
           ~Forgets => \A m \in Members : held[m].n # 0 => held'[m].n = held[m].n,
           \A m \in Members : runs'[m] > 0 \/ late'[m] > 0 => runs[m] > 0 \/ late[m] > 0,
           \A m \in Members : late'[m] > 0 => late[m] > 0 /\ (held[m].n # 0 => held'[m].n # 0),
           Lone => \A m \in Members : held'[m].state = "open" => held[m].state = "open"
    PROVE  IInv' /\ StatusStep
<1>0. /\ stored \in Statuses /\ mine \in [Workers -> Statuses]
      /\ UNCHANGED <<spec, stored, pc, mine, stale>>
  BY DEF IInv, TypeOK, operator
<1>1. TypeOK'
  BY <1>0 DEF IInv, TypeOK, WorldOK
<1>2. ASSUME NEW s \in Statuses, Sound(s, held, done) PROVE Sound(s, held', done')
  BY <1>2, SoundKept
<1>3. Sound(stored, held, done)'
  BY <1>0, <1>2, Zenon DEF IInv
<1>4. ASSUME NEW v \in Workers PROVE CopyInv(v)'
  <2>1. Sound(mine[v], held', done') /\ CopyInv(v)
    BY <1>0, <1>2, Zenon DEF IInv, CopyInv
  <2> QED
    BY <1>0, <2>1, Zenon DEF CopyInv
<1>5. RunInv'
  BY <1>0, Zenon DEF IInv, RunInv
<1>6. LoneInv'
  BY <1>0 DEF IInv, LoneInv, NothingRuns
<1> QED
  BY <1>0, <1>1, <1>3, <1>4, <1>5, <1>6 DEF IInv, StatusStep

\* A member handles a start whose caller gave up.
LEMMA HandleLateStep ==
    ASSUME IInv, NEW m \in Members, HandleLate(m)
    PROVE  IInv' /\ StatusStep
<1>0. /\ Handle(m) /\ late[m] > 0 /\ late' = [late EXCEPT ![m] = 0]
      /\ UNCHANGED <<operator, age, cluster, storage, done>>
  BY DEF HandleLate
<1>1. /\ held' \in [Members -> [n : 0..MaxRuns, state : {"none", "open", "Completed", "Failed"}]]
      /\ runs' \in [Members -> 0..MaxRuns]
      /\ HeldInv'
      /\ \A j \in Members : held[j].n # 0 => held'[j].n = held[j].n
      /\ \A j \in Members \ {m} : runs'[j] = runs[j]
  BY <1>0, HandleFacts, Zenon DEF IInv
<1>2. late \in [Members -> 0..Late] /\ Late \in Nat
  BY BoundAssumption DEF IInv, TypeOK
<1>3. late' \in [Members -> 0..Late] /\ \A j \in Members : late'[j] > 0 => late[j] > 0
  BY <1>0, <1>2
<1>4. WorldOK'
  BY <1>0, <1>1, <1>3 DEF IInv, TypeOK, WorldOK, operator
<1>5. ~Lone
  BY <1>0, <1>2 DEF Lone
<1>6. \A j \in Members : runs'[j] > 0 \/ late'[j] > 0 => runs[j] > 0 \/ late[j] > 0
  BY <1>0, <1>1, <1>3
<1>7. \A j \in Members : late'[j] > 0 => late[j] > 0 /\ (held[j].n # 0 => held'[j].n # 0)
  BY <1>1, <1>3
<1> QED
  BY <1>0, <1>1, <1>4, <1>5, <1>6, <1>7, OutsideStep

\* The operation of a member completes or fails.
LEMMA OperationEndsStep ==
    ASSUME IInv, NEW m \in Members, NEW end \in {"Completed", "Failed"}, OperationEnds(m, end)
    PROVE  IInv' /\ StatusStep
<1>0. /\ held[m].state = "open" /\ held' = [held EXCEPT ![m].state = end]
      /\ done' = IF end = "Completed" THEN [done EXCEPT ![m] = @ \cup {held[m].n}] ELSE done
      /\ UNCHANGED <<operator, age, cluster, storage, runs, late>>
  BY DEF OperationEnds
<1>1. /\ held \in [Members -> [n : 0..MaxRuns, state : {"none", "open", "Completed", "Failed"}]]
      /\ done \in [Members -> SUBSET (1..MaxRuns)]
  BY DEF IInv, TypeOK
<1>2. held[m].n # 0
  BY <1>0 DEF IInv, HeldInv
<1>3. held[m].n \in 1..MaxRuns
  BY <1>1, <1>2, BoundAssumption
<1>4. /\ held'[m].n = held[m].n /\ held'[m].state = end
      /\ \A j \in Members \ {m} : held'[j] = held[j]
  BY <1>0, <1>1
<1>5. /\ \A j \in Members : done[j] \subseteq done'[j]
      /\ end = "Completed" => held[m].n \in done'[m]
  BY <1>0, <1>1
<1>6. held' \in [Members -> [n : 0..MaxRuns, state : {"none", "open", "Completed", "Failed"}]]
  BY <1>0, <1>1
<1>7. done' \in [Members -> SUBSET (1..MaxRuns)]
  BY <1>0, <1>1, <1>3
<1>8. WorldOK'
  BY <1>0, <1>6, <1>7 DEF IInv, TypeOK, WorldOK, operator
<1>9. HeldInv'
  BY <1>0, <1>2, <1>4, <1>5 DEF IInv, HeldInv
<1>10. \A j \in Members : held'[j].n = held[j].n
  BY <1>4
<1> QED
  BY <1>0, <1>4, <1>5, <1>8, <1>9, <1>10, OutsideStep

\* A member loses its records, where members do.
LEMMA ForgetStep ==
    ASSUME IInv, NEW m \in Members, Forget(m)
    PROVE  IInv' /\ StatusStep
<1>0. /\ Forgets /\ held' = [held EXCEPT ![m] = NoOp] /\ late' = [late EXCEPT ![m] = 0]
      /\ UNCHANGED <<operator, age, cluster, storage, runs, done>>
  BY DEF Forget
<1>1. /\ held \in [Members -> [n : 0..MaxRuns, state : {"none", "open", "Completed", "Failed"}]]
      /\ late \in [Members -> 0..Late]
  BY DEF IInv, TypeOK
<1>2. /\ held'[m].n = 0 /\ held'[m].state = "none" /\ late'[m] = 0
      /\ \A j \in Members \ {m} : held'[j] = held[j] /\ late'[j] = late[j]
  BY <1>0, <1>1 DEF NoOp
<1>3. /\ held' \in [Members -> [n : 0..MaxRuns, state : {"none", "open", "Completed", "Failed"}]]
      /\ late' \in [Members -> 0..Late]
  BY <1>0, <1>1, BoundAssumption DEF NoOp
<1>4. WorldOK'
  BY <1>0, <1>3 DEF IInv, TypeOK, WorldOK, operator
<1>5. HeldInv'
  BY <1>0, <1>2 DEF IInv, HeldInv
<1>6. \A j \in Members : held'[j].state = "open" => held[j].state = "open"
  BY <1>2
<1>7. \A j \in Members : runs'[j] > 0 \/ late'[j] > 0 => runs[j] > 0 \/ late[j] > 0
  BY <1>0, <1>2
<1>8. \A j \in Members : done[j] \subseteq done'[j]
  BY <1>0
<1>9. \A j \in Members : late'[j] > 0 => late[j] > 0 /\ (held[j].n # 0 => held'[j].n # 0)
  <2>1. ~(late'[m] > 0)
    BY <1>2
  <2>2. ASSUME NEW j \in Members, late'[j] > 0 PROVE j \in Members \ {m}
    BY <2>1, <2>2
  <2> QED
    BY <1>2, <2>2
<1> QED
  BY <1>0, <1>4, <1>5, <1>6, <1>7, <1>8, <1>9, OutsideStep

\* The cluster is created, deleted with its members, or created again.
LEMMA ChangeClusterStep ==
    ASSUME IInv, ChangeCluster
    PROVE  IInv' /\ StatusStep
<1>0. /\ cluster' \in {"first", "gone", "second"}
      /\ UNCHANGED <<operator, age, storage, runs, done>>
  BY DEF ChangeCluster
<1>1. /\ held \in [Members -> [n : 0..MaxRuns, state : {"none", "open", "Completed", "Failed"}]]
      /\ late \in [Members -> 0..Late]
  BY DEF IInv, TypeOK
<1>2. \/ UNCHANGED <<held, late>>
      \/ /\ held' = [m \in Members |-> IF held[m].state = "open" THEN [held[m] EXCEPT !.state = "Failed"] ELSE held[m]]
         /\ late' = [m \in Members |-> 0]
  BY DEF ChangeCluster
<1>3. \A m \in Members :
        /\ held'[m].n = held[m].n
        /\ held'[m].state = held[m].state \/ (held[m].state = "open" /\ held'[m].state = "Failed")
        /\ late'[m] \in {late[m], 0}
  BY <1>1, <1>2
<1>4. /\ held' \in [Members -> [n : 0..MaxRuns, state : {"none", "open", "Completed", "Failed"}]]
      /\ late' \in [Members -> 0..Late]
  BY <1>1, <1>2, BoundAssumption
<1>5. WorldOK'
  BY <1>0, <1>4 DEF IInv, TypeOK, WorldOK, operator
<1>6. HeldInv'
  BY <1>0, <1>3 DEF IInv, HeldInv
<1>7. \A m \in Members : held'[m].state = "open" => held[m].state = "open"
  BY <1>3
<1>8. \A m \in Members : late'[m] > 0 => late[m] > 0
  <2>1. \A m \in Members : late'[m] > 0 => late'[m] = late[m]
    BY <1>3
  <2> QED
    BY <2>1
<1>9. \A m \in Members : runs'[m] > 0 \/ late'[m] > 0 => runs[m] > 0 \/ late[m] > 0
  BY <1>0, <1>8
<1>10. \A m \in Members : done[m] \subseteq done'[m]
  BY <1>0
<1>11. \A m \in Members : held[m].n # 0 => held'[m].n = held[m].n
  BY <1>3
<1> QED
  BY <1>0, <1>5, <1>6, <1>7, <1>8, <1>9, <1>10, <1>11, OutsideStep

\* The storage is configured, or is no longer.
LEMMA SetStorageStep ==
    ASSUME IInv, SetStorage
    PROVE  IInv' /\ StatusStep
<1>0. storage' \in BOOLEAN /\ UNCHANGED <<operator, age, cluster, held, runs, done, late>>
  BY DEF SetStorage
<1>1. WorldOK'
  BY <1>0 DEF IInv, TypeOK, WorldOK, operator
<1>2. HeldInv'
  BY <1>0 DEF IInv, HeldInv
<1> QED
  BY <1>0, <1>1, <1>2, OutsideStep

\* Time changes nothing of a status but its ages.
LEMMA AgedFacts ==
    ASSUME NEW s \in Statuses
    PROVE  /\ Aged(s) \in Statuses
           /\ Aged(s).phase = s.phase /\ Aged(s).reason = s.reason
           /\ Aged(s).target = s.target /\ Aged(s).op = s.op
           /\ \A h, d : Sound(s, h, d) => Sound(Aged(s), h, d)
<1>1. /\ s.recordedAt \in Unset..(TargetWait + 1) /\ s.missingSince \in Unset..(MissingWait + 1)
      /\ s.noStorageSince \in Unset..(TargetWait + 1) /\ s.logEndSince \in Unset..(LogEndWait + 1)
  BY DEF Statuses
<1>2. /\ Older(s.recordedAt, TargetWait) \in Unset..(TargetWait + 1)
      /\ Older(s.missingSince, MissingWait) \in Unset..(MissingWait + 1)
      /\ Older(s.noStorageSince, TargetWait) \in Unset..(TargetWait + 1)
      /\ Older(s.logEndSince, LogEndWait) \in Unset..(LogEndWait + 1)
  BY <1>1, WaitsAssumption DEF Older, Unset
<1>3. Aged(s) \in Statuses
  BY <1>2, Zenon DEF Aged, Statuses
<1>4. Aged(s).phase = s.phase /\ Aged(s).reason = s.reason /\ Aged(s).target = s.target /\ Aged(s).op = s.op
  BY DEF Aged, Statuses
<1> QED
  BY <1>3, <1>4 DEF Sound

\* Time passes.
LEMMA TickStep ==
    ASSUME IInv, Tick
    PROVE  IInv' /\ StatusStep
<1>0. /\ stored \in Statuses /\ mine \in [Workers -> Statuses]
      /\ age \in 0..(ClusterWait + 1) /\ late \in [Members -> 0..Late]
  BY DEF IInv, TypeOK
<1>1. /\ stored' = Aged(stored) /\ age' = Older(age, ClusterWait)
      /\ late' = [m \in Members |-> IF late[m] = 0 THEN 0 ELSE late[m] - 1]
      /\ mine' = [w \in Workers |-> Aged(mine[w])]
      /\ UNCHANGED <<spec, pc, stale, cluster, storage, held, runs, done>>
  BY DEF Tick
<1>2. /\ stored' \in Statuses /\ stored'.phase = stored.phase /\ stored'.reason = stored.reason
      /\ stored'.target = stored.target /\ stored'.op = stored.op
      /\ Sound(stored', held, done)
  BY <1>0, <1>1, AgedFacts DEF IInv
<1>3. \A w \in Workers :
        /\ mine'[w] \in Statuses /\ mine'[w].phase = mine[w].phase /\ mine'[w].reason = mine[w].reason
        /\ mine'[w].target = mine[w].target /\ mine'[w].op = mine[w].op
        /\ Sound(mine'[w], held, done)
  BY <1>0, <1>1, AgedFacts DEF IInv, CopyInv
<1>4. TypeOK'
  <2>1. age' \in 0..(ClusterWait + 1)
    <3>1. ClusterWait \in Nat /\ age \in 0..(ClusterWait + 1) /\ age' = Older(age, ClusterWait)
      BY <1>0, <1>1, WaitsAssumption
    <3> QED
      BY <3>1 DEF Older, Unset
  <2>2. late' \in [Members -> 0..Late]
    BY <1>0, <1>1, BoundAssumption
  <2>3. mine' \in [Workers -> Statuses]
    BY <1>1, <1>3
  <2> QED
    BY <1>1, <1>2, <2>1, <2>2, <2>3 DEF IInv, TypeOK
<1>5. ASSUME NEW w \in Workers PROVE CopyInv(w)'
  <2>1. CopyInv(w)
    BY DEF IInv
  <2> QED
    BY <1>1, <1>2, <1>3, <2>1, Zenon DEF CopyInv, Ended
<1>6. RunInv'
  <2>1. \A m \in Members : late'[m] > 0 => late[m] > 0
    BY <1>0, <1>1, BoundAssumption
  <2> QED
    BY <1>1, <1>2, <2>1, Zenon DEF IInv, RunInv
<1>7. HeldInv' /\ LoneInv'
  <2>1. \A m \in Members : late'[m] > 0 => late[m] > 0
    BY <1>0, <1>1, BoundAssumption
  <2> QED
    BY <1>1, <1>2, <2>1 DEF IInv, HeldInv, LoneInv, NothingRuns
<1>8. Sound(stored, held, done)'
  BY <1>1, <1>2
<1> QED
  BY <1>2, <1>4, <1>5, <1>6, <1>7, <1>8 DEF IInv, StatusStep

-----------------------------------------------------------------------------
(* The theorems.                                                           *)

\* Nothing was asked of any member at first.
LEMMA InitIInv == Init => IInv
<1> SUFFICES ASSUME Init PROVE IInv
  OBVIOUS
<1>0. /\ age = 0 /\ pc = [w \in Workers |-> "idle"] /\ mine = [w \in Workers |-> NoStatus]
      /\ stale = {} /\ storage = TRUE /\ held = [m \in Members |-> NoOp]
      /\ runs = [m \in Members |-> 0] /\ done = [m \in Members |-> {}] /\ late = [m \in Members |-> 0]
      /\ spec \in [preference : Preferences, refusal : Refusals]
      /\ cluster \in {None, "first"}
  BY Zenon DEF Init
<1>1. /\ stored \in Statuses /\ Sound(stored, held, done) /\ stored.reason = Empty
  <2>1. CASE stored = NoStatus
    BY <2>1, NoStatusSound
  <2>2. ASSUME NEW m \in Members,
               stored = [NoStatus EXCEPT !.phase = "Pending", !.target = m, !.role = "slave", !.cluster = "first"]
        PROVE  stored \in Statuses /\ Sound(stored, held, done) /\ stored.reason = Empty
    <3>1. NoStatus \in Statuses /\ NoStatus.op = 0 /\ NoStatus.reason = Empty
      BY NoStatusSound
    <3>2. stored \in Statuses
      BY <2>2, <3>1, Zenon DEF Statuses
    <3>3. stored.op = NoStatus.op /\ stored.reason = NoStatus.reason /\ stored.phase = "Pending"
      BY <2>2, <3>1 DEF Statuses
    <3> QED
      BY <3>1, <3>2, <3>3 DEF Sound
  <2> QED
    BY <2>1, <2>2, Zenon DEF Init
<1>2. TypeOK
  <2>1. mine \in [Workers -> Statuses]
    BY <1>0, NoStatusSound
  <2>2. age \in 0..(ClusterWait + 1) /\ late \in [Members -> 0..Late] /\ runs \in [Members -> 0..MaxRuns]
    BY <1>0, WaitsAssumption, BoundAssumption
  <2>3. held \in [Members -> [n : 0..MaxRuns, state : {"none", "open", "Completed", "Failed"}]]
    BY <1>0, BoundAssumption DEF NoOp
  <2> QED
    <3>1. pc \in [Workers -> {"idle", "read", "dispatch"}] /\ done \in [Members -> SUBSET (1..MaxRuns)]
      BY <1>0
    <3> QED
      BY <1>0, <1>1, <2>1, <2>2, <2>3, <3>1 DEF TypeOK
<1>3. HeldInv /\ RunInv
  BY <1>0 DEF HeldInv, RunInv, NoOp
<1>4. \A w \in Workers : CopyInv(w)
  BY <1>0, NoStatusSound DEF CopyInv
<1>5. LoneInv
  <2>1. \A m \in Members : ~(late[m] > 0)
    BY <1>0
  <2> QED
    BY <1>0, <1>1, <2>1, EmptyIsNone DEF LoneInv, NothingRuns, NothingStarted
<1> QED
  BY <1>1, <1>2, <1>3, <1>4, <1>5 DEF IInv

\* Every step keeps the invariant, the end that was reported and the recorded operation.
LEMMA NextIInv == IInv /\ [Next]_vars => IInv' /\ StatusStep
<1> SUFFICES ASSUME IInv, [Next]_vars PROVE IInv' /\ StatusStep
  OBVIOUS
<1>1. CASE UNCHANGED vars
  <2>1. UNCHANGED operator /\ UNCHANGED world
    BY <1>1 DEF vars, operator, world
  <2>2. WorldOK' /\ HeldInv' /\ UNCHANGED <<held, runs, done, late>>
    BY <1>1, <2>1, SameWorld DEF IInv, WorldStep, vars
  <2> QED
    BY <2>1, <2>2, OutsideStep
<1>2. ASSUME NEW w \in Workers, Read(w) \/ AlreadyEnded(w) \/ Restart(w) PROVE IInv' /\ StatusStep
  BY <1>2, CopyStep DEF Read, AlreadyEnded, Restart
<1>3. ASSUME NEW w \in Workers, Step(w), ~AlreadyEnded(w) PROVE IInv' /\ StatusStep
  BY <1>3, EndsEarlyStep, PollStep, StorageNotConfiguredStep, WaitsStep, RecordTargetStep, RecordedTargetStep,
     DispatchStep DEF Step
<1>4. ASSUME NEW m \in Members, HandleLate(m) \/ Forget(m) PROVE IInv' /\ StatusStep
  BY <1>4, HandleLateStep, ForgetStep
<1>5. ASSUME NEW m \in Members, NEW end \in {"Completed", "Failed"}, OperationEnds(m, end) PROVE IInv' /\ StatusStep
  BY <1>5, OperationEndsStep
<1>6. CASE ChangeCluster \/ SetStorage \/ Tick
  BY <1>6, ChangeClusterStep, SetStorageStep, TickStep
<1> QED
  BY <1>1, <1>2, <1>3, <1>4, <1>5, <1>6 DEF Next

\* The invariant holds in every reachable state.
LEMMA Inductive == Spec => []IInv
  BY InitIInv, NextIInv, PTL DEF Spec

\* CubridBackup status, operators and members: every field keeps its type, under any
\* number of operators, members and late requests.
THEOREM TypeCorrect == Spec => []TypeOK
<1>1. IInv => TypeOK
  BY DEF IInv
<1> QED
  BY <1>1, Inductive, PTL

\* startBackup: whatever answers are lost, however late a start is handled and
\* however many operators overlap, the backup runs on one member only.
THEOREM RunsOnOneMember == Spec => []OneMember
<1>1. IInv => OneMember
  BY DEF IInv, RunInv, OneMember
<1> QED
  BY <1>1, Inductive, PTL

\* pollBackup and adoptBackup: Completed means that the run the status names
\* completed, also when operators overlap and members forget.
THEOREM CompletedWasDone == Spec => []CompletedIsTrue
<1>1. IInv => CompletedIsTrue
  BY DEF IInv, Sound, CompletedIsTrue
<1> QED
  BY <1>1, Inductive, PTL

\* endRecordedTargetWait, requestRefused and startBackup: with one operator at a
\* time, a backup that ended as not started does not run, then or later.
THEOREM NotStartedIsTrue == ASSUME Lone PROVE Spec => []NothingRuns
<1>1. IInv => NothingRuns
  BY Lone DEF IInv, LoneInv
<1> QED
  BY <1>1, Inductive, PTL

\* Reconcile and writeStatus: an end that was reported is not taken back, by any of
\* several operators with an older copy.
THEOREM EndStays == Spec => EndIsFinal
<1>1. IInv /\ [Next]_vars => [Ended(stored) => stored'.phase = stored.phase /\ stored'.reason = stored.reason]_vars
  BY NextIInv DEF StatusStep
<1> QED
  BY <1>1, Inductive, PTL DEF Spec, EndIsFinal

\* A member that holds what the status names starts nothing, and with one operator at
\* a time no start is sent once the operation is recorded, and one that is handled late
\* finds it.
LEMMA NoFurtherRun ==
    ASSUME IInv, [Next]_vars, stored.op # 0, ~Forgets \/ Alone
    PROVE  runs' = runs
<1>0. stored.target \in Members /\ (~Forgets => held[stored.target].n # 0)
  BY DEF IInv, TypeOK, Statuses, Sound
<1>1. ASSUME NEW w \in Workers, Dispatch(w), Handle(mine[w].target) PROVE runs' = runs
  <2>1. CopyInv(w) /\ pc[w] = "dispatch"
    BY <1>1 DEF IInv, Dispatch
  <2>2. mine[w].target = stored.target /\ mine[w].op = 0
    BY <2>1, Zenon DEF CopyInv
  <2>3. ~Alone
    BY <2>1, <2>2 DEF CopyInv, IInv, LoneInv
  <2> QED
    BY <1>0, <1>1, <2>2, <2>3 DEF Handle
<1>2. ASSUME NEW m \in Members, HandleLate(m) PROVE runs' = runs
  <2>1. late[m] > 0 /\ late[m] \in 0..Late
    BY <1>2 DEF HandleLate, IInv, TypeOK
  <2>2. m = stored.target
    BY <2>1 DEF IInv, RunInv
  <2>3. held[m].n # 0
    BY <1>0, <2>1, <2>2 DEF IInv, LoneInv
  <2> QED
    BY <1>2, <2>3 DEF HandleLate, Handle
<1>3. ASSUME NEW w \in Workers, Dispatch(w), ~Handle(mine[w].target) PROVE runs' = runs
  BY <1>3 DEF Dispatch
<1>4. ASSUME NEW w \in Workers, Read(w) \/ Restart(w) \/ (Step(w) /\ ~Dispatch(w)) PROVE runs' = runs
  <2>1. UNCHANGED world
    BY <1>4, Zenon DEF Read, Restart, Step, AlreadyEnded, EndsEarly, Poll, StorageNotConfigured, Waits, RecordTarget,
       RecordedTarget
  <2> QED
    BY <2>1 DEF world
<1>5. ASSUME NEW m \in Members, Forget(m) \/ OperationEnds(m, "Completed") \/ OperationEnds(m, "Failed")
      PROVE  runs' = runs
  BY <1>5 DEF Forget, OperationEnds
<1>6. CASE ChangeCluster \/ SetStorage \/ Tick \/ UNCHANGED vars
  BY <1>6 DEF ChangeCluster, SetStorage, Tick, vars
<1> QED
  BY <1>1, <1>2, <1>3, <1>4, <1>5, <1>6 DEF Next, Step

\* operationMissing and startBackup: once its operation is recorded, the backup is not
\* started again, when no member loses its records or one operator runs at a time,
\* also by a start that is handled late.
THEOREM StartedOnce == ASSUME ~Forgets \/ Alone PROVE Spec => NeverStartedAgain
<1>1. IInv /\ [Next]_vars => [stored.op # 0 => stored'.op = stored.op /\ runs' = runs]_vars
  BY NextIInv, NoFurtherRun DEF StatusStep
<1> QED
  BY <1>1, Inductive, PTL DEF Spec, NeverStartedAgain
=============================================================================
