-------------------------- MODULE ReplicationHealth --------------------------
(***************************************************************************)
(* What the operator reports of an HA cluster's roles and replication      *)
(* (internal/controller/haresolve.go, replication.go, applierpositions.go, *)
(* roleprober.go): each reconcile asks every member, judges its answers    *)
(* against the stored status and against the applier readings that the     *)
(* operator keeps in memory, and writes one status.                        *)
(*                                                                         *)
(* A reconcile is one action: it works on the status it read, and a write  *)
(* of an outdated one is refused and changes nothing.  Times are ages that *)
(* Tick advances, up to the first age past their bound.  Log addresses,    *)
(* counters and process identities are only ever compared with the ones    *)
(* remembered from an earlier reading, so a memory of a reading is the set *)
(* of things that changed since (changed).                                 *)
(***************************************************************************)
EXTENDS Integers

CONSTANTS
    Members,          \* the members that are asked
    Slaves,           \* those that may replicate; the others may only be master
    Operators,        \* operator processes, each with a memory of its own
    CompareInterval,  \* positionCompareInterval
    WriteInterval,    \* observationWriteInterval
    StallWindow,      \* replicationStallWindow
    None

ASSUME TimesAssumption ==
    /\ {CompareInterval, WriteInterval, StallWindow} \subseteq Nat \ {0}
    /\ WriteInterval <= StallWindow
ASSUME MembersAssumption ==
    /\ Slaves \subseteq Members /\ None \notin Members
    /\ Operators \cap {"status", "stall", "stop"} = {}

HistoryTTL == 2 * StallWindow   \* replicationHistoryTTL
Unset == -1

VARIABLES
    stored,    \* the cluster's status
    kept,      \* ApplierPositions: the last reading of each applier, by operator
    reports,   \* the Instance Managers report the appliers' positions
    weak,      \* what may fall behind: the appliers, or the copiers of the log
    source,    \* the member whose log each slave copies; None: one that is not modelled
    backlog,   \* slaves with log pages that wait to be applied
    lag,       \* slaves whose source's log ends on a later page than their copy
    changed,   \* what changed on each slave since each memory's reading
    settled,   \* faults are over, and what is weak is stuck for good
    due,       \* once settled: no reconcile since the last tick
    readAge,   \* history: the age of the reading of each slave that the status holds
    recent,    \* history: the last status rests on readings younger than StallWindow
    doubt      \* history: what a reported stall passes over

vars == <<stored, kept, reports, weak, source, backlog, lag, changed, settled, due, readAge, recent, doubt>>

\* Who remembers a reading: an operator, the status, and, as a history, the
\* begin of the stall (of the copy's stop) that the status reports.
Memories == Operators \cup {"status", "stall", "stop"}
Kinds == {"position", "copy", "counter", "applier", "source"}

Replications == [observedAt : 0..(HistoryTTL + WriteInterval + 1), stalledSince : Unset..StallWindow,
                 notReceivingSince : Unset..StallWindow, waiting : BOOLEAN, copied : BOOLEAN]
Readings == [readAt : 0..(HistoryTTL + 1), waiting : BOOLEAN]
Degraded == {"ApplyFailures", "ReplicationStalled", "LogCopyStalled"}
Undecided == {"ReplicationNotObserved", "RolesNotObserved"}
Instances == [role : {"unknown", "master", "slave"}, replication : Replications \cup {None}]
Statuses == [primary : Members \cup {None}, instances : [Members -> Instances],
             replication : Degraded \cup Undecided \cup {"AppliersProgressing"},
             ha : Degraded \cup Undecided \cup {"HealthyReplication", "Unresolved"}]
ASSUME NoneAssumption == None \notin Replications \cup Readings

Init ==
    /\ stored = [primary |-> None, ha |-> "RolesNotObserved", replication |-> "RolesNotObserved",
                 instances |-> [m \in Members |-> [role |-> "unknown", replication |-> None]]]
    /\ kept = [o \in Operators |-> [m \in Members |-> None]]
    /\ weak \in {"applier", "copier"}
    /\ reports \in IF weak = "copier" THEN {TRUE} ELSE BOOLEAN
    /\ source \in [Slaves -> Members \ Slaves]
    /\ backlog = {} /\ lag = {}
    /\ changed = [m \in Slaves |-> [k \in Memories |-> {}]]
    /\ settled = FALSE /\ due = FALSE
    /\ readAge = [m \in Slaves |-> Unset]
    /\ recent = FALSE
    /\ doubt = [m \in Slaves |-> {}]

Differs(memory, m, kind) == kind \in changed[m][memory]

-----------------------------------------------------------------------------
(* The answers of one reconcile.                                           *)

\* observationFromStatus and ProbeRole.  "unknown": no answer, an old one, a
\* refused token, one that contradicts itself or names another member, or one
\* without a role.  A master may report the end of its log, a slave what its
\* applier does; an applier without an identity is taken for the one before.
Answer(role, read, logEnd, failing, identified) ==
    [role |-> role, read |-> read, logEnd |-> logEnd, failing |-> failing, identified |-> identified]
Plain(role) == Answer(role, FALSE, FALSE, FALSE, TRUE)

Answers(m) ==
    LET faulty == IF settled THEN {FALSE} ELSE BOOLEAN
    IN  (IF settled THEN {} ELSE {Plain("unknown")} \cup IF m \in Slaves THEN {Plain("slave"), Plain("master")} ELSE {})
        \cup IF m \in Slaves
             THEN {Answer("slave", TRUE, FALSE, failing, TRUE) : failing \in faulty}
                  \cup {Answer("slave", TRUE, FALSE, FALSE, ~unnamed) : unnamed \in faulty}
             ELSE {Answer("master", FALSE, ~missing, FALSE, TRUE) : missing \in faulty}

authoritative(a) == a.role # "unknown"

\* The one master, when every member's role is known; None otherwise.
resolvePrimary(obs) ==
    LET masters == {m \in Members : obs[m].role = "master"}
    IN  IF (\A m \in Members : authoritative(obs[m])) /\ (\E m \in Members : masters = {m})
        THEN CHOOSE m \in Members : masters = {m} ELSE None

\* withSourceLogEnd: the end of the source's own log was read with this reading.
SourceLogEnd(obs, m) ==
    source[m] # None /\ obs[source[m]].role = "master" /\ obs[source[m]].logEnd

-----------------------------------------------------------------------------
(* The replication of one slave, from this reading and the ones before.    *)

sameApplier(memory, m, a) == ~a.identified \/ ~Differs(memory, m, "applier")

continued(reported, same) ==
    CASE reported = Unset -> Unset
      [] reported # Unset /\ same -> reported
      [] OTHER -> 0

\* Mutant of positionStall: a stall that goes on begins again.
positionStallRestarts(reported, o, m, pos, a) ==
    CASE pos.readAt < CompareInterval -> reported
      [] pos.readAt >= CompareInterval ->
           IF Differs(o, m, "source") \/ Differs(o, m, "position") \/ m \notin backlog THEN Unset
           ELSE IF ~sameApplier(o, m, a) THEN continued(reported, FALSE)
           ELSE IF pos.waiting /\ Differs(o, m, "copy") THEN 0
           ELSE reported

\* The stall by the applier's position, against the reading pos that is kept.
positionStall(reported, o, m, pos, a) ==
    CASE pos.readAt < CompareInterval -> reported
      [] pos.readAt >= CompareInterval ->
           IF Differs(o, m, "source") \/ Differs(o, m, "position") \/ m \notin backlog THEN Unset
           ELSE IF ~sameApplier(o, m, a) THEN continued(reported, FALSE)
           ELSE IF reported = Unset /\ pos.waiting /\ Differs(o, m, "copy") THEN 0
           ELSE reported

\* nextLogCopy: whether the end of the copy is recorded, and since when the
\* copy has not grown.
nextLogCopy(prev, m, logEnd) ==
    LET grew == prev = None \/ Differs("status", m, "source") \/ ~prev.copied \/ Differs("status", m, "copy")
        none == [copied |-> FALSE, since |-> Unset]
    IN  CASE ~reports -> none
          [] reports /\ ~logEnd -> IF grew THEN none ELSE [copied |-> prev.copied, since |-> prev.notReceivingSince]
          [] reports /\ logEnd /\ m \notin lag -> none
          [] OTHER -> [copied |-> TRUE, since |-> CASE grew -> Unset
                                                    [] ~grew /\ prev.notReceivingSince # Unset -> prev.notReceivingSince
                                                    [] OTHER -> 0]

\* Mutant of History: the lag of the stored time is not allowed for.
HistoryUnlagged(prev) == IF prev # None /\ prev.observedAt > HistoryTTL THEN None ELSE prev

\* The status before, while it is young enough to be compared with.
History(prev) == IF prev # None /\ prev.observedAt > HistoryTTL + WriteInterval THEN None ELSE prev

\* The stall of a reading: by the positions, when they are reported, against
\* the operator's memory; else by the counters, against the status.
NextStall(o, m, prev, pos, a) ==
    LET reported == IF prev # None /\ ~Differs("status", m, "source") THEN prev.stalledSince ELSE Unset
        same == prev # None /\ sameApplier("status", m, a)
    IN  CASE reports /\ pos = None -> IF m \in backlog THEN continued(reported, same) ELSE Unset
          [] reports /\ pos # None -> positionStall(reported, o, m, pos, a)
          [] ~reports /\ prev # None /\ ~Differs("status", m, "source") /\ prev.waiting /\ m \in backlog
                      /\ ~Differs("status", m, "counter")
               -> IF reported = Unset /\ same THEN 0 ELSE continued(reported, same)
          [] OTHER -> Unset

nextReplication(o, m, before, pos, a, logEnd) ==
    LET prev == History(before)
        copy == nextLogCopy(prev, m, logEnd)
    IN  IF ~a.read THEN prev
        ELSE [observedAt |-> 0, stalledSince |-> NextStall(o, m, prev, pos, a), waiting |-> m \in backlog,
              copied |-> copy.copied, notReceivingSince |-> copy.since]

\* ApplierPositions.readings.
readings(o) == [m \in Members |-> IF kept[o][m] # None /\ kept[o][m].readAt > HistoryTTL THEN None ELSE kept[o][m]]

\* readingPositions: what the operator keeps for the next reconcile.  A
\* reading without a position is never compared with and is left out.
readingPositions(o, obs) ==
    LET before == readings(o)
    IN  [m \in Members |->
           IF obs[m].role = "master" THEN None
           ELSE IF obs[m].read /\ reports /\ (before[m] = None \/ before[m].readAt >= CompareInterval)
           THEN [readAt |-> 0, waiting |-> m \in backlog]
           ELSE before[m]]

-----------------------------------------------------------------------------
(* The status of one reconcile.                                            *)

instanceStatuses(o, obs) ==
    [m \in Members |->
       [role |-> obs[m].role,
        replication |-> IF obs[m].role # "slave" THEN None
                        ELSE nextReplication(o, m, stored.instances[m].replication, readings(o)[m], obs[m],
                                             SourceLogEnd(obs, m))]]

Passed(since) == since # Unset /\ since >= StallWindow

replicationCondition(instances, obs) ==
    LET slaves  == {m \in Members : instances[m].role = "slave"}
        read    == {m \in slaves : instances[m].replication # None /\ obs[m].read}
        failing == {m \in read : obs[m].failing}
        well    == read \ failing
    IN  CASE failing # {} -> "ApplyFailures"
          [] failing = {} /\ (\E m \in well : Passed(instances[m].replication.stalledSince)) -> "ReplicationStalled"
          [] failing = {} /\ (\A m \in well : ~Passed(instances[m].replication.stalledSince))
                          /\ (\E m \in well : Passed(instances[m].replication.notReceivingSince)) -> "LogCopyStalled"
          [] OTHER -> IF slaves = {} \/ read # slaves THEN "ReplicationNotObserved" ELSE "AppliersProgressing"

replicationDecided(ha) == ha \in {"HealthyReplication"} \cup Degraded

\* Mutant of unreadRecently: missing evidence is held for any time.
unreadRecentlyAlways(instances, obs) == TRUE

unreadRecently(instances, obs) ==
    \A m \in Members : instances[m].role = "slave" /\ ~obs[m].read =>
        instances[m].replication # None /\ instances[m].replication.observedAt < StallWindow

\* On a resolved primary every role is known, so every other member is a slave.
haReadyCondition(primary, instances, obs, replication) ==
    LET hold == replicationDecided(stored.ha) /\ unreadRecently(instances, obs)
    IN  CASE primary = None -> "Unresolved"
          [] primary # None /\ replication \in Degraded -> replication
          [] primary # None /\ replication \notin Degraded ->
               IF Members = {primary} \/ replication = "AppliersProgressing" THEN "HealthyReplication"
               ELSE IF hold THEN stored.ha ELSE replication

Observed(o, obs) ==
    LET primary == resolvePrimary(obs)
        instances == instanceStatuses(o, obs)
        replication == replicationCondition(instances, obs)
    IN  [primary |-> primary, instances |-> instances, replication |-> replication,
         ha |-> haReadyCondition(primary, instances, obs, replication)]

heldTime(was, now) == IF now > was \/ was >= WriteInterval THEN now ELSE was

heldReplication(was, now) ==
    IF was = None \/ now = None THEN now
    ELSE [now EXCEPT !.observedAt = heldTime(was.observedAt, now.observedAt)]

\* holdObservationTimes: the status with the stored times put back.
Held(st) ==
    [st EXCEPT !.instances = [m \in Members |->
        [role |-> st.instances[m].role,
         replication |-> heldReplication(stored.instances[m].replication, st.instances[m].replication)]]]

\* A value that the status holds of a slave is not the one just read.
NewValues(obs) ==
    \E m \in Slaves : obs[m].read /\ (\/ \E kind \in {"counter", "applier", "source"} : Differs("status", m, kind)
                                      \/ Differs("status", m, "copy") /\ stored.instances[m].replication # None
                                                                      /\ stored.instances[m].replication.copied)

\* What is written for a status: the stored times are put back when nothing
\* else differs.  Numbers, and times that are not modelled, may differ at any
\* time.
Written(st, obs) == {st} \cup IF Held(st) = stored /\ ~NewValues(obs) THEN {stored} ELSE {}

-----------------------------------------------------------------------------
(* The reconcile.                                                          *)

Since(r, field) == IF r = None THEN Unset ELSE r[field]

\* Whether this reading of m is the one the operator keeps.
Taken(o, m, obs) == obs[m].read /\ reports /\ (readings(o)[m] = None \/ readings(o)[m].readAt >= CompareInterval)

\* What the histories and memories make of a stored pass.
Noted(o, obs) ==
    LET was(m, field) == Since(stored.instances[m].replication, field)
        now(m, field) == Since(stored'.instances[m].replication, field)
        began(m, field) == now(m, field) = 0 /\ was(m, field) # 0
        fresh(m, memory) == \/ memory = "status" /\ obs[m].read
                            \/ memory = o /\ (Taken(o, m, obs) \/ kept'[o][m] = None)
                            \/ memory = "stall" /\ (began(m, "stalledSince") \/ now(m, "stalledSince") = Unset)
                            \/ memory = "stop" /\ (began(m, "notReceivingSince") \/ now(m, "notReceivingSince") = Unset)
        passed(m) == (IF began(m, "stalledSince") THEN {} ELSE doubt[m] \cap {"uncompared"})
                     \cup (IF obs[m].read /\ reports /\ readings(o)[m] = None THEN {"uncompared"} ELSE {})
                     \cup (IF obs[m].read /\ (reports => Taken(o, m, obs)) /\ changed'[m]["stall"] # {} THEN {"moved"} ELSE {})
                     \cup (IF obs[m].read /\ changed'[m]["stop"] # {} THEN {"grew"} ELSE {})
    IN  /\ changed' = [m \in Slaves |-> [k \in Memories |-> IF fresh(m, k) THEN {} ELSE changed[m][k]]]
        /\ readAge' = [m \in Slaves |-> IF obs[m].read THEN 0
                                        ELSE IF stored'.instances[m].replication = None THEN Unset ELSE readAge[m]]
        /\ recent' = (\A m \in Slaves : readAge'[m] \in 0..(StallWindow - 1))
        /\ doubt' = [m \in Slaves |->
                       (IF now(m, "stalledSince") # Unset THEN passed(m) \ {"grew"} ELSE {})
                       \cup (IF now(m, "notReceivingSince") # Unset THEN passed(m) \cap {"grew"} ELSE {})]

\* Mutant of WriteStatus: the readings are kept although the write fails.
WriteStatusKeepsAnyway(o, st, obs) ==
    \/ /\ stored' \in Written(st, obs)
       /\ kept' = [kept EXCEPT ![o] = readingPositions(o, obs)]
       /\ Noted(o, obs)
    \/ /\ ~settled
       /\ kept' = [kept EXCEPT ![o] = readingPositions(o, obs)]
       /\ changed' = [m \in Slaves |-> IF Taken(o, m, obs) THEN [changed[m] EXCEPT ![o] = {}] ELSE changed[m]]
       /\ UNCHANGED <<stored, readAge, recent, doubt>>

\* writeStatus: the readings are kept once the status they fed is written.  A
\* write that fails, or is refused as a conflict, changes nothing.
WriteStatus(o, st, obs) ==
    /\ stored' \in Written(st, obs)
    /\ kept' = [kept EXCEPT ![o] = readingPositions(o, obs)]
    /\ Noted(o, obs)

\* reconcileHAStatus: every member is asked.
ReconcileHAStatus(o) ==
    /\ \E obs \in {f \in [Members -> UNION {Answers(m) : m \in Members}] : \A m \in Members : f[m] \in Answers(m)} :
         WriteStatus(o, Observed(o, obs), obs)
    /\ due' = FALSE
    /\ UNCHANGED <<reports, weak, source, backlog, lag, settled>>

\* markRolesNotObserved: the reconcile ended before the roles were observed.
markRolesNotObserved ==
    /\ ~settled
    /\ stored' = [stored EXCEPT !.primary = None, !.ha = "RolesNotObserved", !.replication = "RolesNotObserved",
                                !.instances = [m \in Members |->
                                    [role |-> "unknown", replication |-> stored.instances[m].replication]]]
    /\ UNCHANGED <<kept, reports, weak, source, backlog, lag, changed, settled, due, readAge, recent, doubt>>

\* An operator process ends, and with it what it remembers.
Restart(o) ==
    /\ ~settled
    /\ kept' = [kept EXCEPT ![o] = [m \in Members |-> None]]
    /\ changed' = [m \in Slaves |-> [changed[m] EXCEPT ![o] = {}]]
    /\ UNCHANGED <<stored, reports, weak, source, backlog, lag, settled, due, readAge, recent, doubt>>

-----------------------------------------------------------------------------
(* The replication itself, and time.                                       *)

operator == <<stored, kept, reports, weak, readAge, recent, doubt>>

\* Whether a memory holds something of m, and what of it is ever compared.
Holds(memory, m) ==
    CASE memory \in Operators -> kept[memory][m] # None
      [] memory = "status" -> stored.instances[m].replication # None
      [] memory = "stall"  -> Since(stored.instances[m].replication, "stalledSince") # Unset
      [] memory = "stop"   -> Since(stored.instances[m].replication, "notReceivingSince") # Unset

Compared(memory) ==
    CASE memory \in Operators -> {"position", "copy", "applier", "source"}
      [] memory = "status" -> {"applier", "source", IF weak = "copier" THEN "copy" ELSE "counter"}
      [] memory = "stall"  -> {IF reports THEN "position" ELSE "counter"}
      [] memory = "stop"   -> {"copy"}

\* Another source, and then another position, settle what a comparison says.
Telling(memory, kinds) ==
    CASE "source" \in kinds -> {"source"}
      [] "source" \notin kinds /\ memory \in Operators /\ "position" \in kinds -> {"position"}
      [] OTHER -> kinds

Change(m, kinds) ==
    changed' = [changed EXCEPT ![m] = [k \in Memories |->
                  IF Holds(k, m) THEN Telling(k, @[k] \cup (kinds \cap Compared(k))) ELSE @[k]]]

\* The applier advances through an open transaction, or applies one.
Apply(m) ==
    /\ weak = "applier" /\ ~settled
    /\ \E kinds \in {{"position"}, {"position", "counter"}} : Change(m, kinds)
    /\ backlog' \in {backlog, backlog \ {m}}
    /\ UNCHANGED <<operator, source, lag, settled, due>>

\* The copy of the log grows.
Copy(m) ==
    /\ ~(weak = "copier" /\ settled)
    /\ Change(m, {"copy"})
    /\ backlog' \in {backlog} \cup IF weak = "applier" THEN {backlog \cup {m}} ELSE {}
    /\ lag' \in {lag, lag \ {m}}
    /\ UNCHANGED <<operator, source, settled, due>>

\* The source's log comes to another page.
LogGrows(m) ==
    /\ weak = "copier"
    /\ lag' = lag \cup {m}
    /\ UNCHANGED <<operator, source, backlog, changed, settled, due>>

ReplaceApplier(m) ==
    /\ ~settled
    /\ Change(m, {"applier"})
    /\ UNCHANGED <<operator, source, backlog, lag, settled, due>>

SourceChanges(m) ==
    /\ ~settled
    /\ \E n \in (Members \ Slaves) \cup {None} : n # source[m] /\ source' = [source EXCEPT ![m] = n]
    /\ Change(m, Kinds)
    /\ UNCHANGED <<operator, backlog, lag, settled, due>>

\* From now on every member answers and every status is written, and what is
\* weak makes no progress any more.
Settle ==
    /\ ~settled /\ settled' = TRUE
    /\ weak = "copier" => \A m \in Slaves : source[m] # None
    /\ backlog' = IF weak = "applier" THEN Slaves ELSE backlog
    /\ lag' = IF weak = "copier" THEN Slaves ELSE lag
    /\ UNCHANGED <<operator, source, changed, due>>

Older(age, bound) == IF age = Unset \/ age >= bound THEN age ELSE age + 1

Aged(r) ==
    IF r = None THEN None
    ELSE [r EXCEPT !.observedAt = Older(@, HistoryTTL + WriteInterval + 1),
                   !.stalledSince = Older(@, StallWindow), !.notReceivingSince = Older(@, StallWindow)]

\* Time passes; once settled, a reconcile comes before the next tick
\* (haResyncInterval).
Tick ==
    /\ ~due
    /\ due' = settled
    /\ stored' = [stored EXCEPT !.instances = [m \in Members |->
                    [role |-> stored.instances[m].role, replication |-> Aged(stored.instances[m].replication)]]]
    /\ kept' = [o \in Operators |-> [m \in Members |->
                  IF kept[o][m] = None THEN None ELSE [kept[o][m] EXCEPT !.readAt = Older(@, HistoryTTL + 1)]]]
    /\ readAge' = [m \in Slaves |-> Older(readAge[m], HistoryTTL + 1)]
    /\ UNCHANGED <<reports, weak, source, backlog, lag, changed, settled, recent, doubt>>

Next ==
    \/ \E o \in Operators : ReconcileHAStatus(o) \/ Restart(o)
    \/ markRolesNotObserved
    \/ \E m \in Slaves : Apply(m) \/ Copy(m) \/ LogGrows(m) \/ ReplaceApplier(m) \/ SourceChanges(m)
    \/ Settle
    \/ Tick

Spec == Init /\ [][Next]_vars

\* Once faults are over: reconciles go on (ReconcileHAStatus is always enabled,
\* and only it ends due), time passes, and a copier that is not stuck copies.
FairSpec ==
    /\ Spec
    /\ []<>~due
    /\ WF_vars(settled /\ Tick)
    /\ \A m \in Slaves : WF_vars(settled /\ Copy(m))

-----------------------------------------------------------------------------
(* Properties.                                                             *)

TypeOK ==
    /\ stored \in Statuses
    /\ kept \in [Operators -> [Members -> Readings \cup {None}]]
    /\ source \in [Slaves -> Members \cup {None}]
    /\ backlog \subseteq Slaves /\ lag \subseteq Slaves
    /\ changed \in [Slaves -> [Memories -> SUBSET Kinds]]
    /\ {settled, reports, due, recent} \subseteq BOOLEAN
    /\ weak \in {"applier", "copier"}

\* nextReplication, nextLogCopy and writeStatus: a stall that the status reports
\* began with the applier where it is at the last comparison, unless a reading
\* had nothing to be compared with, as after a restart of the operator; and a
\* copy that is reported as not growing has not grown.
StallIsFounded ==
    \A m \in Slaves :
        LET r == stored.instances[m].replication IN
        r # None =>
            /\ r.stalledSince # Unset => "moved" \notin doubt[m] \/ "uncompared" \in doubt[m]
            /\ r.notReceivingSince # Unset => "grew" \notin doubt[m]

\* haReadyCondition and holdObservationTimes: missing evidence never makes
\* HAReady True, and holds it only while the last reading of every slave is
\* younger than replicationStallWindow, although the stored time lags behind.
HAReadyIsRecent == stored.ha = "HealthyReplication" => recent

\* nextReplication: the last reading of a slave that answers lasts for at least
\* replicationHistoryTTL after it was taken.
HistoryIsKept ==
    [][\A m \in Slaves :
          stored.instances[m].replication # None /\ stored'.instances[m].role = "slave"
          /\ stored'.instances[m].replication = None => readAge[m] > HistoryTTL]_vars

\* nextReplication and replicationCondition: once the members answer again, an
\* applier that stays stuck while its copy grows, or a copy that stays stuck
\* while its source's log grows, is reported, whatever happened before.
StallIsReported ==
    <>[](settled => stored.replication \in {"ReplicationStalled", "LogCopyStalled"})
=============================================================================
