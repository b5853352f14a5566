----------------------- MODULE ReplicationHealthProofs -----------------------
(***************************************************************************)
(* What the operator reports of the replication, for any set of members    *)
(* and of operators and any intervals: HAReady rests on recent readings,   *)
(* the last reading of a slave lasts for replicationHistoryTTL, and what   *)
(* is reported as stalled did not move.                                    *)
(***************************************************************************)
EXTENDS ReplicationHealth, TLAPS

\* What the status holds of a slave.
Held0(m) == stored.instances[m].replication

\* The stored time of a reading is not later than the reading, and lags behind it
\* by at most an interval between two writes.
AgeInv ==
    \A m \in Slaves : Held0(m) # None =>
        /\ readAge[m] \in 0..(HistoryTTL + 1)
        /\ readAge[m] <= Held0(m).observedAt /\ Held0(m).observedAt <= readAge[m] + WriteInterval

\* A copy that grew since the stop that the status reports has grown since the
\* last reading.
CopyInv ==
    /\ weak = "applier" =>
         lag = {} /\ \A m \in Slaves : Held0(m) # None => ~Held0(m).copied /\ Held0(m).notReceivingSince = Unset
    /\ weak = "copier" =>
         reports /\ \A m \in Slaves : changed[m]["stop"] # {} => changed[m]["status"] \cap {"copy", "source"} # {}

\* An applier that moved since the stall that the status reports has moved since
\* the last reading, or since the one that an operator keeps, unless a reading had
\* nothing to be compared with.
StallInv ==
    \A m \in Slaves :
        /\ ~reports /\ changed[m]["stall"] # {} => changed[m]["status"] \cap {"counter", "source"} # {}
        /\ \A o \in Operators : reports /\ kept[o][m] # None /\ changed[m]["stall"] # {} =>
             "uncompared" \in doubt[m] \/ changed[m][o] \cap {"position", "source"} # {}

DoubtInv ==
    \A m \in Slaves : "grew" \notin doubt[m] /\ ("moved" \in doubt[m] => "uncompared" \in doubt[m])

\* A slave copies the log of a member that is none.
SourceInv == Slaves # {} => \E m \in Members : m \notin Slaves

IInv == TypeOK /\ AgeInv /\ CopyInv /\ StallInv /\ DoubtInv /\ SourceInv /\ HAReadyIsRecent

-----------------------------------------------------------------------------
(* Times and answers.                                                      *)

\* The intervals are positive, and a history outlives replicationStallWindow.
LEMMA Times ==
    /\ CompareInterval \in Nat /\ WriteInterval \in Nat /\ StallWindow \in Nat /\ HistoryTTL \in Nat
    /\ CompareInterval > 0 /\ WriteInterval > 0 /\ StallWindow > 0 /\ HistoryTTL >= StallWindow
    /\ WriteInterval <= StallWindow
  BY TimesAssumption DEF HistoryTTL

\* Only a member that may replicate answers as a slave, and only it is read.
LEMMA AnswerFacts ==
    ASSUME NEW m \in Members, NEW a \in Answers(m)
    PROVE  /\ a.role \in {"unknown", "master", "slave"}
           /\ a.read \in BOOLEAN /\ a.failing \in BOOLEAN /\ a.identified \in BOOLEAN /\ a.logEnd \in BOOLEAN
           /\ a.read => a.role = "slave" /\ m \in Slaves
           /\ m \notin Slaves => a.role \in {"unknown", "master"}
<1> DEFINE Of(role, read, logEnd, failing, identified) == a = Answer(role, read, logEnd, failing, identified)
<1>1. \/ \E role \in {"unknown", "master"} : Of(role, FALSE, FALSE, FALSE, TRUE) /\ (role = "master" => m \in Slaves)
      \/ m \in Slaves /\ Of("slave", FALSE, FALSE, FALSE, TRUE)
      \/ m \in Slaves /\ \E failing \in BOOLEAN : Of("slave", TRUE, FALSE, failing, TRUE)
      \/ m \in Slaves /\ \E unnamed \in BOOLEAN : Of("slave", TRUE, FALSE, FALSE, ~unnamed)
      \/ m \notin Slaves /\ \E missing \in BOOLEAN : Of("master", FALSE, ~missing, FALSE, TRUE)
  BY Zenon DEF Answers, Plain
<1>2. ASSUME NEW role, NEW read, NEW logEnd, NEW failing, NEW identified,
             Of(role, read, logEnd, failing, identified)
      PROVE  /\ a.role = role /\ a.read = read /\ a.logEnd = logEnd
             /\ a.failing = failing /\ a.identified = identified
  BY <1>2 DEF Answer
<1> HIDE DEF Of
<1> QED
  BY <1>1, <1>2, Zenon

\* The answers of one reconcile.
Asked(obs) == obs \in [Members -> UNION {Answers(m) : m \in Members}] /\ \A m \in Members : obs[m] \in Answers(m)

-----------------------------------------------------------------------------
(* The replication of one slave.                                           *)

\* A history is the status before, and ends only past replicationHistoryTTL and an
\* interval between two writes.
LEMMA HistoryFacts ==
    ASSUME NEW r \in Replications \cup {None}
    PROVE  /\ History(r) \in Replications \cup {None}
           /\ History(r) # None => History(r) = r
           /\ r # None /\ History(r) = None => r.observedAt > HistoryTTL + WriteInterval
  BY DEF History

\* What an operator compares with is what it keeps.
LEMMA ReadingsFacts ==
    ASSUME TypeOK, NEW o \in Operators, NEW m \in Members
    PROVE  /\ readings(o)[m] \in Readings \cup {None}
           /\ readings(o)[m] # None => readings(o)[m] = kept[o][m]
<1>1. readings(o)[m] \in {None, kept[o][m]}
  BY DEF readings
<1>2. kept[o][m] \in Readings \cup {None}
  BY DEF TypeOK
<1> QED
  BY <1>1, <1>2

\* nextLogCopy: a copy is reported as stopped only when neither it nor its source
\* changed since the last reading, and never while the source's log is not ahead.
LEMMA NextLogCopyFacts ==
    ASSUME NEW prev \in Replications \cup {None}, NEW m, NEW logEnd \in BOOLEAN, reports \in BOOLEAN
    PROVE  LET copy == nextLogCopy(prev, m, logEnd) IN
           /\ copy.copied \in BOOLEAN /\ copy.since \in Unset..StallWindow
           /\ copy.since # Unset => ~Differs("status", m, "source") /\ ~Differs("status", m, "copy")
           /\ m \notin lag /\ (prev # None => ~prev.copied) => ~copy.copied /\ copy.since = Unset
<1> DEFINE copy == nextLogCopy(prev, m, logEnd)
           grew == prev = None \/ Differs("status", m, "source") \/ ~prev.copied \/ Differs("status", m, "copy")
           none == [copied |-> FALSE, since |-> Unset]
           since == CASE grew -> Unset
                      [] ~grew /\ prev.notReceivingSince # Unset -> prev.notReceivingSince
                      [] OTHER -> 0
<1>1. Unset \in Unset..StallWindow /\ 0 \in Unset..StallWindow /\ 0 # Unset
  BY Times DEF Unset
<1>2. prev # None => prev.copied \in BOOLEAN /\ prev.notReceivingSince \in Unset..StallWindow
  BY DEF Replications
<1>3. CASE ~reports \/ (logEnd /\ m \notin lag) \/ (~logEnd /\ grew)
  <2>1. copy = none
    BY <1>3, Zenon DEF nextLogCopy
  <2> HIDE DEF copy
  <2>2. copy.copied = FALSE /\ copy.since = Unset
    BY <2>1
  <2> QED
    BY <1>1, <2>2, Zenon DEF copy
<1>4. CASE reports /\ ~logEnd /\ ~grew
  <2>1. copy = [copied |-> prev.copied, since |-> prev.notReceivingSince]
    BY <1>4, Zenon DEF nextLogCopy
  <2> HIDE DEF copy
  <2>2. copy.copied = prev.copied /\ copy.since = prev.notReceivingSince
    BY <2>1
  <2> QED
    BY <1>2, <1>4, <2>2, Zenon DEF copy
<1>5. CASE reports /\ logEnd /\ m \in lag
  <2>1. copy = [copied |-> TRUE, since |-> since]
    BY <1>5, Zenon DEF nextLogCopy
  <2> HIDE DEF copy
  <2>2. copy.copied = TRUE /\ copy.since = since
    BY <2>1
  <2>3. since \in Unset..StallWindow /\ (since # Unset => ~grew)
    BY <1>1, <1>2, Zenon
  <2> QED
    BY <1>5, <2>2, <2>3, Zenon DEF copy
<1> QED
  BY <1>3, <1>4, <1>5, Zenon

\* continued keeps the begin of a stall, or moves it to now.
LEMMA ContinuedFacts ==
    ASSUME NEW reported \in Unset..StallWindow, NEW same
    PROVE  continued(reported, same) \in Unset..StallWindow
<1>1. 0 \in Unset..StallWindow /\ Unset \in Unset..StallWindow
  BY Times DEF Unset
<1>2. continued(reported, same) \in {Unset, reported, 0}
  BY Zenon DEF continued
<1> QED
  BY <1>1, <1>2

\* A stall is reported only when nothing moved since the reading it is compared with.
LEMMA NextStallFacts ==
    ASSUME NEW prev \in Replications \cup {None}, NEW pos \in Readings \cup {None}, NEW o, NEW m, NEW a,
           reports \in BOOLEAN
    PROVE  LET stall == NextStall(o, m, prev, pos, a) IN
           /\ stall \in Unset..StallWindow
           /\ stall # Unset /\ ~reports => ~Differs("status", m, "source") /\ ~Differs("status", m, "counter")
           /\ stall # Unset /\ reports /\ pos # None /\ pos.readAt >= CompareInterval =>
                ~Differs(o, m, "source") /\ ~Differs(o, m, "position")
<1> DEFINE stall == NextStall(o, m, prev, pos, a)
           reported == IF prev # None /\ ~Differs("status", m, "source") THEN prev.stalledSince ELSE Unset
           same == prev # None /\ sameApplier("status", m, a)
<1>1. Unset \in Unset..StallWindow /\ 0 \in Unset..StallWindow
  BY Times DEF Unset
<1>2. reported \in Unset..StallWindow
  BY <1>1 DEF Replications
<1>3. CASE reports /\ pos = None
  <2>1. stall = IF m \in backlog THEN continued(reported, same) ELSE Unset
    BY <1>3, Zenon DEF NextStall
  <2> HIDE DEF reported, same, stall
  <2> QED
    BY <1>1, <1>2, <1>3, <2>1, ContinuedFacts, Zenon DEF stall
<1>4. CASE reports /\ pos # None
  <2>1. stall = positionStall(reported, o, m, pos, a)
    BY <1>4, Zenon DEF NextStall
  <2> HIDE DEF reported, same, stall
  <2>2. pos.readAt \in Nat
    BY <1>4 DEF Readings
  <2>3. CASE pos.readAt < CompareInterval
    <3>1. ~(pos.readAt >= CompareInterval)
      BY <2>2, <2>3, Times
    <3>2. stall = reported
      BY <2>1, <2>3, <3>1, Zenon DEF positionStall
    <3> QED
      BY <1>2, <1>4, <3>1, <3>2, Zenon DEF stall
  <2>4. CASE pos.readAt >= CompareInterval
    <3>1. ~(pos.readAt < CompareInterval)
      BY <2>2, <2>4, Times
    <3>2. stall = IF Differs(o, m, "source") \/ Differs(o, m, "position") \/ m \notin backlog THEN Unset
                  ELSE IF ~sameApplier(o, m, a) THEN continued(reported, FALSE)
                  ELSE IF reported = Unset /\ pos.waiting /\ Differs(o, m, "copy") THEN 0
                  ELSE reported
      BY <2>1, <2>4, <3>1, Zenon DEF positionStall
    <3> QED
      BY <1>1, <1>2, <1>4, <3>2, ContinuedFacts, Zenon DEF stall
  <2> QED
    BY <2>2, <2>3, <2>4, Times
<1>5. CASE ~reports
  <2> DEFINE waits == /\ prev # None /\ ~Differs("status", m, "source") /\ prev.waiting /\ m \in backlog
                      /\ ~Differs("status", m, "counter")
  <2>1. stall = IF waits THEN (IF reported = Unset /\ same THEN 0 ELSE continued(reported, same)) ELSE Unset
    BY <1>5, Zenon DEF NextStall
  <2> HIDE DEF reported, same, stall
  <2> QED
    BY <1>1, <1>2, <1>5, <2>1, ContinuedFacts, Zenon DEF stall
<1> QED
  BY <1>3, <1>4, <1>5, Zenon

\* What a reconcile finds of a member's replication.
New(o, obs, m) == instanceStatuses(o, obs)[m].replication

\* instanceStatuses and nextReplication.
LEMMA NewFacts ==
    ASSUME TypeOK, NEW o \in Operators, NEW obs, Asked(obs), NEW m \in Members
    PROVE  LET prev == History(Held0(m))
               copy == nextLogCopy(prev, m, SourceLogEnd(obs, m))
           IN  /\ obs[m].role # "slave" => New(o, obs, m) = None
               /\ obs[m].role = "slave" /\ ~obs[m].read => New(o, obs, m) = prev
               /\ obs[m].read =>
                    New(o, obs, m) = [observedAt |-> 0, stalledSince |-> NextStall(o, m, prev, readings(o)[m], obs[m]),
                                      waiting |-> m \in backlog, copied |-> copy.copied,
                                      notReceivingSince |-> copy.since]
<1>1. New(o, obs, m) = IF obs[m].role # "slave" THEN None
                       ELSE nextReplication(o, m, Held0(m), readings(o)[m], obs[m], SourceLogEnd(obs, m))
  BY DEF New, instanceStatuses, Held0
<1>2. obs[m].read => obs[m].role = "slave"
  BY AnswerFacts DEF Asked
<1> QED
  BY <1>1, <1>2, Zenon DEF nextReplication

\* Its fields.
LEMMA NewFields ==
    ASSUME TypeOK, NEW o \in Operators, NEW obs, Asked(obs), NEW m \in Members, obs[m].read
    PROVE  LET prev == History(Held0(m))
               copy == nextLogCopy(prev, m, SourceLogEnd(obs, m))
               new == New(o, obs, m)
           IN  /\ new \in Replications /\ new.observedAt = 0
               /\ new.stalledSince = NextStall(o, m, prev, readings(o)[m], obs[m])
               /\ new.copied = copy.copied /\ new.notReceivingSince = copy.since
<1> DEFINE prev == History(Held0(m))
           copy == nextLogCopy(prev, m, SourceLogEnd(obs, m))
           stall == NextStall(o, m, prev, readings(o)[m], obs[m])
           new == New(o, obs, m)
<1>1. Held0(m) \in Replications \cup {None} /\ reports \in BOOLEAN
  BY DEF TypeOK, Statuses, Instances, Held0
<1>2. prev \in Replications \cup {None}
  BY <1>1, HistoryFacts
<1>3. SourceLogEnd(obs, m) \in BOOLEAN
  BY DEF SourceLogEnd
<1>4. copy.copied \in BOOLEAN /\ copy.since \in Unset..StallWindow
  <2> HIDE DEF prev
  <2> QED
    BY <1>1, <1>2, <1>3, NextLogCopyFacts
<1>5. stall \in Unset..StallWindow
  <2> HIDE DEF prev
  <2> QED
    BY <1>1, <1>2, ReadingsFacts, NextStallFacts
<1>6. new = [observedAt |-> 0, stalledSince |-> stall, waiting |-> m \in backlog, copied |-> copy.copied,
             notReceivingSince |-> copy.since]
  BY NewFacts
<1>7. 0 \in 0..(HistoryTTL + WriteInterval + 1)
  BY Times
<1> HIDE DEF prev, copy, stall, new
<1>8. new \in Replications
  BY <1>4, <1>5, <1>6, <1>7 DEF Replications
<1> QED
  BY <1>6, <1>8 DEF prev, copy, stall, new

\* What a reconcile finds is a replication of the status, or none.
LEMMA NewType ==
    ASSUME TypeOK, NEW o \in Operators, NEW obs, Asked(obs), NEW m \in Members
    PROVE  New(o, obs, m) \in Replications \cup {None}
<1>1. Held0(m) \in Replications \cup {None}
  BY DEF TypeOK, Statuses, Instances, Held0
<1>2. obs[m].read => obs[m].role = "slave"
  BY AnswerFacts DEF Asked
<1> QED
  BY <1>1, <1>2, NewFacts, NewFields, HistoryFacts

-----------------------------------------------------------------------------
(* What is written.                                                        *)

\* holdObservationTimes changes nothing but the time of a reading.
LEMMA HeldFacts ==
    ASSUME NEW was \in Replications \cup {None}, NEW now \in Replications \cup {None}
    PROVE  LET held == heldReplication(was, now) IN
           /\ held = None <=> now = None
           /\ now # None =>
                /\ held.stalledSince = now.stalledSince /\ held.notReceivingSince = now.notReceivingSince
                /\ held.copied = now.copied
                /\ \/ held.observedAt = now.observedAt
                   \/ was # None /\ held.observedAt = heldTime(was.observedAt, now.observedAt)
<1> DEFINE held == heldReplication(was, now)
<1>1. CASE was = None \/ now = None
  BY <1>1 DEF heldReplication
<1>2. CASE was # None /\ now # None
  <2>1. held = [now EXCEPT !.observedAt = heldTime(was.observedAt, now.observedAt)]
    BY <1>2 DEF heldReplication
  <2> HIDE DEF held
  <2>2. /\ now = [observedAt |-> now.observedAt, stalledSince |-> now.stalledSince, waiting |-> now.waiting,
                  notReceivingSince |-> now.notReceivingSince, copied |-> now.copied]
        /\ was.observedAt \in 0..(HistoryTTL + WriteInterval + 1)
        /\ now.observedAt \in 0..(HistoryTTL + WriteInterval + 1)
    BY <1>2 DEF Replications
  <2>3. /\ held.stalledSince = now.stalledSince /\ held.notReceivingSince = now.notReceivingSince
        /\ held.copied = now.copied /\ held.observedAt = heldTime(was.observedAt, now.observedAt)
    BY <2>1, <2>2
  <2>4. held \in Replications
    <3>1. heldTime(was.observedAt, now.observedAt) \in 0..(HistoryTTL + WriteInterval + 1)
      BY <2>2 DEF heldTime
    <3> HIDE DEF heldTime
    <3> QED
      BY <1>2, <2>1, <3>1 DEF Replications
  <2> QED
    BY <1>2, <2>3, <2>4, NoneAssumption DEF held
<1> QED
  BY <1>1, <1>2

\* writeStatus: the status that was found, or the stored one when only times differ.
LEMMA WrittenFacts ==
    ASSUME TypeOK, NEW o \in Operators, NEW obs, Asked(obs), stored' \in Written(Observed(o, obs), obs)
    PROVE  /\ stored'.primary = resolvePrimary(obs)
           /\ LET instances == instanceStatuses(o, obs)
                  replication == replicationCondition(instances, obs)
              IN  /\ stored'.replication = replication
                  /\ stored'.ha = haReadyCondition(resolvePrimary(obs), instances, obs, replication)
           /\ stored' = stored \/ stored' = Observed(o, obs)
           /\ \A m \in Members :
                /\ stored'.instances[m].role = obs[m].role
                /\ \/ stored'.instances[m].replication = New(o, obs, m)
                   \/ /\ stored'.instances[m].replication = Held0(m)
                      /\ Held0(m) = heldReplication(Held0(m), New(o, obs, m))
<1> DEFINE instances == instanceStatuses(o, obs)
           replication == replicationCondition(instances, obs)
           ha == haReadyCondition(resolvePrimary(obs), instances, obs, replication)
           st == Observed(o, obs)
<1>1. st = [primary |-> resolvePrimary(obs), instances |-> instances, replication |-> replication, ha |-> ha]
  BY DEF Observed
<1>2. \A m \in Members : instances[m].role = obs[m].role /\ instances[m].replication = New(o, obs, m)
  BY DEF instanceStatuses, New
<1> HIDE DEF instances, replication, ha, st
<1>3. /\ st.primary = resolvePrimary(obs) /\ st.instances = instances
      /\ st.replication = replication /\ st.ha = ha
  BY <1>1
<1>4. CASE stored' = st
  BY <1>2, <1>3, <1>4 DEF instances, replication, ha, st
<1>5. CASE stored' = stored /\ Held(st) = stored
  <2> DEFINE held == [m \in Members |-> [role |-> st.instances[m].role,
                                         replication |-> heldReplication(Held0(m), st.instances[m].replication)]]
  <2>1. stored = [st EXCEPT !.instances = held]
    BY <1>5 DEF Held, Held0
  <2> HIDE DEF held
  <2>2. stored.primary = st.primary /\ stored.replication = st.replication /\ stored.ha = st.ha /\ stored.instances = held
    BY <1>1, <2>1
  <2>3. ASSUME NEW m \in Members
        PROVE  held[m].role = obs[m].role /\ held[m].replication = heldReplication(Held0(m), New(o, obs, m))
    BY <1>2, <1>3 DEF held
  <2>4. \A m \in Members : Held0(m) = held[m].replication
    BY <2>2 DEF Held0
  <2> QED
    BY <1>3, <1>5, <2>2, <2>3, <2>4 DEF instances, replication, ha, Held0
<1> QED
  BY <1>4, <1>5 DEF Written, st

\* So the replication of a member is as it was found, but for its time.
LEMMA NowFacts ==
    ASSUME TypeOK, NEW o \in Operators, NEW obs, Asked(obs), stored' \in Written(Observed(o, obs), obs),
           NEW m \in Members
    PROVE  LET now == stored'.instances[m].replication
               new == New(o, obs, m)
           IN  /\ now \in Replications \cup {None}
               /\ now = None <=> new = None
               /\ new # None => /\ now.stalledSince = new.stalledSince /\ now.copied = new.copied
                                /\ now.notReceivingSince = new.notReceivingSince
               /\ now # None =>
                    \/ now.observedAt = new.observedAt
                    \/ /\ Held0(m) # None /\ now.observedAt = Held0(m).observedAt
                       /\ Held0(m).observedAt = heldTime(Held0(m).observedAt, new.observedAt)
<1> DEFINE now == stored'.instances[m].replication
           new == New(o, obs, m)
<1>1. Held0(m) \in Replications \cup {None}
  BY DEF TypeOK, Statuses, Instances, Held0
<1>2. new \in Replications \cup {None}
  BY NewType
<1>3. now = new \/ (now = Held0(m) /\ Held0(m) = heldReplication(Held0(m), new))
  BY WrittenFacts
<1> HIDE DEF now, new
<1> QED
  BY <1>1, <1>2, <1>3, HeldFacts DEF now, new

\* What a stored pass makes of the age of a slave's reading.
LEMMA NotedAge ==
    ASSUME NEW o \in Operators, NEW obs, Noted(o, obs), NEW m \in Slaves
    PROVE  readAge'[m] = IF obs[m].read THEN 0
                         ELSE IF stored'.instances[m].replication = None THEN Unset ELSE readAge[m]
  BY Zenon DEF Noted

\* An operator that takes no new reading, and keeps one, remembers the changes.
LEMMA NotedMemory ==
    ASSUME NEW o \in Operators, NEW obs, Noted(o, obs), NEW m \in Slaves, NEW q \in Operators,
           ~(q = o /\ Taken(o, m, obs)), kept'[q][m] # None
    PROVE  changed'[m][q] = changed[m][q]
<1>1. q \in Memories /\ q # "status" /\ q # "stall" /\ q # "stop"
  BY MembersAssumption DEF Memories
<1> QED
  BY <1>1, Zenon DEF Noted

\* What it makes of the changes and doubts of a slave.
LEMMA NotedFacts ==
    ASSUME NEW o \in Operators, NEW obs, Noted(o, obs), NEW m \in Slaves
    PROVE  LET now == stored'.instances[m].replication IN
           /\ changed'[m]["status"] = IF obs[m].read THEN {} ELSE changed[m]["status"]
           /\ changed'[m]["stop"] \in {changed[m]["stop"], {}}
           /\ Since(now, "notReceivingSince") = Unset => changed'[m]["stop"] = {} /\ "grew" \notin doubt'[m]
           /\ changed'[m]["stall"] # {} =>
                /\ changed'[m]["stall"] = changed[m]["stall"] /\ Since(now, "stalledSince") # Unset
                /\ "uncompared" \in doubt[m] => "uncompared" \in doubt'[m]
           /\ obs[m].read /\ reports /\ readings(o)[m] = None /\ Since(now, "stalledSince") # Unset =>
                "uncompared" \in doubt'[m]
           /\ "moved" \in doubt'[m] => obs[m].read /\ (reports => Taken(o, m, obs)) /\ changed'[m]["stall"] # {}
           /\ "grew" \in doubt'[m] => obs[m].read /\ changed'[m]["stop"] # {}
<1> DEFINE now == stored'.instances[m].replication
           began(field) == Since(now, field) = 0 /\ Since(stored.instances[m].replication, field) # 0
           fresh(memory) == \/ memory = "status" /\ obs[m].read
                            \/ memory = o /\ (Taken(o, m, obs) \/ kept'[o][m] = None)
                            \/ memory = "stall" /\ (began("stalledSince") \/ Since(now, "stalledSince") = Unset)
                            \/ memory = "stop" /\ (began("notReceivingSince") \/ Since(now, "notReceivingSince") = Unset)
           passed == (IF began("stalledSince") THEN {} ELSE doubt[m] \cap {"uncompared"})
                     \cup (IF obs[m].read /\ reports /\ readings(o)[m] = None THEN {"uncompared"} ELSE {})
                     \cup (IF obs[m].read /\ (reports => Taken(o, m, obs)) /\ changed'[m]["stall"] # {} THEN {"moved"} ELSE {})
                     \cup (IF obs[m].read /\ changed'[m]["stop"] # {} THEN {"grew"} ELSE {})
<1>1. \A k \in Memories : changed'[m][k] = IF fresh(k) THEN {} ELSE changed[m][k]
  BY Zenon DEF Noted
<1>2. doubt'[m] = (IF Since(now, "stalledSince") # Unset THEN passed \ {"grew"} ELSE {})
                  \cup (IF Since(now, "notReceivingSince") # Unset THEN passed \cap {"grew"} ELSE {})
  BY Zenon DEF Noted
<1> HIDE DEF now, began
<1>3. {"status", "stall", "stop"} \subseteq Memories /\ Operators \subseteq Memories /\ o \notin {"status", "stall", "stop"}
  BY MembersAssumption DEF Memories
<1>4. fresh("status") <=> obs[m].read
  BY <1>3
<1>5. fresh("stall") <=> began("stalledSince") \/ Since(now, "stalledSince") = Unset
  BY <1>3
<1>6. fresh("stop") <=> began("notReceivingSince") \/ Since(now, "notReceivingSince") = Unset
  BY <1>3
<1> HIDE DEF fresh
<1>7. changed'[m]["status"] = IF obs[m].read THEN {} ELSE changed[m]["status"]
  BY <1>1, <1>3, <1>4
<1>8. changed'[m]["stop"] \in {changed[m]["stop"], {}} /\ (fresh("stop") => changed'[m]["stop"] = {})
  BY <1>1, <1>3
<1>9. changed'[m]["stall"] # {} => ~fresh("stall") /\ changed'[m]["stall"] = changed[m]["stall"]
  BY <1>1, <1>3
<1>10. changed'[m]["stall"] # {} =>
         /\ Since(now, "stalledSince") # Unset
         /\ "uncompared" \in doubt[m] => "uncompared" \in doubt'[m]
  BY <1>2, <1>5, <1>9
<1>11. obs[m].read /\ reports /\ readings(o)[m] = None /\ Since(now, "stalledSince") # Unset => "uncompared" \in doubt'[m]
  BY <1>2
<1>12. "moved" \in doubt'[m] => obs[m].read /\ (reports => Taken(o, m, obs)) /\ changed'[m]["stall"] # {}
  BY <1>2
<1>13. "grew" \in doubt'[m] => obs[m].read /\ changed'[m]["stop"] # {} /\ Since(now, "notReceivingSince") # Unset
  BY <1>2
<1> HIDE DEF passed
<1> QED
  BY <1>6, <1>7, <1>8, <1>9, <1>10, <1>11, <1>12, <1>13, Zenon DEF now

\* Since when a replication stalls, or its copy stands still.
LEMMA SinceFacts ==
    ASSUME NEW r \in Replications \cup {None}, r # None
    PROVE  Since(r, "stalledSince") = r.stalledSince /\ Since(r, "notReceivingSince") = r.notReceivingSince
  BY DEF Since, Replications

-----------------------------------------------------------------------------
(* A reconcile.                                                            *)

\* The times of a slave's readings.
LEMMA ReconcileAges ==
    ASSUME TypeOK, AgeInv, NEW o \in Operators, NEW obs, Asked(obs), WriteStatus(o, Observed(o, obs), obs)
    PROVE  AgeInv'
<1> SUFFICES ASSUME NEW m \in Slaves, stored'.instances[m].replication # None
             PROVE  LET now == stored'.instances[m].replication IN
                    /\ readAge'[m] \in 0..(HistoryTTL + 1)
                    /\ readAge'[m] <= now.observedAt /\ now.observedAt <= readAge'[m] + WriteInterval
  BY DEF AgeInv, Held0
<1> DEFINE now == stored'.instances[m].replication
           was == Held0(m)
           new == New(o, obs, m)
<1>1. m \in Members /\ stored' \in Written(Observed(o, obs), obs) /\ Noted(o, obs)
  BY MembersAssumption DEF WriteStatus
<1>2. /\ now \in Replications /\ new # None
      /\ \/ now.observedAt = new.observedAt
         \/ was # None /\ now.observedAt = was.observedAt /\ was.observedAt = heldTime(was.observedAt, new.observedAt)
  BY <1>1, NowFacts
<1>3. readAge'[m] = IF obs[m].read THEN 0 ELSE readAge[m]
  BY <1>1, NotedAge
<1>4. was \in Replications \cup {None} /\ now.observedAt \in Nat
  BY <1>1, <1>2, Times DEF TypeOK, Statuses, Instances, Replications, Held0
<1>5. was # None => /\ was.observedAt \in Nat /\ readAge[m] \in 0..(HistoryTTL + 1)
                    /\ readAge[m] <= was.observedAt /\ was.observedAt <= readAge[m] + WriteInterval
  BY <1>4, Times DEF AgeInv, Replications
<1>6. CASE obs[m].read
  <2>1. new.observedAt = 0
    BY <1>1, <1>6, NewFields
  <2> HIDE DEF now, was, new
  <2>2. now.observedAt < WriteInterval
    BY <1>2, <1>5, <2>1, Times DEF heldTime
  <2> QED
    BY <1>3, <1>4, <1>6, <2>2, Times DEF now
<1>7. CASE ~obs[m].read
  <2>1. new = History(was)
    BY <1>1, <1>2, <1>7, NewFacts, AnswerFacts DEF Asked
  <2>2. new = was /\ was # None
    BY <1>2, <1>4, <2>1, HistoryFacts
  <2> HIDE DEF now, was, new
  <2>3. now.observedAt = was.observedAt
    BY <1>2, <2>2
  <2> QED
    BY <1>3, <1>5, <1>7, <2>2, <2>3, Times DEF now
<1> QED
  BY <1>6, <1>7

\* What a reading is compared with: nothing that is reported as stalled moved.
LEMMA Compares ==
    ASSUME TypeOK, CopyInv, StallInv, NEW o \in Operators, NEW obs, Asked(obs), WriteStatus(o, Observed(o, obs), obs),
           NEW m \in Slaves, obs[m].read
    PROVE  LET now == stored'.instances[m].replication IN
           /\ now \in Replications
           /\ ~reports => changed'[m]["stall"] = {}
           /\ reports /\ Taken(o, m, obs) /\ changed'[m]["stall"] # {} => "uncompared" \in doubt'[m]
           /\ weak = "copier" => changed'[m]["stop"] = {}
           /\ weak = "applier" => ~now.copied /\ now.notReceivingSince = Unset
<1> DEFINE now == stored'.instances[m].replication
           prev == History(Held0(m))
           pos == readings(o)[m]
<1>1. m \in Members /\ stored' \in Written(Observed(o, obs), obs) /\ Noted(o, obs) /\ reports \in BOOLEAN
  BY MembersAssumption DEF WriteStatus, TypeOK
<1>2. Held0(m) \in Replications \cup {None} /\ prev \in Replications \cup {None} /\ (prev # None => prev = Held0(m))
  BY <1>1, HistoryFacts DEF TypeOK, Statuses, Instances, Held0
<1>3. /\ now \in Replications /\ now.stalledSince = NextStall(o, m, prev, pos, obs[m])
      /\ now.copied = nextLogCopy(prev, m, SourceLogEnd(obs, m)).copied
      /\ now.notReceivingSince = nextLogCopy(prev, m, SourceLogEnd(obs, m)).since
  <2> DEFINE new == New(o, obs, m)
  <2>1. /\ new \in Replications /\ new.stalledSince = NextStall(o, m, prev, pos, obs[m])
        /\ new.copied = nextLogCopy(prev, m, SourceLogEnd(obs, m)).copied
        /\ new.notReceivingSince = nextLogCopy(prev, m, SourceLogEnd(obs, m)).since
    BY <1>1, NewFields, Zenon
  <2>2. new # None
    BY <2>1, NoneAssumption
  <2>3. /\ now \in Replications \cup {None} /\ now # None
        /\ now.stalledSince = new.stalledSince /\ now.copied = new.copied /\ now.notReceivingSince = new.notReceivingSince
    BY <1>1, <2>2, NowFacts, Zenon
  <2> HIDE DEF now, new, prev, pos
  <2> QED
    BY <2>1, <2>3
<1>4. now # None /\ Since(now, "stalledSince") = now.stalledSince
      /\ Since(now, "notReceivingSince") = now.notReceivingSince
  BY <1>3, SinceFacts, NoneAssumption
<1>5. pos \in Readings \cup {None} /\ (pos # None => kept[o][m] # None)
  BY <1>1, ReadingsFacts
<1>6. SourceLogEnd(obs, m) \in BOOLEAN
  BY DEF SourceLogEnd
<1> HIDE DEF prev
<1>7. ~reports => changed'[m]["stall"] = {}
  <2> SUFFICES ASSUME ~reports, changed'[m]["stall"] # {} PROVE FALSE
    OBVIOUS
  <2>1. changed[m]["stall"] # {} /\ now.stalledSince # Unset
    BY <1>1, <1>4, NotedFacts
  <2>2. ~Differs("status", m, "source") /\ ~Differs("status", m, "counter")
    BY <1>1, <1>2, <1>3, <1>5, <2>1, NextStallFacts
  <2> QED
    BY <2>1, <2>2 DEF StallInv, Differs
<1>8. reports /\ Taken(o, m, obs) /\ changed'[m]["stall"] # {} => "uncompared" \in doubt'[m]
  <2> SUFFICES ASSUME reports, Taken(o, m, obs), changed'[m]["stall"] # {} PROVE "uncompared" \in doubt'[m]
    OBVIOUS
  <2>1. /\ changed[m]["stall"] # {} /\ now.stalledSince # Unset
        /\ "uncompared" \in doubt[m] => "uncompared" \in doubt'[m]
    BY <1>1, <1>4, NotedFacts
  <2>2. CASE pos = None
    BY <1>1, <1>4, <2>1, <2>2, NotedFacts
  <2>3. CASE pos # None
    <3>1. pos.readAt >= CompareInterval
      BY <2>3 DEF Taken
    <3>2. NextStall(o, m, prev, pos, obs[m]) # Unset
      BY <1>3, <2>1
    <3>3. ASSUME NEW x \in Replications \cup {None}, NEW y \in Readings \cup {None},
                 NextStall(o, m, x, y, obs[m]) # Unset, y # None, y.readAt >= CompareInterval
          PROVE  ~Differs(o, m, "source") /\ ~Differs(o, m, "position")
      BY <1>1, <3>3, NextStallFacts
    <3>4. ~Differs(o, m, "source") /\ ~Differs(o, m, "position")
      BY <1>2, <1>5, <2>3, <3>1, <3>2, <3>3
    <3> QED
      BY <1>5, <2>1, <2>3, <3>4 DEF StallInv, Differs
  <2> QED
    BY <2>2, <2>3
<1>9. weak = "copier" => changed'[m]["stop"] = {}
  <2> SUFFICES ASSUME weak = "copier", changed'[m]["stop"] # {} PROVE FALSE
    OBVIOUS
  <2>1. changed[m]["stop"] # {} /\ now.notReceivingSince # Unset
    BY <1>1, <1>4, NotedFacts
  <2>2. ~Differs("status", m, "source") /\ ~Differs("status", m, "copy")
    BY <1>1, <1>2, <1>3, <1>6, <2>1, NextLogCopyFacts
  <2> QED
    BY <2>1, <2>2 DEF CopyInv, Differs
<1>10. weak = "applier" => ~now.copied /\ now.notReceivingSince = Unset
  BY <1>1, <1>2, <1>3, <1>6, NextLogCopyFacts, Zenon DEF CopyInv
<1> QED
  BY <1>3, <1>7, <1>8, <1>9, <1>10

\* What the operator keeps of a slave: this reading, or what it kept before.
LEMMA KeptFacts ==
    ASSUME TypeOK, NEW o \in Operators, NEW obs, Asked(obs), kept' = [kept EXCEPT ![o] = readingPositions(o, obs)]
    PROVE  /\ kept' \in [Operators -> [Members -> Readings \cup {None}]]
           /\ \A q \in Operators \ {o} : kept'[q] = kept[q]
           /\ \A m \in Members : kept'[o][m] # None /\ ~Taken(o, m, obs) => kept'[o][m] = kept[o][m]
<1>1. kept \in [Operators -> [Members -> Readings \cup {None}]]
  BY DEF TypeOK
<1>2. kept'[o] = readingPositions(o, obs)
  BY <1>1
<1>3. ASSUME NEW m \in Members
      PROVE  /\ readingPositions(o, obs)[m] \in Readings \cup {None}
             /\ readingPositions(o, obs)[m] # None /\ ~Taken(o, m, obs) => readingPositions(o, obs)[m] = kept[o][m]
  <2> DEFINE new == [readAt |-> 0, waiting |-> m \in backlog]
  <2>1. readingPositions(o, obs)[m] = IF obs[m].role = "master" THEN None
                                      ELSE IF Taken(o, m, obs) THEN new ELSE readings(o)[m]
    BY Zenon DEF readingPositions, Taken
  <2>2. new \in Readings
    BY Times DEF Readings
  <2> HIDE DEF new
  <2> QED
    BY <2>1, <2>2, ReadingsFacts
<1>4. readingPositions(o, obs) = [m \in Members |-> readingPositions(o, obs)[m]]
  BY DEF readingPositions
<1>5. readingPositions(o, obs) \in [Members -> Readings \cup {None}]
  BY <1>3, <1>4
<1> QED
  BY <1>1, <1>2, <1>3, <1>5

\* A reconcile keeps what is known of the changes.
LEMMA ReconcileHistories ==
    ASSUME IInv, NEW o \in Operators, NEW obs, Asked(obs), WriteStatus(o, Observed(o, obs), obs),
           UNCHANGED <<reports, weak, lag>>
    PROVE  CopyInv' /\ StallInv' /\ DoubtInv'
<1>1. /\ TypeOK /\ CopyInv /\ StallInv /\ stored' \in Written(Observed(o, obs), obs) /\ Noted(o, obs)
      /\ kept' = [kept EXCEPT ![o] = readingPositions(o, obs)]
  BY DEF IInv, WriteStatus
<1>2. CopyInv'
  <2>1. ASSUME weak = "applier", NEW m \in Slaves, stored'.instances[m].replication # None
        PROVE  LET now == stored'.instances[m].replication IN ~now.copied /\ now.notReceivingSince = Unset
    <3>1. CASE obs[m].read
      BY <1>1, <2>1, <3>1, Compares
    <3>2. CASE ~obs[m].read
      <4>1. m \in Members /\ New(o, obs, m) # None
        BY <1>1, <2>1, NowFacts, MembersAssumption
      <4>2. Held0(m) \in Replications \cup {None}
        BY <1>1, <4>1 DEF TypeOK, Statuses, Instances, Held0
      <4>3. New(o, obs, m) = History(Held0(m))
        BY <1>1, <3>2, <4>1, NewFacts, Zenon
      <4>4. Held0(m) # None /\ New(o, obs, m) = Held0(m)
        BY <4>1, <4>2, <4>3, HistoryFacts
      <4> QED
        BY <1>1, <2>1, <4>1, <4>4, NowFacts DEF CopyInv
    <3> QED
      BY <3>1, <3>2
  <2>2. ASSUME weak = "copier", NEW m \in Slaves, changed'[m]["stop"] # {}
        PROVE  changed'[m]["status"] \cap {"copy", "source"} # {}
    <3>1. ~obs[m].read
      BY <1>1, <2>2, Compares
    <3>2. changed'[m]["status"] = changed[m]["status"] /\ changed[m]["stop"] # {}
      BY <1>1, <2>2, <3>1, NotedFacts, Zenon
    <3> QED
      BY <1>1, <2>2, <3>2 DEF CopyInv
  <2> QED
    BY <1>1, <2>1, <2>2 DEF CopyInv, Held0
<1>3. StallInv'
  <2>1. ASSUME NEW m \in Slaves, ~reports, changed'[m]["stall"] # {}
        PROVE  changed'[m]["status"] \cap {"counter", "source"} # {}
    <3>1. ~obs[m].read
      BY <1>1, <2>1, Compares
    <3>2. changed'[m]["status"] = changed[m]["status"] /\ changed[m]["stall"] # {}
      BY <1>1, <2>1, <3>1, NotedFacts, Zenon
    <3> QED
      BY <1>1, <2>1, <3>2 DEF StallInv
  <2>2. ASSUME NEW m \in Slaves, NEW q \in Operators, reports, kept'[q][m] # None, changed'[m]["stall"] # {}
        PROVE  "uncompared" \in doubt'[m] \/ changed'[m][q] \cap {"position", "source"} # {}
    <3>1. CASE q = o /\ Taken(o, m, obs)
      BY <1>1, <2>2, <3>1, Compares DEF Taken
    <3>2. CASE ~(q = o /\ Taken(o, m, obs))
      <4>1. kept[q][m] # None
        BY <1>1, <2>2, <3>2, KeptFacts, MembersAssumption, Zenon
      <4>2. changed'[m][q] = changed[m][q]
        BY <1>1, <2>2, <3>2, NotedMemory, Zenon
      <4>3. changed[m]["stall"] # {} /\ ("uncompared" \in doubt[m] => "uncompared" \in doubt'[m])
        BY <1>1, <2>2, NotedFacts, Zenon
      <4> QED
        BY <1>1, <2>2, <4>1, <4>2, <4>3 DEF StallInv
    <3> QED
      BY <3>1, <3>2
  <2> QED
    BY <2>1, <2>2 DEF StallInv
<1>4. DoubtInv'
  <2> SUFFICES ASSUME NEW m \in Slaves
               PROVE  "grew" \notin doubt'[m] /\ ("moved" \in doubt'[m] => "uncompared" \in doubt'[m])
    BY DEF DoubtInv
  <2>1. ASSUME "moved" \in doubt'[m] PROVE "uncompared" \in doubt'[m]
    <3>1. obs[m].read /\ (reports => Taken(o, m, obs)) /\ changed'[m]["stall"] # {}
      BY <1>1, <2>1, NotedFacts, Zenon
    <3> QED
      BY <1>1, <3>1, Compares, Zenon
  <2>2. ASSUME "grew" \in doubt'[m] PROVE FALSE
    <3> DEFINE now == stored'.instances[m].replication
    <3>1. obs[m].read /\ changed'[m]["stop"] # {} /\ Since(now, "notReceivingSince") # Unset
      BY <1>1, <2>2, NotedFacts, Zenon
    <3>2. weak = "applier" /\ now \in Replications /\ now.notReceivingSince = Unset
      BY <1>1, <3>1, Compares, Zenon DEF TypeOK
    <3> QED
      BY <3>1, <3>2, SinceFacts, NoneAssumption
  <2> QED
    BY <2>1, <2>2
<1> QED
  BY <1>2, <1>3, <1>4

-----------------------------------------------------------------------------
(* The conditions.                                                         *)

\* resolvePrimary: every role is known, and one member is master.
LEMMA PrimaryFacts ==
    ASSUME NEW obs
    PROVE  /\ resolvePrimary(obs) \in Members \cup {None}
           /\ resolvePrimary(obs) # None =>
                /\ \A m \in Members : authoritative(obs[m])
                /\ {m \in Members : obs[m].role = "master"} = {resolvePrimary(obs)}
<1> DEFINE masters == {m \in Members : obs[m].role = "master"}
           known == \A m \in Members : authoritative(obs[m])
<1>1. resolvePrimary(obs) = IF known /\ (\E m \in Members : masters = {m})
                            THEN CHOOSE m \in Members : masters = {m} ELSE None
  BY DEF resolvePrimary
<1> HIDE DEF masters, known
<1>2. resolvePrimary(obs) \in Members \cup {None} /\ (resolvePrimary(obs) # None => known /\ masters = {resolvePrimary(obs)})
  BY <1>1, Zenon
<1> QED
  BY <1>2 DEF masters, known

\* replicationCondition: progress takes a reading of every slave.
LEMMA ConditionFacts ==
    ASSUME NEW instances, NEW obs
    PROVE  LET condition == replicationCondition(instances, obs) IN
           /\ condition \in Degraded \cup {"ReplicationNotObserved", "AppliersProgressing"}
           /\ condition = "AppliersProgressing" => \A m \in Members : instances[m].role = "slave" => obs[m].read
<1> DEFINE slaves  == {m \in Members : instances[m].role = "slave"}
           read    == {m \in slaves : instances[m].replication # None /\ obs[m].read}
           failing == {m \in read : obs[m].failing}
           well    == read \ failing
           last == IF slaves = {} \/ read # slaves THEN "ReplicationNotObserved" ELSE "AppliersProgressing"
           condition == replicationCondition(instances, obs)
<1>1. condition \in Degraded \/ condition = last
  <2> DEFINE stalled == \E m \in well : Passed(instances[m].replication.stalledSince)
             stopped == \E m \in well : Passed(instances[m].replication.notReceivingSince)
             moves == \A m \in well : ~Passed(instances[m].replication.stalledSince)
  <2>1. condition = CASE failing # {} -> "ApplyFailures"
                      [] failing = {} /\ stalled -> "ReplicationStalled"
                      [] failing = {} /\ moves /\ stopped -> "LogCopyStalled"
                      [] OTHER -> last
    BY DEF replicationCondition
  <2> HIDE DEF failing, stalled, stopped, moves, last, condition
  <2> QED
    BY <2>1, Zenon DEF Degraded
<1>2. last = "AppliersProgressing" => \A m \in Members : instances[m].role = "slave" => obs[m].read
  OBVIOUS
<1>3. last \in {"ReplicationNotObserved", "AppliersProgressing"}
  OBVIOUS
<1> HIDE DEF last, condition
<1> QED
  BY <1>1, <1>2, <1>3 DEF condition, Degraded

\* haReadyCondition: True takes progress, or a True that is held.
LEMMA ReadyFacts ==
    ASSUME NEW primary, NEW instances, NEW obs,
           NEW replication \in Degraded \cup {"ReplicationNotObserved", "AppliersProgressing"}
    PROVE  LET ready == haReadyCondition(primary, instances, obs, replication) IN
           /\ ready \in Degraded \cup Undecided \cup {"HealthyReplication", "Unresolved"}
           /\ ready = "HealthyReplication" =>
                /\ primary # None
                /\ \/ Members = {primary} \/ replication = "AppliersProgressing"
                   \/ stored.ha = "HealthyReplication" /\ unreadRecently(instances, obs)
<1> DEFINE ready == haReadyCondition(primary, instances, obs, replication)
           recently == unreadRecently(instances, obs)
           hold == replicationDecided(stored.ha) /\ recently
<1>1. /\ primary = None => ready = "Unresolved"
      /\ primary # None /\ replication \in Degraded => ready = replication
      /\ primary # None /\ replication \notin Degraded =>
           ready = IF Members = {primary} \/ replication = "AppliersProgressing" THEN "HealthyReplication"
                   ELSE IF hold THEN stored.ha ELSE replication
  BY Zenon DEF haReadyCondition
<1> HIDE DEF ready, recently
<1> QED
  BY <1>1 DEF ready, recently, replicationDecided, Degraded, Undecided

\* On a resolved primary every slave answers as one.
LEMMA SlavesAnswer ==
    ASSUME SourceInv, NEW obs, Asked(obs), resolvePrimary(obs) # None, NEW m \in Slaves
    PROVE  obs[m].role = "slave" /\ Members # {resolvePrimary(obs)}
<1>1. PICK n \in Members : n \notin Slaves
  BY DEF SourceInv
<1>2. m \in Members /\ m # n
  BY <1>1, MembersAssumption
<1>3. obs[n].role = "master"
  BY <1>1, AnswerFacts, PrimaryFacts DEF Asked, authoritative
<1>4. n = resolvePrimary(obs)
  BY <1>3, PrimaryFacts
<1>5. obs[m].role # "master"
  BY <1>2, <1>4, PrimaryFacts
<1> QED
  BY <1>2, <1>4, <1>5, AnswerFacts, PrimaryFacts DEF Asked, authoritative

\* HAReady is True on recent readings.
LEMMA ReconcileRecent ==
    ASSUME IInv, NEW o \in Operators, NEW obs, Asked(obs), WriteStatus(o, Observed(o, obs), obs)
    PROVE  HAReadyIsRecent'
<1> SUFFICES ASSUME stored'.ha = "HealthyReplication" PROVE recent'
  BY DEF HAReadyIsRecent
<1> DEFINE primary == resolvePrimary(obs)
           instances == instanceStatuses(o, obs)
           replication == replicationCondition(instances, obs)
<1>1. /\ TypeOK /\ AgeInv /\ SourceInv /\ HAReadyIsRecent
      /\ stored' \in Written(Observed(o, obs), obs) /\ Noted(o, obs)
  BY DEF IInv, WriteStatus
<1>2. recent' = (\A m \in Slaves : readAge'[m] \in 0..(StallWindow - 1))
  BY <1>1, Zenon DEF Noted
<1>3. stored'.ha = haReadyCondition(primary, instances, obs, replication)
  BY <1>1, WrittenFacts, Zenon
<1> HIDE DEF primary, instances, replication
<1>4. replication \in Degraded \cup {"ReplicationNotObserved", "AppliersProgressing"}
  BY ConditionFacts DEF replication
<1>5. /\ primary # None
      /\ \/ Members = {primary} \/ replication = "AppliersProgressing"
         \/ stored.ha = "HealthyReplication" /\ unreadRecently(instances, obs)
  BY <1>3, <1>4, ReadyFacts
<1>6. ASSUME NEW m \in Slaves PROVE readAge'[m] \in 0..(StallWindow - 1)
  <2>1. m \in Members /\ obs[m].role = "slave" /\ Members # {primary} /\ instances[m].role = obs[m].role
    BY <1>1, <1>5, SlavesAnswer, MembersAssumption, Zenon DEF primary, instances, instanceStatuses
  <2>2. CASE obs[m].read
    <3>1. readAge'[m] = 0
      BY <1>1, <2>2, NotedAge, Zenon
    <3> QED
      BY <3>1, Times
  <2>3. CASE ~obs[m].read
    <3>1. replication # "AppliersProgressing"
      BY <2>1, <2>3, ConditionFacts DEF replication
    <3>2. unreadRecently(instances, obs)
      BY <1>5, <2>1, <3>1
    <3>3. instances[m].replication # None /\ instances[m].replication.observedAt < StallWindow
      BY <2>1, <2>3, <3>2 DEF unreadRecently
    <3>4. instances[m].replication = New(o, obs, m) /\ New(o, obs, m) = History(Held0(m))
      BY <1>1, <2>1, <2>3, NewFacts, Zenon DEF New, instances
    <3>5. Held0(m) \in Replications \cup {None}
      BY <1>1, <2>1 DEF TypeOK, Statuses, Instances, Held0
    <3>6. Held0(m) # None /\ Held0(m).observedAt < StallWindow
      BY <3>3, <3>4, <3>5, HistoryFacts
    <3>7. readAge'[m] = readAge[m]
      <4>1. stored'.instances[m].replication # None
        BY <1>1, <2>1, <3>3, <3>4, NowFacts, Zenon
      <4>2. readAge'[m] = IF obs[m].read THEN 0
                          ELSE IF stored'.instances[m].replication = None THEN Unset ELSE readAge[m]
        BY <1>1, NotedAge, Zenon
      <4> QED
        BY <2>3, <4>1, <4>2, Zenon
    <3>8. Held0(m).observedAt \in Nat /\ readAge[m] \in Nat /\ readAge[m] <= Held0(m).observedAt
      BY <1>1, <3>5, <3>6, Times DEF AgeInv, Replications
    <3>9. ASSUME NEW age \in Nat, NEW at \in Nat, age <= at, at < StallWindow PROVE age \in 0..(StallWindow - 1)
      BY <3>9, Times
    <3> QED
      BY <3>6, <3>7, <3>8, <3>9, Zenon
  <2> QED
    BY <2>2, <2>3
<1> QED
  BY <1>2, <1>6

\* Its status, and what it keeps, are of their types.
LEMMA ReconcileType ==
    ASSUME IInv, NEW o \in Operators, ReconcileHAStatus(o), NEW obs, Asked(obs), WriteStatus(o, Observed(o, obs), obs)
    PROVE  TypeOK'
<1> DEFINE primary == resolvePrimary(obs)
           instances == instanceStatuses(o, obs)
           replication == replicationCondition(instances, obs)
           ha == haReadyCondition(primary, instances, obs, replication)
<1>1. /\ TypeOK /\ stored' \in Written(Observed(o, obs), obs) /\ Noted(o, obs)
      /\ kept' = [kept EXCEPT ![o] = readingPositions(o, obs)]
  BY DEF IInv, WriteStatus
<1>2. Observed(o, obs) \in Statuses
  <2>1. Observed(o, obs) = [primary |-> primary, instances |-> instances, replication |-> replication, ha |-> ha]
    BY DEF Observed
  <2>2. instances = [m \in Members |-> [role |-> obs[m].role, replication |-> New(o, obs, m)]]
    BY Zenon DEF New, instanceStatuses
  <2> HIDE DEF primary, instances, replication, ha
  <2>3. replication \in Degraded \cup {"ReplicationNotObserved", "AppliersProgressing"}
    BY ConditionFacts DEF replication
  <2>4. ha \in Degraded \cup Undecided \cup {"HealthyReplication", "Unresolved"}
    BY <2>3, ReadyFacts DEF ha
  <2>5. primary \in Members \cup {None}
    BY PrimaryFacts DEF primary
  <2>6. ASSUME NEW m \in Members PROVE [role |-> obs[m].role, replication |-> New(o, obs, m)] \in Instances
    <3>1. obs[m].role \in {"unknown", "master", "slave"} /\ New(o, obs, m) \in Replications \cup {None}
      BY <1>1, NewType, AnswerFacts DEF Asked
    <3> QED
      BY <3>1 DEF Instances
  <2>7. instances \in [Members -> Instances]
    BY <2>2, <2>6
  <2>8. replication \in Degraded \cup Undecided \cup {"AppliersProgressing"}
    BY <2>3 DEF Undecided
  <2> QED
    BY <2>1, <2>4, <2>5, <2>7, <2>8 DEF Statuses
<1>3. stored' \in Statuses
  BY <1>1, <1>2, WrittenFacts, Zenon DEF TypeOK
<1>4. changed' \in [Slaves -> [Memories -> SUBSET Kinds]]
  <2>1. changed' = [m \in Slaves |-> [k \in Memories |-> changed'[m][k]]]
    BY <1>1, Zenon DEF Noted
  <2>2. \A m \in Slaves, k \in Memories : changed'[m][k] = {} \/ changed'[m][k] = changed[m][k]
    BY <1>1, Zenon DEF Noted
  <2>3. \A m \in Slaves, k \in Memories : changed'[m][k] \in SUBSET Kinds
    BY <1>1, <2>2, Zenon DEF TypeOK
  <2> QED
    BY <2>1, <2>3, Zenon
<1>5. kept' \in [Operators -> [Members -> Readings \cup {None}]]
  BY <1>1, KeptFacts, Zenon
<1>6. recent' \in BOOLEAN /\ due' \in BOOLEAN
  BY <1>1, Zenon DEF Noted, ReconcileHAStatus
<1> QED
  BY <1>1, <1>3, <1>4, <1>5, <1>6, Zenon DEF TypeOK, ReconcileHAStatus

\* A reconcile keeps the invariant.
LEMMA ReconcileStep ==
    ASSUME IInv, NEW o \in Operators, ReconcileHAStatus(o)
    PROVE  IInv'
<1>1. PICK obs : Asked(obs) /\ WriteStatus(o, Observed(o, obs), obs)
  BY Zenon DEF ReconcileHAStatus, Asked
<1>2. UNCHANGED <<reports, weak, lag>> /\ TypeOK /\ AgeInv
  BY DEF ReconcileHAStatus, IInv
<1>3. CopyInv' /\ StallInv' /\ DoubtInv'
  BY <1>1, <1>2, ReconcileHistories
<1>4. TypeOK' /\ AgeInv' /\ HAReadyIsRecent'
  BY <1>1, <1>2, ReconcileType, ReconcileAges, ReconcileRecent
<1> QED
  BY <1>3, <1>4 DEF IInv, SourceInv

\* nextReplication gives up a reading only when its history is over.
LEMMA ReconcileKeeps ==
    ASSUME IInv, NEW o \in Operators, ReconcileHAStatus(o), NEW m \in Slaves, Held0(m) # None,
           stored'.instances[m].role = "slave", stored'.instances[m].replication = None
    PROVE  readAge[m] > HistoryTTL
<1>1. PICK obs : Asked(obs) /\ WriteStatus(o, Observed(o, obs), obs)
  BY Zenon DEF ReconcileHAStatus, Asked
<1>2. TypeOK /\ AgeInv /\ stored' \in Written(Observed(o, obs), obs) /\ m \in Members
  BY <1>1, MembersAssumption DEF IInv, WriteStatus
<1>3. obs[m].role = "slave" /\ New(o, obs, m) = None
  BY <1>1, <1>2, WrittenFacts, NowFacts, Zenon
<1>4. ~obs[m].read
  BY <1>1, <1>2, <1>3, NewFields, NoneAssumption, Zenon
<1>5. Held0(m) \in Replications \cup {None} /\ History(Held0(m)) = None
  BY <1>1, <1>2, <1>3, <1>4, NewFacts, Zenon DEF TypeOK, Statuses, Instances, Held0
<1>6. Held0(m).observedAt > HistoryTTL + WriteInterval
  BY <1>5, HistoryFacts, Zenon
<1>7. Held0(m).observedAt \in Nat /\ readAge[m] \in Nat /\ Held0(m).observedAt <= readAge[m] + WriteInterval
  BY <1>2, <1>5, Times DEF AgeInv, Replications
<1> QED
  BY <1>6, <1>7, Times

-----------------------------------------------------------------------------
(* The other steps.                                                        *)

\* markRolesNotObserved leaves the readings as they are.
LEMMA MarkStep ==
    ASSUME IInv, markRolesNotObserved
    PROVE  IInv'
<1> DEFINE instances == [m \in Members |-> [role |-> "unknown", replication |-> Held0(m)]]
<1>1. stored' = [stored EXCEPT !.primary = None, !.ha = "RolesNotObserved", !.replication = "RolesNotObserved",
                               !.instances = instances]
  BY DEF markRolesNotObserved, Held0
<1>2. stored \in Statuses /\ instances \in [Members -> Instances]
  BY DEF IInv, TypeOK, Statuses, Instances, Held0
<1> HIDE DEF instances
<1>3. stored' = [primary |-> None, instances |-> instances, replication |-> "RolesNotObserved", ha |-> "RolesNotObserved"]
  BY <1>1, <1>2, Zenon DEF Statuses
<1>4. stored' \in Statuses
  BY <1>2, <1>3 DEF Statuses, Undecided
<1>5. \A m \in Slaves : stored'.instances[m].replication = Held0(m)
  BY <1>3, MembersAssumption DEF instances
<1>6. stored'.ha # "HealthyReplication"
  BY <1>3
<1>7. TypeOK'
  BY <1>4 DEF IInv, TypeOK, markRolesNotObserved
<1>8. AgeInv' /\ CopyInv'
  BY <1>5 DEF IInv, AgeInv, CopyInv, Held0, markRolesNotObserved
<1>9. StallInv' /\ DoubtInv'
  BY DEF IInv, StallInv, DoubtInv, markRolesNotObserved
<1> QED
  BY <1>6, <1>7, <1>8, <1>9 DEF IInv, SourceInv, HAReadyIsRecent

\* A restarted operator has nothing to compare with.
LEMMA RestartStep ==
    ASSUME IInv, NEW o \in Operators, Restart(o)
    PROVE  IInv'
<1>1. /\ kept \in [Operators -> [Members -> Readings \cup {None}]]
      /\ changed \in [Slaves -> [Memories -> SUBSET Kinds]]
      /\ kept' = [kept EXCEPT ![o] = [m \in Members |-> None]]
      /\ changed' = [m \in Slaves |-> [changed[m] EXCEPT ![o] = {}]]
  BY DEF IInv, TypeOK, Restart
<1>2. Operators \subseteq Memories /\ {"status", "stall", "stop"} \subseteq Memories /\ o \notin {"status", "stall", "stop"}
  BY MembersAssumption DEF Memories
<1>3. \A m \in Members : kept'[o][m] = None
  BY <1>1
<1>4. \A q \in Operators \ {o} : kept'[q] = kept[q]
  BY <1>1
<1>5. \A m \in Slaves, k \in Memories \ {o} : changed'[m][k] = changed[m][k]
  BY <1>1
<1>6. TypeOK'
  <2>1. kept' \in [Operators -> [Members -> Readings \cup {None}]]
    BY <1>1
  <2>2. changed' \in [Slaves -> [Memories -> SUBSET Kinds]]
    BY <1>1, Zenon
  <2> QED
    BY <2>1, <2>2 DEF IInv, TypeOK, Restart
<1>7. AgeInv' /\ DoubtInv' /\ HAReadyIsRecent'
  BY DEF IInv, AgeInv, DoubtInv, HAReadyIsRecent, Held0, Restart
<1>8. CopyInv'
  BY <1>2, <1>5 DEF IInv, CopyInv, Held0, Restart
<1>9. StallInv'
  BY <1>2, <1>3, <1>4, <1>5, MembersAssumption DEF IInv, StallInv, Restart
<1> QED
  BY <1>6, <1>7, <1>8, <1>9 DEF IInv, SourceInv

\* What tells a change is not lost.
LEMMA TellingFacts ==
    ASSUME NEW k \in Memories, NEW s \in SUBSET Kinds
    PROVE  /\ Telling(k, s) \in SUBSET Kinds
           /\ s = {} => Telling(k, s) = {}
           /\ "source" \in s => "source" \in Telling(k, s)
           /\ "position" \in s => Telling(k, s) \cap {"position", "source"} # {}
           /\ k \notin Operators => \A kind \in s : Telling(k, s) \cap {kind, "source"} # {}
<1>1. CASE "source" \in s
  BY <1>1, Zenon DEF Telling, Kinds
<1>2. CASE "source" \notin s /\ k \in Operators /\ "position" \in s
  <2>1. Telling(k, s) = {"position"}
    BY <1>2, Zenon DEF Telling
  <2> QED
    BY <1>2, <2>1 DEF Kinds
<1>3. CASE "source" \notin s /\ ~(k \in Operators /\ "position" \in s)
  <2>1. Telling(k, s) = s
    BY <1>3, Zenon DEF Telling
  <2> QED
    BY <1>3, <2>1
<1> QED
  BY <1>1, <1>2, <1>3

\* What a change of the replication of m does to the memories.
LEMMA ChangeFacts ==
    ASSUME TypeOK, NEW m \in Slaves, NEW kinds \in SUBSET Kinds, Change(m, kinds)
    PROVE  /\ changed' \in [Slaves -> [Memories -> SUBSET Kinds]]
           /\ \A n \in Slaves \ {m} : changed'[n] = changed[n]
           /\ \A k \in Memories : changed'[m][k] =
                IF Holds(k, m) THEN Telling(k, changed[m][k] \cup (kinds \cap Compared(k))) ELSE changed[m][k]
<1> DEFINE new == [k \in Memories |->
              IF Holds(k, m) THEN Telling(k, changed[m][k] \cup (kinds \cap Compared(k))) ELSE changed[m][k]]
<1>1. changed \in [Slaves -> [Memories -> SUBSET Kinds]]
  BY DEF TypeOK
<1>2. changed' = [changed EXCEPT ![m] = new]
  BY Zenon DEF Change
<1>3. new \in [Memories -> SUBSET Kinds]
  <2>1. ASSUME NEW k \in Memories PROVE Telling(k, changed[m][k] \cup (kinds \cap Compared(k))) \in SUBSET Kinds
    <3>1. changed[m][k] \cup (kinds \cap Compared(k)) \in SUBSET Kinds
      BY <1>1
    <3> QED
      BY <3>1, TellingFacts
  <2> QED
    BY <1>1, <2>1
<1>4. \A k \in Memories : new[k] =
        IF Holds(k, m) THEN Telling(k, changed[m][k] \cup (kinds \cap Compared(k))) ELSE changed[m][k]
  BY Zenon
<1> HIDE DEF new
<1>5. changed'[m] = new /\ changed' \in [Slaves -> [Memories -> SUBSET Kinds]]
      /\ \A n \in Slaves \ {m} : changed'[n] = changed[n]
  BY <1>1, <1>2, <1>3
<1> QED
  BY <1>4, <1>5, Zenon

\* What is held of a slave, by each memory.
LEMMA HoldsFacts ==
    ASSUME NEW m \in Slaves
    PROVE  /\ Holds("status", m) <=> Held0(m) # None
           /\ Holds("stall", m) => Holds("status", m)
           /\ Holds("stop", m) => Holds("status", m)
           /\ \A o \in Operators : Holds(o, m) <=> kept[o][m] # None
           /\ Compared("stall") = {IF reports THEN "position" ELSE "counter"}
           /\ Compared("stop") = {"copy"}
           /\ Compared("status") = {"applier", "source", IF weak = "copier" THEN "copy" ELSE "counter"}
           /\ \A o \in Operators : "position" \in Compared(o)
<1>1. "status" \notin Operators /\ "stall" \notin Operators /\ "stop" \notin Operators
  BY MembersAssumption
<1>2. "status" # "stall" /\ "status" # "stop" /\ "stall" # "stop"
  OBVIOUS
<1>3. /\ Holds("status", m) <=> Held0(m) # None
      /\ Holds("stall", m) <=> Since(Held0(m), "stalledSince") # Unset
      /\ Holds("stop", m) <=> Since(Held0(m), "notReceivingSince") # Unset
  BY <1>1, <1>2, Zenon DEF Holds, Held0
<1>4. \A o \in Operators : Holds(o, m) <=> kept[o][m] # None
  BY <1>1, Zenon DEF Holds
<1>5. Compared("stall") = {IF reports THEN "position" ELSE "counter"} /\ Compared("stop") = {"copy"}
      /\ Compared("status") = {"applier", "source", IF weak = "copier" THEN "copy" ELSE "counter"}
  BY <1>1, <1>2, Zenon DEF Compared
<1>6. \A o \in Operators : Compared(o) = {"position", "copy", "applier", "source"}
  BY <1>1, Zenon DEF Compared
<1> QED
  BY <1>3, <1>4, <1>5, <1>6, Zenon DEF Since

\* What a slave's replication does keeps the invariant: a memory that is compared
\* with sees what the stall, or the stop, that the status reports sees.
LEMMA ChangeStep ==
    ASSUME IInv, NEW m \in Slaves, NEW kinds \in SUBSET Kinds, Change(m, kinds), UNCHANGED operator,
           source' \in [Slaves -> Members \cup {None}], backlog' \subseteq Slaves, lag' \subseteq lag,
           UNCHANGED <<settled, due>>
    PROVE  IInv'
<1>1. /\ changed' \in [Slaves -> [Memories -> SUBSET Kinds]]
      /\ \A n \in Slaves \ {m} : changed'[n] = changed[n]
      /\ \A k \in Memories : changed'[m][k] =
           IF Holds(k, m) THEN Telling(k, changed[m][k] \cup (kinds \cap Compared(k))) ELSE changed[m][k]
  BY ChangeFacts, Zenon DEF IInv
<1>2. UNCHANGED <<stored, kept, reports, weak, readAge, recent, doubt>>
  BY DEF operator
<1>3. {"status", "stall", "stop"} \subseteq Memories /\ Operators \subseteq Memories
      /\ \A k \in {"status", "stall", "stop"} : k \notin Operators
  BY MembersAssumption DEF Memories
<1>4. \A k \in Memories : changed[m][k] \in SUBSET Kinds /\ changed[m][k] \cup (kinds \cap Compared(k)) \in SUBSET Kinds
  BY DEF IInv, TypeOK
<1>5. ASSUME NEW k \in Memories, k \notin Operators, NEW kind, changed[m][k] \cap {kind, "source"} # {}
      PROVE  changed'[m][k] \cap {kind, "source"} # {}
  <2>1. CASE ~Holds(k, m)
    BY <1>1, <1>5, <2>1, Zenon
  <2>2. CASE Holds(k, m)
    <3>1. PICK x \in {kind, "source"} : x \in changed[m][k] \cup (kinds \cap Compared(k))
      BY <1>5
    <3>2. Telling(k, changed[m][k] \cup (kinds \cap Compared(k))) \cap {x, "source"} # {}
      BY <1>4, <1>5, <3>1, TellingFacts
    <3> QED
      BY <1>1, <2>2, <3>1, <3>2
  <2> QED
    BY <2>1, <2>2
<1>6. ASSUME NEW k \in Memories, k \notin Operators, NEW kind \in kinds, Holds(k, m), kind \in Compared(k)
      PROVE  changed'[m][k] \cap {kind, "source"} # {}
  <2>1. kind \in changed[m][k] \cup (kinds \cap Compared(k))
    BY <1>6, Zenon
  <2>2. Telling(k, changed[m][k] \cup (kinds \cap Compared(k))) \cap {kind, "source"} # {}
    BY <1>4, <1>6, <2>1, TellingFacts, Zenon
  <2> QED
    BY <1>1, <1>6, <2>2
<1>7. ASSUME NEW k \in Memories, changed'[m][k] # {}
      PROVE  changed[m][k] # {} \/ (Holds(k, m) /\ \E kind \in kinds : kind \in Compared(k))
  <2>1. CASE ~Holds(k, m)
    <3>1. changed'[m][k] = changed[m][k]
      BY <1>1, <2>1, Zenon
    <3> QED
      BY <1>7, <3>1, Zenon
  <2>2. CASE Holds(k, m)
    <3>1. changed[m][k] \cup (kinds \cap Compared(k)) # {}
      BY <1>1, <1>4, <1>7, <2>2, TellingFacts, Zenon
    <3>2. changed[m][k] # {} \/ \E kind \in kinds : kind \in Compared(k)
      BY <3>1
    <3> QED
      BY <2>2, <3>2, Zenon
  <2> QED
    BY <2>1, <2>2, Zenon
<1>8. ASSUME NEW o \in Operators, kept[o][m] # None,
             changed[m][o] \cap {"position", "source"} # {} \/ "position" \in kinds
      PROVE  changed'[m][o] \cap {"position", "source"} # {}
  <2> DEFINE s == changed[m][o] \cup (kinds \cap Compared(o))
  <2>1. Holds(o, m) /\ "position" \in Compared(o)
    BY <1>8, HoldsFacts
  <2>2. s \in SUBSET Kinds /\ s \cap {"position", "source"} # {}
    BY <1>3, <1>4, <1>8, <2>1
  <2>3. changed'[m][o] = Telling(o, s)
    BY <1>1, <1>3, <2>1
  <2> HIDE DEF s
  <2>4. "source" \in s => "source" \in Telling(o, s)
    BY <1>3, <2>2, TellingFacts
  <2>5. "position" \in s => Telling(o, s) \cap {"position", "source"} # {}
    BY <1>3, <2>2, TellingFacts
  <2> QED
    BY <2>2, <2>3, <2>4, <2>5
<1>9. TypeOK'
  BY <1>1, <1>2, Zenon DEF IInv, TypeOK
<1>10. AgeInv' /\ DoubtInv' /\ HAReadyIsRecent'
  BY <1>2, Zenon DEF IInv, AgeInv, DoubtInv, HAReadyIsRecent, Held0
<1>11. CopyInv'
  <2>1. weak = "copier" /\ changed'[m]["stop"] # {} => changed'[m]["status"] \cap {"copy", "source"} # {}
    <3> SUFFICES ASSUME weak = "copier", changed'[m]["stop"] # {}
                 PROVE  changed'[m]["status"] \cap {"copy", "source"} # {}
      OBVIOUS
    <3>1. CASE changed[m]["stop"] # {}
      <4>1. changed[m]["status"] \cap {"copy", "source"} # {}
        BY <3>1 DEF IInv, CopyInv
      <4> QED
        BY <1>3, <1>5, <4>1
    <3>2. CASE Holds("stop", m) /\ \E kind \in kinds : kind \in Compared("stop")
      <4>1. "copy" \in kinds /\ Holds("status", m) /\ "copy" \in Compared("status")
        BY <3>2, HoldsFacts
      <4> QED
        BY <1>3, <1>6, <4>1
    <3> QED
      BY <1>3, <1>7, <3>1, <3>2
  <2>2. weak = "applier" => lag' = {}
    BY DEF IInv, CopyInv
  <2> QED
    BY <1>1, <1>2, <2>1, <2>2, Zenon DEF IInv, CopyInv, Held0
<1>12. StallInv'
  <2>1. ~reports /\ changed'[m]["stall"] # {} => changed'[m]["status"] \cap {"counter", "source"} # {}
    <3> SUFFICES ASSUME ~reports, changed'[m]["stall"] # {}
                 PROVE  changed'[m]["status"] \cap {"counter", "source"} # {}
      OBVIOUS
    <3>1. CASE changed[m]["stall"] # {}
      <4>1. changed[m]["status"] \cap {"counter", "source"} # {}
        BY <3>1 DEF IInv, StallInv
      <4> QED
        BY <1>3, <1>5, <4>1
    <3>2. CASE Holds("stall", m) /\ \E kind \in kinds : kind \in Compared("stall")
      <4>1. weak # "copier"
        BY DEF IInv, CopyInv
      <4>2. "counter" \in kinds /\ Holds("status", m) /\ "counter" \in Compared("status")
        BY <3>2, <4>1, HoldsFacts
      <4> QED
        BY <1>3, <1>6, <4>2
    <3> QED
      BY <1>3, <1>7, <3>1, <3>2, Zenon
  <2>2. ASSUME NEW o \in Operators, reports, kept[o][m] # None, changed'[m]["stall"] # {}
        PROVE  "uncompared" \in doubt[m] \/ changed'[m][o] \cap {"position", "source"} # {}
    <3>1. CASE changed[m]["stall"] # {}
      BY <1>8, <2>2, <3>1 DEF IInv, StallInv
    <3>2. CASE Holds("stall", m) /\ \E kind \in kinds : kind \in Compared("stall")
      <4>1. "position" \in kinds
        BY <2>2, <3>2, HoldsFacts
      <4> QED
        BY <1>8, <2>2, <4>1
    <3> QED
      BY <1>3, <1>7, <2>2, <3>1, <3>2, Zenon
  <2> QED
    BY <1>1, <1>2, <2>1, <2>2, Zenon DEF IInv, StallInv
<1> QED
  BY <1>9, <1>10, <1>11, <1>12 DEF IInv, SourceInv

\* The applier, the copy of the log and its source.
LEMMA SlaveStep ==
    ASSUME IInv, NEW m \in Slaves, Apply(m) \/ Copy(m) \/ ReplaceApplier(m) \/ SourceChanges(m)
    PROVE  IInv'
<1>1. /\ source \in [Slaves -> Members \cup {None}] /\ backlog \subseteq Slaves
      /\ {{"position"}, {"position", "counter"}, {"copy"}, {"applier"}, Kinds} \subseteq SUBSET Kinds
  BY DEF IInv, TypeOK, Kinds
<1>2. CASE Apply(m)
  <2>1. PICK kinds \in SUBSET Kinds : Change(m, kinds)
    BY <1>1, <1>2 DEF Apply
  <2>2. backlog' \subseteq Slaves /\ UNCHANGED <<operator, source, lag, settled, due>>
    BY <1>1, <1>2 DEF Apply
  <2> QED
    BY <1>1, <2>1, <2>2, ChangeStep
<1>3. CASE Copy(m)
  <2>1. backlog' \subseteq Slaves /\ lag' \subseteq lag /\ UNCHANGED <<operator, source, settled, due>>
    BY <1>1, <1>3 DEF Copy
  <2>2. Change(m, {"copy"})
    BY <1>3 DEF Copy
  <2> QED
    BY <1>1, <2>1, <2>2, ChangeStep
<1>4. CASE ReplaceApplier(m)
  <2>1. Change(m, {"applier"}) /\ UNCHANGED <<operator, source, backlog, lag, settled, due>>
    BY <1>4 DEF ReplaceApplier
  <2> QED
    BY <1>1, <2>1, ChangeStep
<1>5. CASE SourceChanges(m)
  <2>1. source' \in [Slaves -> Members \cup {None}]
    BY <1>1, <1>5 DEF SourceChanges
  <2>2. Change(m, Kinds) /\ UNCHANGED <<operator, backlog, lag, settled, due>>
    BY <1>5 DEF SourceChanges
  <2> QED
    BY <1>1, <2>1, <2>2, ChangeStep
<1> QED
  BY <1>2, <1>3, <1>4, <1>5

\* The logs of the sources grow, and faults come to an end.
LEMMA LogStep ==
    ASSUME IInv, Settle \/ \E m \in Slaves : LogGrows(m)
    PROVE  IInv'
<1>1. UNCHANGED <<stored, kept, reports, weak, readAge, recent, doubt, source, changed, due>>
  BY DEF Settle, LogGrows, operator
<1>2. backlog' \subseteq Slaves /\ lag' \subseteq Slaves /\ settled' \in BOOLEAN
      /\ (weak = "applier" => lag' = lag)
  BY Zenon DEF Settle, LogGrows, IInv, TypeOK
<1>3. TypeOK'
  BY <1>1, <1>2, Zenon DEF IInv, TypeOK
<1>4. AgeInv' /\ CopyInv' /\ StallInv' /\ DoubtInv' /\ HAReadyIsRecent'
  BY <1>1, <1>2, Zenon DEF IInv, AgeInv, CopyInv, StallInv, DoubtInv, HAReadyIsRecent, Held0
<1> QED
  BY <1>3, <1>4 DEF IInv, SourceInv

\* A reading and the times that it holds, one tick later.
LEMMA AgedFacts ==
    ASSUME NEW r \in Replications \cup {None}
    PROVE  /\ Aged(r) \in Replications \cup {None}
           /\ Aged(r) = None <=> r = None
           /\ r # None => /\ Aged(r).observedAt = Older(r.observedAt, HistoryTTL + WriteInterval + 1)
                          /\ Aged(r).copied = r.copied
                          /\ r.notReceivingSince = Unset => Aged(r).notReceivingSince = Unset
<1>1. CASE r = None
  BY <1>1, Zenon DEF Aged
<1>2. CASE r # None
  <2> DEFINE at == Older(r.observedAt, HistoryTTL + WriteInterval + 1)
             stalled == Older(r.stalledSince, StallWindow)
             stopped == Older(r.notReceivingSince, StallWindow)
  <2>1. r \in Replications
    BY <1>2
  <2>2. at \in 0..(HistoryTTL + WriteInterval + 1) /\ stalled \in Unset..StallWindow /\ stopped \in Unset..StallWindow
        /\ (r.notReceivingSince = Unset => stopped = Unset)
    BY <2>1, Times DEF Replications, Older, Unset
  <2>3. Aged(r) = [r EXCEPT !.observedAt = at, !.stalledSince = stalled, !.notReceivingSince = stopped]
    BY <1>2 DEF Aged
  <2> HIDE DEF at, stalled, stopped
  <2>4. Aged(r) = [observedAt |-> at, stalledSince |-> stalled, notReceivingSince |-> stopped,
                   waiting |-> r.waiting, copied |-> r.copied]
    BY <2>1, <2>3, Zenon DEF Replications
  <2>5. Aged(r) \in Replications
    BY <2>1, <2>2, <2>4 DEF Replications
  <2>6. Aged(r).observedAt = at /\ Aged(r).copied = r.copied /\ Aged(r).notReceivingSince = stopped
    BY <2>4
  <2> QED
    BY <1>2, <2>2, <2>5, <2>6, NoneAssumption DEF at
<1> QED
  BY <1>1, <1>2

\* The status after a tick.
LEMMA TickStatus ==
    ASSUME IInv, Tick
    PROVE  /\ stored' \in Statuses /\ stored'.ha = stored.ha
           /\ \A m \in Slaves : Held0(m)' = Aged(Held0(m)) /\ Held0(m) \in Replications \cup {None}
<1> DEFINE instances == [m \in Members |-> [role |-> stored.instances[m].role, replication |-> Aged(Held0(m))]]
<1>1. stored \in Statuses /\ stored.instances \in [Members -> Instances]
  BY Zenon DEF IInv, TypeOK, Statuses
<1>2. ASSUME NEW m \in Members
      PROVE  /\ stored.instances[m].role \in {"unknown", "master", "slave"}
             /\ Held0(m) \in Replications \cup {None} /\ Aged(Held0(m)) \in Replications \cup {None}
  <2>1. stored.instances[m] \in Instances
    BY <1>1
  <2>2. stored.instances[m].role \in {"unknown", "master", "slave"} /\ Held0(m) \in Replications \cup {None}
    BY <2>1 DEF Instances, Held0
  <2> QED
    BY <2>2, AgedFacts
<1>3. stored' = [stored EXCEPT !.instances = instances]
  BY DEF Tick, Held0
<1>4. instances \in [Members -> Instances]
  BY <1>2 DEF Instances
<1>5. \A m \in Slaves : instances[m].replication = Aged(Held0(m))
  BY MembersAssumption
<1> HIDE DEF instances
<1>6. stored'.instances = instances /\ stored' \in Statuses /\ stored'.ha = stored.ha
  BY <1>1, <1>3, <1>4 DEF Statuses
<1> QED
  BY <1>2, <1>5, <1>6, MembersAssumption DEF Held0

\* Time leaves the stored time behind a reading by no more than before, and no
\* reading is lost by it.
LEMMA TickStep ==
    ASSUME IInv, Tick
    PROVE  IInv'
<1>1. UNCHANGED <<reports, weak, source, backlog, lag, changed, settled, recent, doubt>> /\ due' = settled
  BY DEF Tick
<1>2. kept' \in [Operators -> [Members -> Readings \cup {None}]]
      /\ \A o \in Operators, m \in Members : kept'[o][m] # None => kept[o][m] # None
  <2> DEFINE aged(o, m) == IF kept[o][m] = None THEN None
                           ELSE [kept[o][m] EXCEPT !.readAt = Older(@, HistoryTTL + 1)]
  <2>1. ASSUME NEW o \in Operators, NEW m \in Members
        PROVE  aged(o, m) \in Readings \cup {None} /\ (aged(o, m) # None => kept[o][m] # None)
    <3>1. CASE kept[o][m] = None
      BY <3>1
    <3>2. CASE kept[o][m] # None
      <4>1. PICK r \in Readings : r = kept[o][m]
        BY <3>2 DEF IInv, TypeOK
      <4>2. Older(r.readAt, HistoryTTL + 1) \in 0..(HistoryTTL + 1)
        BY <4>1, Times DEF Readings, Older, Unset
      <4>3. [r EXCEPT !.readAt = Older(r.readAt, HistoryTTL + 1)] \in Readings
        BY <4>2 DEF Readings
      <4> QED
        BY <3>2, <4>1, <4>3
    <3> QED
      BY <3>1, <3>2
  <2>2. kept' = [o \in Operators |-> [m \in Members |-> aged(o, m)]]
    BY DEF Tick
  <2> HIDE DEF aged
  <2> QED
    BY <2>1, <2>2
<1>3. TypeOK'
  BY <1>1, <1>2, TickStatus, Zenon DEF IInv, TypeOK
<1>4. AgeInv'
  <2> SUFFICES ASSUME NEW m \in Slaves, Held0(m)' # None
               PROVE  /\ readAge'[m] \in 0..(HistoryTTL + 1) /\ readAge'[m] <= Held0(m)'.observedAt
                      /\ Held0(m)'.observedAt <= readAge'[m] + WriteInterval
    BY Zenon DEF AgeInv
  <2>1. Held0(m) \in Replications /\ Held0(m) # None /\ Held0(m)' = Aged(Held0(m))
    BY TickStatus, AgedFacts
  <2>2. Held0(m)'.observedAt = Older(Held0(m).observedAt, HistoryTTL + WriteInterval + 1)
    BY <2>1, AgedFacts
  <2>3. readAge'[m] = Older(readAge[m], HistoryTTL + 1)
    BY DEF Tick
  <2>4. /\ readAge[m] \in 0..(HistoryTTL + 1) /\ readAge[m] <= Held0(m).observedAt
        /\ Held0(m).observedAt <= readAge[m] + WriteInterval
    BY <2>1 DEF IInv, AgeInv
  <2>5. Held0(m).observedAt \in 0..(HistoryTTL + WriteInterval + 1)
    BY <2>1 DEF Replications
  <2>6. ASSUME NEW at \in 0..(HistoryTTL + WriteInterval + 1), NEW age \in 0..(HistoryTTL + 1),
               age <= at, at <= age + WriteInterval
        PROVE  /\ Older(age, HistoryTTL + 1) \in 0..(HistoryTTL + 1)
               /\ Older(age, HistoryTTL + 1) <= Older(at, HistoryTTL + WriteInterval + 1)
               /\ Older(at, HistoryTTL + WriteInterval + 1) <= Older(age, HistoryTTL + 1) + WriteInterval
    BY <2>6, Times DEF Older, Unset
  <2> QED
    BY <2>2, <2>3, <2>4, <2>5, <2>6, Zenon
<1>5. CopyInv'
  <2>1. ASSUME weak = "applier", NEW m \in Slaves, Held0(m)' # None
        PROVE  ~Held0(m)'.copied /\ Held0(m)'.notReceivingSince = Unset
    <3>1. Held0(m) \in Replications \cup {None} /\ Held0(m) # None /\ Held0(m)' = Aged(Held0(m))
      BY <2>1, TickStatus, AgedFacts
    <3>2. ~Held0(m).copied /\ Held0(m).notReceivingSince = Unset
      BY <2>1, <3>1 DEF IInv, CopyInv
    <3> QED
      BY <3>1, <3>2, AgedFacts
  <2> QED
    BY <1>1, <2>1 DEF IInv, CopyInv
<1>6. StallInv'
  BY <1>1, <1>2, MembersAssumption, Zenon DEF IInv, StallInv
<1>7. DoubtInv' /\ HAReadyIsRecent'
  BY <1>1, TickStatus DEF IInv, DoubtInv, HAReadyIsRecent
<1> QED
  BY <1>3, <1>4, <1>5, <1>6, <1>7 DEF IInv, SourceInv

-----------------------------------------------------------------------------
(* The invariant, and what follows from it.                                *)

\* Nothing is read at the start.
LEMMA InitIInv == Init => IInv
<1> SUFFICES ASSUME Init PROVE IInv
  OBVIOUS
<1>1. TypeOK
  <2>1. stored \in Statuses
    BY DEF Init, Statuses, Instances, Undecided
  <2>2. source \in [Slaves -> Members \cup {None}]
    BY DEF Init
  <2> QED
    BY <2>1, <2>2, Zenon DEF Init, TypeOK
<1>2. \A m \in Slaves : Held0(m) = None
  BY MembersAssumption, Zenon DEF Init, Held0
<1>3. \A m \in Slaves, k \in Memories : changed[m][k] = {}
  BY DEF Init
<1>4. AgeInv /\ CopyInv
  BY <1>2, <1>3, Zenon DEF Init, AgeInv, CopyInv, Memories
<1>5. StallInv /\ DoubtInv
  BY <1>3 DEF Init, StallInv, DoubtInv, Memories
<1>6. SourceInv
  BY DEF Init, SourceInv
<1> QED
  BY <1>1, <1>4, <1>5, <1>6 DEF Init, IInv, HAReadyIsRecent

\* A step that changes nothing.
LEMMA Stutters ==
    ASSUME IInv, UNCHANGED vars
    PROVE  IInv'
<1>1. TypeOK'
  BY Zenon DEF IInv, TypeOK, vars
<1>2. AgeInv' /\ CopyInv' /\ StallInv' /\ DoubtInv' /\ HAReadyIsRecent'
  BY Zenon DEF IInv, AgeInv, CopyInv, StallInv, DoubtInv, HAReadyIsRecent, Held0, vars
<1> QED
  BY <1>1, <1>2 DEF IInv, SourceInv

\* The times that the status holds, and what the memories saw, stay as AgeInv,
\* CopyInv and StallInv say, whatever the operators and the members do.
THEOREM Invariant == Spec => []IInv
<1>1. ASSUME IInv, [Next]_vars PROVE IInv'
  <2>1. ASSUME NEW o \in Operators, ReconcileHAStatus(o) \/ Restart(o) PROVE IInv'
    BY <1>1, <2>1, ReconcileStep, RestartStep
  <2>2. ASSUME NEW m \in Slaves, Apply(m) \/ Copy(m) \/ LogGrows(m) \/ ReplaceApplier(m) \/ SourceChanges(m)
        PROVE  IInv'
    BY <1>1, <2>2, SlaveStep, LogStep, Zenon
  <2>3. ASSUME markRolesNotObserved \/ Settle \/ Tick PROVE IInv'
    BY <1>1, <2>3, MarkStep, LogStep, TickStep, Zenon
  <2>4. ASSUME UNCHANGED vars PROVE IInv'
    BY <1>1, <2>4, Stutters
  <2> QED
    BY <1>1, <2>1, <2>2, <2>3, <2>4, Zenon DEF Next
<1> QED
  BY <1>1, InitIInv, PTL DEF Spec

\* haReadyCondition and holdObservationTimes: HAReady is True only while the last
\* reading of every slave is younger than replicationStallWindow.
THEOREM Recent == Spec => []HAReadyIsRecent
<1>1. IInv => HAReadyIsRecent
  BY DEF IInv
<1> QED
  BY <1>1, Invariant, PTL

\* nextReplication, nextLogCopy and writeStatus: no stall is reported of an applier
\* that the comparisons saw move since it began, unless a reading had nothing to
\* be compared with, and no stop of a copy that grew.
THEOREM Founded == Spec => []StallIsFounded
<1>1. IInv => StallIsFounded
  BY DEF IInv, DoubtInv, StallIsFounded
<1> QED
  BY <1>1, Invariant, PTL

\* nextReplication: no step of an operator drops the last reading of a slave that
\* answers before it is older than replicationHistoryTTL.
THEOREM HistoryKept == Spec => HistoryIsKept
<1>1. ASSUME IInv, [Next]_vars, NEW m \in Slaves, Held0(m) # None, stored'.instances[m].role = "slave",
             Held0(m)' = None
      PROVE  readAge[m] > HistoryTTL
  <2>1. ASSUME NEW o \in Operators, ReconcileHAStatus(o) PROVE readAge[m] > HistoryTTL
    BY <1>1, <2>1, ReconcileKeeps, Zenon DEF Held0
  <2>2. ASSUME stored' = stored PROVE FALSE
    BY <1>1, <2>2, Zenon DEF Held0
  <2>3. ASSUME NEW o \in Operators, Restart(o) PROVE stored' = stored
    BY <2>3, Zenon DEF Restart
  <2>4. ASSUME NEW n \in Slaves, Apply(n) \/ Copy(n) \/ LogGrows(n) \/ ReplaceApplier(n) \/ SourceChanges(n)
        PROVE  stored' = stored
    BY <2>4, Zenon DEF Apply, Copy, LogGrows, ReplaceApplier, SourceChanges, operator
  <2>5. ASSUME Settle \/ UNCHANGED vars PROVE stored' = stored
    BY <2>5, Zenon DEF Settle, operator, vars
  <2>6. ASSUME markRolesNotObserved PROVE FALSE
    <3>1. stored \in Statuses /\ m \in Members
      BY <1>1, MembersAssumption DEF IInv, TypeOK
    <3>2. stored'.instances[m].role = "unknown"
      BY <2>6, <3>1 DEF markRolesNotObserved, Statuses
    <3> QED
      BY <1>1, <3>2
  <2>7. ASSUME Tick PROVE FALSE
    BY <1>1, <2>7, TickStatus, AgedFacts, Zenon
  <2> QED
    BY <1>1, <2>1, <2>2, <2>3, <2>4, <2>5, <2>6, <2>7, Zenon DEF Next
<1>2. IInv /\ [Next]_vars =>
        [\A m \in Slaves :
            stored.instances[m].replication # None /\ stored'.instances[m].role = "slave"
            /\ stored'.instances[m].replication = None => readAge[m] > HistoryTTL]_vars
  BY <1>1, Zenon DEF Held0
<1> QED
  BY <1>2, Invariant, PTL DEF Spec, HistoryIsKept
=============================================================================
