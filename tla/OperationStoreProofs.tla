------------------------ MODULE OperationStoreProofs ------------------------
(***************************************************************************)
(* The safety of the operation store, for any set of IDs and requests, and *)
(* that it implements the operation ledger, whatever writes fail and       *)
(* whenever the process or the node stops.                                 *)
(***************************************************************************)
EXTENDS OperationStore, TLAPS

\* A running operation has its open record on disk, and no end of it is kept.
RunningIsOpen ==
    \A id \in Ids : work[id] = "running" =>
        up /\ disk[id] # NoRecord /\ NotEnded(id) /\ unsettled[id] = "none" /\ id \notin interrupted

\* The record of an operation that ever ran stays, with its request, also when
\* a power loss brings back an earlier content.
RanIsRecorded ==
    \A id \in Ids : work[id] # "none" =>
        disk[id] # NoRecord /\ \A r \in shadow[id] : r # NoRecord /\ r.req = disk[id].req

\* An end kept in memory is the end of the operation.
KeptIsTrue ==
    \A id \in Ids : unsettled[id] # "none" => up /\ work[id] = unsettled[id] /\ id \notin interrupted

\* Completed is on disk, in an earlier content or with a caller only if it is so.
CompletedIsTrue ==
    \A id \in Ids :
        /\ disk[id] # NoRecord /\ disk[id].state = "Completed" => work[id] = "Completed"
        /\ \A r \in shadow[id] : r # NoRecord /\ r.state = "Completed" => work[id] = "Completed"

\* A record the start could not read is there.
InterruptedIsRecorded ==
    \A id \in interrupted : disk[id] # NoRecord

\* What the store may have in memory and on disk.
StoreInv == RunningIsOpen /\ RanIsRecorded /\ KeptIsTrue /\ CompletedIsTrue /\ InterruptedIsRecorded

\* The inductive invariant.
IInv == TypeOK /\ StoreInv /\ OneOperationPerDatabase /\ OneRunPerKey /\ CompletedWasDone

\* What a listing D of the directory after a call says of the one before: every
\* record keeps its request, no running operation's record is changed, and
\* Completed is only recorded for a completed operation.
Follows(D) ==
    /\ D \in [Ids -> Records \cup {NoRecord}]
    /\ \A id \in Ids :
         /\ D[id] = NoRecord <=> disk[id] = NoRecord
         /\ D[id] # NoRecord => D[id] \in Records /\ D[id].req = disk[id].req /\ D[id].state \in States
         /\ work[id] = "running" => D[id] = disk[id]
         /\ D[id] # NoRecord /\ D[id].state = "Completed" => work[id] = "Completed"

\* DiskAfter keeps every record's request, changes no running operation's
\* record and records Completed only for a completed operation.
LEMMA DiskAfterFacts ==
    ASSUME TypeOK, StoreInv, NEW toSettle \in SUBSET Ids, NEW toRead \in SUBSET Ids, NEW o
    PROVE  Follows(DiskAfter(toSettle, toRead, o))
<1> DEFINE D == DiskAfter(toSettle, toRead, o)
<1>1. ASSUME NEW id \in Ids
      PROVE  /\ D[id] = EndRecord(id) \/ D[id] = disk[id]
             /\ D[id] # disk[id] => Readable(id) /\ (unsettled[id] # "none" \/ id \in interrupted)
  BY DEF DiskAfter, Settling, Failing, TypeOK
<1>2. ASSUME NEW id \in Ids, Readable(id)
      PROVE  /\ EndRecord(id) \in Records
             /\ EndRecord(id).req = disk[id].req
             /\ EndRecord(id).state = IF unsettled[id] # "none" THEN unsettled[id] ELSE "Failed"
             /\ disk[id] \in Records
             /\ EndRecord(id) # NoRecord
  <2>1. disk[id] \in Records
    BY <1>2 DEF Readable, TypeOK
  <2>2. unsettled[id] \in Ends \cup {"none"}
    BY DEF TypeOK
  <2> QED
    BY <2>1, <2>2, NoRecordAssumption DEF EndRecord, Records, States, Ends
<1>3. ASSUME NEW id \in Ids
      PROVE  D[id] \in Records \cup {NoRecord}
  BY <1>1, <1>2 DEF TypeOK
<1>4. D \in [Ids -> Records \cup {NoRecord}]
  BY <1>3 DEF DiskAfter
<1>5. ASSUME NEW id \in Ids
      PROVE  /\ D[id] = NoRecord <=> disk[id] = NoRecord
             /\ D[id] # NoRecord => D[id] \in Records /\ D[id].req = disk[id].req /\ D[id].state \in States
             /\ work[id] = "running" => D[id] = disk[id]
             /\ D[id] # NoRecord /\ D[id].state = "Completed" => work[id] = "Completed"
  <2>1. CASE D[id] = disk[id]
    BY <2>1, <1>3, NoRecordAssumption DEF Records, StoreInv, CompletedIsTrue
  <2>2. CASE D[id] # disk[id]
    <3>1. Readable(id) /\ (unsettled[id] # "none" \/ id \in interrupted) /\ D[id] = EndRecord(id)
      BY <2>2, <1>1
    <3>2. work[id] # "running"
      BY <3>1 DEF StoreInv, RunningIsOpen
    <3>3. D[id].state = "Completed" => work[id] = "Completed"
      BY <3>1, <1>2 DEF StoreInv, KeptIsTrue
    <3>4. D[id].state \in States
      BY <3>1, <1>2 DEF Records
    <3> QED
      BY <3>1, <3>2, <3>3, <3>4, <1>2 DEF Readable
  <2> QED
    BY <2>1, <2>2
<1> QED
  BY <1>4, <1>5 DEF Follows

\* What a power loss may bring back after a call is what it could bring back
\* before, or the record the call replaced.
LEMMA ShadowAfterFacts ==
    ASSUME TypeOK, NEW written \in SUBSET {id \in Ids : Readable(id)}, NEW o, NEW kept \in Kept(written, o)
    PROVE  /\ ShadowAfter(written, o, kept) \in [Ids -> SUBSET (Records \cup {NoRecord})]
           /\ \A id \in Ids : \A r \in ShadowAfter(written, o, kept)[id] :
                r \in shadow[id] \/ (r = disk[id] /\ r # NoRecord)
<1>1. kept \subseteq written
  BY DEF Kept
<1>2. ASSUME NEW id \in Ids, NEW r \in ShadowAfter(written, o, kept)[id]
      PROVE  r \in shadow[id] \/ (r = disk[id] /\ r # NoRecord)
  BY <1>1, <1>2 DEF ShadowAfter, Readable
<1>3. ASSUME NEW id \in Ids
      PROVE  ShadowAfter(written, o, kept)[id] \subseteq Records \cup {NoRecord}
  BY <1>2 DEF TypeOK
<1>4. ShadowAfter(written, o, kept) = [id \in Ids |-> ShadowAfter(written, o, kept)[id]]
  BY DEF ShadowAfter
<1> QED
  BY <1>2, <1>3, <1>4

\* A call only ever drops kept ends and remembered interruptions.
LEMMA MemoryAfterFacts ==
    ASSUME TypeOK, NEW toSettle \in SUBSET Ids, NEW toRead \in SUBSET Ids, NEW o
    PROVE  /\ UnsettledAfter(toSettle, o) \in [Ids -> Ends \cup {"none"}]
           /\ \A id \in Ids : UnsettledAfter(toSettle, o)[id] \in {"none", unsettled[id]}
           /\ InterruptedAfter(toRead, o) \subseteq interrupted
  BY DEF UnsettledAfter, InterruptedAfter, TypeOK

\* The typing of the variables a call's callers do not see.
StoreTypeOK ==
    /\ disk \in [Ids -> Records \cup {NoRecord}]
    /\ shadow \in [Ids -> SUBSET (Records \cup {NoRecord})]
    /\ unsettled \in [Ids -> Ends \cup {"none"}]
    /\ interrupted \subseteq Ids

\* An answer that calls only completed operations Completed keeps what callers
\* were told true.
LEMMA AnswerFacts ==
    ASSUME TypeOK, CompletedWasDone, NEW ops \in SUBSET [id : Ids, state : States], Answer(ops),
           \A a \in ops : a.state = "Completed" => work'[a.id] = "Completed",
           \A id \in Ids : work[id] = "Completed" => work'[id] = "Completed"
    PROVE  /\ answers' \subseteq [id : Ids, state : States]
           /\ told' \in [Ids -> SUBSET Ends]
           /\ CompletedWasDone'
<1>1. answers' \subseteq [id : Ids, state : States]
  BY DEF Answer
<1>2. ASSUME NEW id \in Ids
      PROVE  /\ told'[id] \subseteq Ends
             /\ \A e \in told'[id] : e \in told[id] \/ \E a \in ops : a.id = id /\ a.state = e
  BY DEF Answer, Terminal, TypeOK
<1>3. told' = [id \in Ids |-> told'[id]]
  BY DEF Answer
<1>4. told' \in [Ids -> SUBSET Ends]
  BY <1>2, <1>3
<1>5. CompletedWasDone'
  BY <1>2 DEF CompletedWasDone
<1> QED
  BY <1>1, <1>4, <1>5

\* The settling and reading part of every method preserves the store's
\* invariants.
LEMMA SettleAndReadFacts ==
    ASSUME IInv, NEW toSettle \in SUBSET Ids, NEW toRead \in SUBSET Ids, NEW o,
           SettleAndRead(toSettle, toRead, o), UNCHANGED <<up, work>>
    PROVE  StoreTypeOK' /\ StoreInv' /\ OneOperationPerDatabase' /\ OneRunPerKey'
<1> USE DEF IInv
<1> DEFINE written == Settling(toSettle) \cup Failing(toRead)
<1>1. PICK kept \in Kept(written, o) : shadow' = ShadowAfter(written, o, kept)
  BY DEF SettleAndRead
<1>2. written \in SUBSET {id \in Ids : Readable(id)}
  BY DEF Settling, Failing
<1>3. Follows(disk')
  BY DiskAfterFacts DEF SettleAndRead
<1>4. /\ shadow' \in [Ids -> SUBSET (Records \cup {NoRecord})]
      /\ \A id \in Ids : \A r \in shadow'[id] : r \in shadow[id] \/ (r = disk[id] /\ r # NoRecord)
  <2> HIDE DEF written
  <2> QED
    BY <1>1, <1>2, ShadowAfterFacts, Zenon
<1>5. /\ unsettled' \in [Ids -> Ends \cup {"none"}]
      /\ \A id \in Ids : unsettled'[id] \in {"none", unsettled[id]}
      /\ interrupted' \subseteq interrupted
  BY MemoryAfterFacts, Zenon DEF SettleAndRead
<1>6. StoreTypeOK'
  BY <1>3, <1>4, <1>5 DEF Follows, StoreTypeOK, TypeOK
<1>7. RunningIsOpen'
  BY <1>3, <1>5 DEF Follows, StoreInv, RunningIsOpen, NotEnded
<1>8. RanIsRecorded'
  BY <1>3, <1>4 DEF Follows, StoreInv, RanIsRecorded
<1>9. KeptIsTrue'
  BY <1>5 DEF StoreInv, KeptIsTrue
<1>10. CompletedIsTrue'
  BY <1>3, <1>4 DEF Follows, StoreInv, CompletedIsTrue
<1>11. OneOperationPerDatabase'
  BY <1>3 DEF Follows, OneOperationPerDatabase, StoreInv, RunningIsOpen
<1>12. OneRunPerKey'
  <2>1. \A id \in Ids : work[id] # "none" => disk'[id].req = disk[id].req
    BY <1>3 DEF Follows, StoreInv, RanIsRecorded
  <2> QED
    BY <2>1 DEF OneRunPerKey, SameKey
<1>13. InterruptedIsRecorded'
  BY <1>3, <1>5 DEF StoreInv, InterruptedIsRecorded, Follows, TypeOK
<1> QED
  BY <1>6, <1>7, <1>8, <1>9, <1>10, <1>11, <1>12, <1>13 DEF StoreInv

\* A method that settles, reads and answers what it read.
LEMMA CallFacts ==
    ASSUME IInv, NEW toSettle \in SUBSET Ids, NEW toRead \in SUBSET Ids, NEW o,
           SettleAndRead(toSettle, toRead, o),
           NEW ops \in SUBSET [id : Ids, state : States], Answer(ops),
           \A a \in ops : a.state = "Completed" => work[a.id] = "Completed",
           UNCHANGED <<damaged, up, work>>
    PROVE  IInv'
<1>1. StoreTypeOK' /\ StoreInv' /\ OneOperationPerDatabase' /\ OneRunPerKey'
  BY SettleAndReadFacts
<1>2. /\ answers' \subseteq [id : Ids, state : States]
      /\ told' \in [Ids -> SUBSET Ends]
      /\ CompletedWasDone'
  BY AnswerFacts DEF IInv
<1>3. TypeOK'
  BY <1>1, <1>2 DEF StoreTypeOK, TypeOK, IInv
<1> QED
  BY <1>1, <1>2, <1>3 DEF IInv

\* The state a call answers of an operation is the one it left on disk.
LEMMA ReadAnswers ==
    ASSUME IInv, NEW toSettle \in SUBSET Ids, NEW toRead \in SUBSET Ids, NEW o,
           NEW id \in Ids, disk[id] # NoRecord
    PROVE  /\ DiskAfter(toSettle, toRead, o)[id].state \in States
           /\ DiskAfter(toSettle, toRead, o)[id].state = "Completed" => work[id] = "Completed"
<1>1. Follows(DiskAfter(toSettle, toRead, o))
  BY DiskAfterFacts DEF IInv
<1> QED
  BY <1>1 DEF Follows

\* What a call reads back is on disk.
LEMMA ReadBackFacts ==
    ASSUME NEW toRead \in SUBSET Ids, NEW o
    PROVE  ReadBack(toRead, o) \in SUBSET {id \in Ids : disk[id] # NoRecord}
  BY DEF ReadBack, Readable

\* FindOrCreate answers the operation that is under the key.
LEMMA FindExistingStep ==
    ASSUME IInv, NEW req \in Requests, NEW o, FindExisting(req, o)
    PROVE  IInv'
<1>1. PICK id \in UnderKey(req, o) :
        IF disk[id].req.hash # req.hash \/ UnsettledAfter(Ids, o)[id] # "none"
        THEN NoAnswer
        ELSE Answer({[id |-> id, state |-> DiskAfter(Ids, Ids, o)[id].state]})
  BY Zenon DEF FindExisting
<1>2. SettleAndRead(Ids, Ids, o) /\ UNCHANGED <<damaged, up, work>>
  BY DEF FindExisting
<1>3. {id} \in SUBSET {i \in Ids : disk[i] # NoRecord}
  BY ReadBackFacts DEF UnderKey, Listed
<1>4. CASE NoAnswer
  BY <1>2, <1>4, CallFacts DEF NoAnswer
<1>5. CASE Answer({[id |-> id, state |-> DiskAfter(Ids, Ids, o)[id].state]})
  <2> DEFINE ops == {[id |-> id, state |-> DiskAfter(Ids, Ids, o)[id].state]}
  <2>1. ops \in SUBSET [id : Ids, state : States] /\ \A a \in ops : a.state = "Completed" => work[a.id] = "Completed"
    BY <1>3, ReadAnswers
  <2>2. Answer(ops)
    BY <1>5
  <2> HIDE DEF ops
  <2> QED
    BY <1>2, <2>1, <2>2, CallFacts
<1> QED
  BY <1>1, <1>4, <1>5

\* A new record is under a key no other operation has and on a database no
\* running operation holds.
LEMMA AdmissibleFacts ==
    ASSUME IInv, NEW req \in Requests, NEW o, Admissible(req, o), NEW i \in Ids
    PROVE  /\ work[i] # "none" => ~SameKey(disk[i].req, req) /\ ~SameKey(req, disk[i].req)
           /\ work[i] = "running" => disk[i].req.db # req.db
<1>1. disk[i] # NoRecord => i \in Listed(o)
  BY DEF Admissible, Unlisted
<1>2. work[i] # "none" => ~SameKey(disk[i].req, req)
  BY <1>1 DEF Admissible, UnderKey, IInv, StoreInv, RanIsRecorded
<1>3. work[i] = "running" => DiskAfter(Ids, Ids, o)[i] = disk[i]
  BY DiskAfterFacts DEF IInv, Follows
<1>4. work[i] = "running" => disk[i].req.db # req.db
  BY <1>1, <1>3 DEF Admissible, HoldsDatabase, IInv, StoreInv, RunningIsOpen, NotEnded
<1> QED
  BY <1>2, <1>4 DEF SameKey

\* FindOrCreate records a new operation and starts it.
LEMMA CreateStep ==
    ASSUME IInv, up, NEW req \in Requests, NEW o, NEW id \in Ids, Create(req, o, id)
    PROVE  IInv'
<1> DEFINE D == DiskAfter(Ids, Ids, o)
<1>1. Follows(D)
  BY DiskAfterFacts DEF IInv
<1> HIDE DEF D
<1>2. NewRecord(req) \in Records /\ NewRecord(req) # NoRecord /\ NewRecord(req).req = req /\ NewRecord(req).state = "Pending"
  BY NoRecordAssumption DEF NewRecord, Records, States, OpenStates
<1>3. disk' = [D EXCEPT ![id] = NewRecord(req)]
  BY DEF Create, D
<1>4. /\ shadow' = [i \in Ids |-> {}]
      /\ work' = [work EXCEPT ![id] = "running"]
      /\ UNCHANGED <<damaged, up>>
      /\ Admissible(req, o)
      /\ disk[id] = NoRecord /\ work[id] = "none"
  BY DEF Create, Fresh
<1>5. /\ unsettled' \in [Ids -> Ends \cup {"none"}]
      /\ \A i \in Ids : unsettled'[i] \in {"none", unsettled[i]}
      /\ interrupted' \subseteq interrupted
  BY MemoryAfterFacts, Zenon DEF Create, IInv
<1>6. work' \in [Ids -> Ends \cup {"none", "running", "cut"}] /\ work'[id] = "running"
      /\ \A i \in Ids \ {id} : work'[i] = work[i] /\ disk'[i] = D[i]
  BY <1>1, <1>3, <1>4 DEF IInv, TypeOK, Follows
<1>7. disk'[id] = NewRecord(req)
  BY <1>1, <1>3 DEF Follows
<1>8. unsettled[id] = "none" /\ id \notin interrupted
  BY <1>4 DEF IInv, StoreInv, KeptIsTrue, InterruptedIsRecorded
<1>9. StoreTypeOK'
  BY <1>1, <1>2, <1>3, <1>4, <1>5, Zenon DEF StoreTypeOK, Follows, IInv, TypeOK
<1>10. RunningIsOpen'
  <2> SUFFICES ASSUME NEW i \in Ids, work'[i] = "running"
               PROVE  up' /\ disk'[i] # NoRecord /\ NotEnded(i)' /\ unsettled'[i] = "none" /\ i \notin interrupted'
    BY DEF RunningIsOpen
  <2>1. CASE i = id
    BY <2>1, <1>2, <1>4, <1>5, <1>7, <1>8 DEF NotEnded, Terminal, Ends
  <2>2. CASE i # id
    BY <2>2, <1>1, <1>4, <1>5, <1>6 DEF NotEnded, Follows, IInv, StoreInv, RunningIsOpen
  <2> QED
    BY <2>1, <2>2
<1>11. RanIsRecorded'
  BY <1>1, <1>2, <1>4, <1>6, <1>7 DEF RanIsRecorded, Follows, IInv, StoreInv
<1>12. KeptIsTrue'
  <2> SUFFICES ASSUME NEW i \in Ids, unsettled'[i] # "none"
               PROVE  up' /\ work'[i] = unsettled'[i] /\ i \notin interrupted'
    BY DEF KeptIsTrue
  <2>1. i # id /\ unsettled'[i] = unsettled[i]
    BY <1>5, <1>8
  <2>2. up /\ work[i] = unsettled[i] /\ i \notin interrupted
    BY <2>1 DEF KeptIsTrue, IInv, StoreInv
  <2> QED
    BY <2>1, <2>2, <1>4, <1>5, <1>6
<1>13. CompletedIsTrue'
  BY <1>1, <1>2, <1>4, <1>6, <1>7 DEF CompletedIsTrue, Follows
<1>14. InterruptedIsRecorded'
  BY <1>1, <1>5, <1>6, <1>8 DEF InterruptedIsRecorded, Follows, IInv, StoreInv, TypeOK
<1>15. OneOperationPerDatabase'
  <2>1. \A i \in Ids \ {id} : work[i] = "running" => disk'[i].req = disk[i].req /\ disk[i].req.db # req.db
    BY <1>1, <1>4, <1>6, AdmissibleFacts DEF Follows
  <2>2. OneOperationPerDatabase /\ disk'[id].req = req
    BY <1>2, <1>7 DEF IInv
  <2> SUFFICES ASSUME NEW i \in Ids, NEW j \in Ids, work'[i] = "running", work'[j] = "running",
                      disk'[i].req.db = disk'[j].req.db
               PROVE  i = j
    BY DEF OneOperationPerDatabase
  <2>3. CASE i # id /\ j # id
    BY <2>1, <2>2, <2>3, <1>6 DEF OneOperationPerDatabase
  <2>4. CASE i = id /\ j # id
    BY <2>1, <2>2, <2>4, <1>6
  <2>5. CASE i # id /\ j = id
    BY <2>1, <2>2, <2>5, <1>6
  <2> QED
    BY <2>3, <2>4, <2>5
<1>16. OneRunPerKey'
  <2>1. \A i \in Ids \ {id} : work[i] # "none" =>
          /\ disk'[i].req = disk[i].req
          /\ ~SameKey(disk[i].req, req) /\ ~SameKey(req, disk[i].req)
    <3>1. \A i \in Ids : work[i] # "none" => disk[i] # NoRecord
      BY DEF IInv, StoreInv, RanIsRecorded
    <3>2. \A i \in Ids : disk[i] # NoRecord => D[i].req = disk[i].req
      BY <1>1 DEF Follows
    <3>3. \A i \in Ids : work[i] # "none" => ~SameKey(disk[i].req, req) /\ ~SameKey(req, disk[i].req)
      BY <1>4, AdmissibleFacts
    <3> QED
      BY <3>1, <3>2, <3>3, <1>6
  <2>2. OneRunPerKey /\ disk'[id].req = req
    BY <1>2, <1>7 DEF IInv
  <2> SUFFICES ASSUME NEW i \in Ids, NEW j \in Ids, work'[i] # "none", work'[j] # "none",
                      SameKey(disk'[i].req, disk'[j].req)
               PROVE  i = j
    BY DEF OneRunPerKey, SameKey
  <2>3. CASE i # id /\ j # id
    BY <2>1, <2>2, <2>3, <1>6 DEF OneRunPerKey
  <2>4. CASE i = id /\ j # id
    BY <2>1, <2>2, <2>4, <1>6
  <2>5. CASE i # id /\ j = id
    BY <2>1, <2>2, <2>5, <1>6
  <2> QED
    BY <2>3, <2>4, <2>5
<1>17. /\ answers' \subseteq [id : Ids, state : States]
       /\ told' \in [Ids -> SUBSET Ends]
       /\ CompletedWasDone'
  <2> DEFINE ops == {[id |-> id, state |-> "Pending"]}
  <2>1. ops \in SUBSET [id : Ids, state : States] /\ \A a \in ops : a.state # "Completed"
    BY DEF States, OpenStates
  <2>2. Answer(ops)
    BY DEF Create
  <2>3. \A i \in Ids : work[i] = "Completed" => work'[i] = "Completed"
    BY <1>4, <1>6
  <2> HIDE DEF ops
  <2> QED
    BY <2>1, <2>2, <2>3, AnswerFacts DEF IInv
<1>18. TypeOK'
  BY <1>4, <1>6, <1>9, <1>17 DEF TypeOK, StoreTypeOK, IInv
<1> QED
  BY <1>10, <1>11, <1>12, <1>13, <1>14, <1>15, <1>16, <1>17, <1>18 DEF IInv, StoreInv

\* A call that answers nothing tells no caller anything new.
LEMMA NoAnswerFacts ==
    ASSUME TypeOK, CompletedWasDone, NoAnswer,
           \A id \in Ids : work[id] = "Completed" => work'[id] = "Completed"
    PROVE  /\ answers' \subseteq [id : Ids, state : States]
           /\ told' \in [Ids -> SUBSET Ends]
           /\ CompletedWasDone'
<1>1. Answer({})
  BY DEF NoAnswer
<1> QED
  BY <1>1, AnswerFacts

\* FindOrCreate could not write the new record: nothing runs under it.
LEMMA CreateFailsStep ==
    ASSUME IInv, NEW req \in Requests, NEW o, NEW id \in Ids, CreateFails(req, o, id)
    PROVE  IInv'
<1> DEFINE D == DiskAfter(Ids, Ids, o)
<1> DEFINE written == Settling(Ids) \cup Failing(Ids)
<1>1. Follows(D)
  BY DiskAfterFacts DEF IInv
<1>2. written \in SUBSET {i \in Ids : Readable(i)}
  BY DEF Settling, Failing
<1>3. PICK kept \in Kept(written, o) :
        LET shadows == ShadowAfter(written, o, kept)
        IN \/ disk' = D /\ shadow' = shadows
           \/ disk' = D /\ shadow' = [shadows EXCEPT ![id] = {NoRecord, NewRecord(req)}]
           \/ /\ disk' = [D EXCEPT ![id] = NewRecord(req)]
              /\ shadow' = [shadows EXCEPT ![id] = IF PowerLoss THEN {NoRecord} ELSE {}]
  BY Zenon DEF CreateFails
<1> DEFINE S == ShadowAfter(written, o, kept)
<1>4. /\ S \in [Ids -> SUBSET (Records \cup {NoRecord})]
      /\ \A i \in Ids : \A r \in S[i] : r \in shadow[i] \/ (r = disk[i] /\ r # NoRecord)
  <2> HIDE DEF written
  <2> QED
    BY <1>2, ShadowAfterFacts DEF IInv
<1>5. NewRecord(req) \in Records /\ NewRecord(req) # NoRecord /\ NewRecord(req).state = "Pending"
  BY NoRecordAssumption DEF NewRecord, Records, States, OpenStates
<1>6. /\ unsettled' \in [Ids -> Ends \cup {"none"}]
      /\ \A i \in Ids : unsettled'[i] \in {"none", unsettled[i]}
      /\ interrupted' \subseteq interrupted
  BY MemoryAfterFacts DEF CreateFails, IInv
<1>7. /\ UNCHANGED <<damaged, up, work>>
      /\ NoAnswer
      /\ disk[id] = NoRecord /\ work[id] = "none"
  BY DEF CreateFails, Fresh
<1> HIDE DEF D, S
<1>8. /\ disk' \in [Ids -> Records \cup {NoRecord}]
      /\ \A i \in Ids : disk'[i] = D[i] \/ (i = id /\ disk'[i] = NewRecord(req))
  BY <1>1, <1>3, <1>5 DEF Follows
<1>9. /\ shadow' \in [Ids -> SUBSET (Records \cup {NoRecord})]
      /\ \A i \in Ids : i # id => shadow'[i] = S[i]
      /\ \A r \in shadow'[id] : r \in S[id] \/ r = NoRecord \/ r = NewRecord(req)
  <2>1. \/ shadow' = S
        \/ shadow' = [S EXCEPT ![id] = {NoRecord, NewRecord(req)}]
        \/ shadow' = [S EXCEPT ![id] = IF PowerLoss THEN {NoRecord} ELSE {}]
    BY <1>3, Zenon DEF S
  <2>2. CASE shadow' = S
    BY <2>2, <1>4
  <2>3. ASSUME NEW T \in SUBSET {NoRecord, NewRecord(req)}, shadow' = [S EXCEPT ![id] = T]
        PROVE  /\ shadow' \in [Ids -> SUBSET (Records \cup {NoRecord})]
               /\ \A i \in Ids : i # id => shadow'[i] = S[i]
               /\ \A r \in shadow'[id] : r = NoRecord \/ r = NewRecord(req)
    <3>1. T \in SUBSET (Records \cup {NoRecord})
      BY <1>5
    <3>2. shadow'[id] = T /\ \A i \in Ids : i # id => shadow'[i] = S[i]
      BY <2>3, <1>4
    <3>3. shadow' \in [Ids -> SUBSET (Records \cup {NoRecord})]
      BY <2>3, <1>4, <3>1
    <3> QED
      BY <3>2, <3>3
  <2>4. shadow' = S \/ \E T \in SUBSET {NoRecord, NewRecord(req)} : shadow' = [S EXCEPT ![id] = T]
    BY <2>1, Zenon
  <2> QED
    BY <2>2, <2>3, <2>4, Zenon
<1>10. StoreTypeOK'
  BY <1>6, <1>8, <1>9, Zenon DEF StoreTypeOK, IInv, TypeOK
<1>11. RunningIsOpen'
  BY <1>1, <1>6, <1>7, <1>8 DEF RunningIsOpen, NotEnded, Follows, IInv, StoreInv
<1>12. RanIsRecorded'
  <2>1. \A i \in Ids : work[i] # "none" => disk'[i] = D[i] /\ shadow'[i] = S[i]
    BY <1>7, <1>8, <1>9
  <2>2. \A i \in Ids : work[i] # "none" =>
          disk[i] # NoRecord /\ \A r \in shadow[i] : r # NoRecord /\ r.req = disk[i].req
    BY DEF IInv, StoreInv, RanIsRecorded
  <2>3. \A i \in Ids : disk[i] # NoRecord => D[i] # NoRecord /\ D[i].req = disk[i].req
    BY <1>1 DEF Follows
  <2>4. work' = work
    BY <1>7
  <2> SUFFICES ASSUME NEW i \in Ids, work'[i] # "none"
               PROVE  disk'[i] # NoRecord /\ \A r \in shadow'[i] : r # NoRecord /\ r.req = disk'[i].req
    BY DEF RanIsRecorded
  <2>5. disk[i] # NoRecord /\ disk'[i] # NoRecord /\ disk'[i].req = disk[i].req
    BY <2>1, <2>2, <2>3, <2>4
  <2>6. \A r \in shadow'[i] : r # NoRecord /\ r.req = disk[i].req
    BY <2>1, <2>2, <2>4, <1>4
  <2> QED
    BY <2>5, <2>6
<1>13. KeptIsTrue'
  BY <1>6, <1>7 DEF KeptIsTrue, IInv, StoreInv
<1>14. CompletedIsTrue'
  <2>1. \A i \in Ids : disk'[i] # NoRecord /\ disk'[i].state = "Completed" => work'[i] = "Completed"
    BY <1>1, <1>5, <1>7, <1>8 DEF Follows
  <2>2. \A i \in Ids : \A r \in S[i] : r # NoRecord /\ r.state = "Completed" => work[i] = "Completed"
    BY <1>4 DEF IInv, StoreInv, CompletedIsTrue
  <2>3. \A i \in Ids : \A r \in shadow'[i] : r # NoRecord /\ r.state = "Completed" => work'[i] = "Completed"
    BY <2>2, <1>5, <1>7, <1>9
  <2> QED
    BY <2>1, <2>3 DEF CompletedIsTrue
<1>15. InterruptedIsRecorded'
  BY <1>1, <1>5, <1>6, <1>8 DEF InterruptedIsRecorded, Follows, IInv, StoreInv, TypeOK
<1>16. \A i \in Ids : work[i] # "none" => disk'[i].req = disk[i].req
  BY <1>1, <1>7, <1>8, Zenon DEF Follows, IInv, StoreInv, RanIsRecorded
<1>17. OneOperationPerDatabase' /\ OneRunPerKey'
  <2>1. work' = work /\ OneOperationPerDatabase /\ OneRunPerKey
    BY <1>7, Zenon DEF IInv
  <2>2. OneOperationPerDatabase'
    BY <2>1, <1>16 DEF OneOperationPerDatabase
  <2>3. OneRunPerKey'
    BY <2>1, <1>16 DEF OneRunPerKey, SameKey
  <2> QED
    BY <2>2, <2>3
<1>18. TypeOK' /\ CompletedWasDone'
  BY <1>7, <1>10, NoAnswerFacts DEF TypeOK, StoreTypeOK, IInv
<1> QED
  BY <1>11, <1>12, <1>13, <1>14, <1>15, <1>17, <1>18 DEF IInv, StoreInv

\* FindOrCreate, whatever the listing said.
LEMMA FindOrCreateStep ==
    ASSUME IInv, NEW req \in Requests, FindOrCreate(req)
    PROVE  IInv'
<1>1. PICK o \in WriteOutcomes :
        \/ NotListed(o) \/ FindExisting(req, o) \/ RefuseNew(req, o)
        \/ \E id \in Ids : Create(req, o, id) \/ CreateFails(req, o, id)
  BY DEF FindOrCreate
<1>2. CASE NotListed(o) \/ RefuseNew(req, o)
  <2>1. /\ SettleAndRead(Ids, {}, o) \/ SettleAndRead(Ids, Ids, o)
        /\ Answer({}) /\ UNCHANGED <<damaged, up, work>>
    BY <1>2 DEF NotListed, RefuseNew, NoAnswer
  <2> QED
    BY <2>1, CallFacts
<1>3. CASE FindExisting(req, o)
  BY <1>3, FindExistingStep
<1>4. CASE \E id \in Ids : Create(req, o, id) \/ CreateFails(req, o, id)
  BY <1>4, CreateStep, CreateFailsStep DEF FindOrCreate
<1> QED
  BY <1>1, <1>2, <1>3, <1>4

\* FindByKey answers every operation under the key, or none.
LEMMA FindByKeyStep ==
    ASSUME IInv, NEW key, FindByKey(key)
    PROVE  IInv'
<1>1. PICK o \in WriteOutcomes, seen \in SUBSET Ids :
        LET found == {id \in ReadBack(Ids, o) : disk[id].req.key = key}
        IN /\ SettleAndRead(Ids, seen, o)
           /\ \/ Answer({})
              \/ Answer({[id |-> id, state |-> DiskAfter(Ids, Ids, o)[id].state] : id \in found})
  BY Zenon DEF FindByKey
<1>2. UNCHANGED <<damaged, up, work>>
  BY DEF FindByKey
<1> DEFINE found == {id \in ReadBack(Ids, o) : disk[id].req.key = key}
<1> DEFINE D == DiskAfter(Ids, Ids, o)
<1> DEFINE ops == {[id |-> id, state |-> D[id].state] : id \in found}
<1>3. CASE Answer({})
  BY <1>1, <1>2, <1>3, CallFacts
<1>4. CASE Answer(ops)
  <2>1. found \subseteq {id \in Ids : disk[id] # NoRecord}
    BY ReadBackFacts
  <2>2. \A id \in found : /\ D[id].state \in States
                          /\ D[id].state = "Completed" => work[id] = "Completed"
    <3> TAKE id \in found
    <3>1. id \in Ids /\ disk[id] # NoRecord
      BY <2>1
    <3> QED
      BY <3>1, ReadAnswers
  <2> HIDE DEF found, D
  <2>3. \A a \in ops : a \in [id : Ids, state : States] /\ (a.state = "Completed" => work[a.id] = "Completed")
    <3> TAKE a \in ops
    <3>1. PICK i \in found : a = [id |-> i, state |-> D[i].state]
      OBVIOUS
    <3>2. i \in Ids
      BY <2>1
    <3>3. D[i].state \in States /\ (D[i].state = "Completed" => work[i] = "Completed")
      BY <2>2
    <3> QED
      BY <3>1, <3>2, <3>3
  <2> HIDE DEF ops
  <2> QED
    BY <1>1, <1>2, <1>4, <2>3, CallFacts
<1> QED
  BY <1>1, <1>3, <1>4

\* Get answers the operation it settled and read.
LEMMA GetStep ==
    ASSUME IInv, NEW id \in Ids, Get(id)
    PROVE  IInv'
<1>1. PICK o \in WriteOutcomes :
        \/ SettleAndRead({id}, {}, o) /\ Answer({})
        \/ /\ SettleAndRead({id}, {id}, o)
           /\ Answer({[id |-> i, state |-> DiskAfter({id}, {id}, o)[i].state] : i \in ReadBack({id}, o)})
  BY Zenon DEF Get, NoAnswer
<1>2. UNCHANGED <<damaged, up, work>>
  BY DEF Get
<1>3. CASE SettleAndRead({id}, {}, o) /\ Answer({})
  BY <1>2, <1>3, CallFacts
<1> DEFINE D == DiskAfter({id}, {id}, o)
<1> DEFINE ops == {[id |-> i, state |-> D[i].state] : i \in ReadBack({id}, o)}
<1>4. CASE SettleAndRead({id}, {id}, o) /\ Answer(ops)
  <2>1. ReadBack({id}, o) \subseteq {i \in Ids : disk[i] # NoRecord}
    BY ReadBackFacts
  <2>2. \A i \in ReadBack({id}, o) : /\ D[i].state \in States
                                     /\ D[i].state = "Completed" => work[i] = "Completed"
    <3> TAKE i \in ReadBack({id}, o)
    <3>1. i \in Ids /\ disk[i] # NoRecord
      BY <2>1
    <3> QED
      BY <3>1, ReadAnswers
  <2> HIDE DEF D
  <2>3. \A a \in ops : a \in [id : Ids, state : States] /\ (a.state = "Completed" => work[a.id] = "Completed")
    <3> TAKE a \in ops
    <3>1. PICK i \in ReadBack({id}, o) : a = [id |-> i, state |-> D[i].state]
      OBVIOUS
    <3>2. i \in Ids
      BY <2>1
    <3>3. D[i].state \in States /\ (D[i].state = "Completed" => work[i] = "Completed")
      BY <2>2, Zenon
    <3> QED
      BY <3>1, <3>2, <3>3
  <2> HIDE DEF ops
  <2> QED
    BY <1>2, <1>4, <2>3, CallFacts
<1> QED
  BY <1>1, <1>3, <1>4

\* UnwrittenEnds retries the kept ends and answers nothing.
LEMMA UnwrittenEndsStep ==
    ASSUME IInv, UnwrittenEnds
    PROVE  IInv'
<1>1. PICK o \in WriteOutcomes : SettleAndRead(Ids, {}, o) /\ Answer({})
  BY DEF UnwrittenEnds, NoAnswer
<1> QED
  BY <1>1, CallFacts DEF UnwrittenEnds

\* A write of one running operation's record, with or without its end.
LEMMA OwnWriteFacts ==
    ASSUME IInv, NEW id \in Ids, work[id] = "running", NEW state \in States,
           disk' = disk \/ disk' = [disk EXCEPT ![id].state = state]
    PROVE  /\ disk' \in [Ids -> Records \cup {NoRecord}]
           /\ \A i \in Ids : disk'[i] # NoRecord <=> disk[i] # NoRecord
           /\ \A i \in Ids : disk[i] # NoRecord => disk'[i].req = disk[i].req
           /\ \A i \in Ids \ {id} : disk'[i] = disk[i]
           /\ disk'[id] \in Records
           /\ disk'[id].state \in {disk[id].state, state}
<1>1. disk[id] \in Records /\ disk \in [Ids -> Records \cup {NoRecord}]
  BY DEF IInv, StoreInv, RunningIsOpen, TypeOK
<1>2. CASE disk' = disk
  BY <1>1, <1>2
<1>3. CASE disk' = [disk EXCEPT ![id].state = state]
  <2> DEFINE r == [disk[id] EXCEPT !.state = state]
  <2>1. r \in Records /\ r.req = disk[id].req /\ r.state = state
    BY <1>1 DEF Records
  <2>2. r # NoRecord
    BY <2>1, NoRecordAssumption
  <2>3. disk' = [disk EXCEPT ![id] = r]
    BY <1>3
  <2> HIDE DEF r
  <2> QED
    BY <1>1, <2>1, <2>2, <2>3, NoRecordAssumption
<1> QED
  BY <1>2, <1>3

\* A step that keeps every record with its request, and whose earlier contents
\* are those of before or the record it replaced, keeps what relates records to
\* the operations that ran.
LEMMA KeepsRecordsFacts ==
    ASSUME IInv,
           \A i \in Ids : disk'[i] # NoRecord <=> disk[i] # NoRecord,
           \A i \in Ids : disk[i] # NoRecord => disk'[i].req = disk[i].req,
           \A i \in Ids : \A r \in shadow'[i] : r \in shadow[i] \/ (r = disk[i] /\ r # NoRecord),
           \A i \in Ids : /\ work'[i] = "none" <=> work[i] = "none"
                          /\ work[i] = "Completed" => work'[i] = "Completed"
                          /\ work'[i] = "running" => work[i] = "running",
           \A i \in Ids : disk'[i] # NoRecord /\ disk'[i].state = "Completed" => work'[i] = "Completed"
    PROVE  RanIsRecorded' /\ CompletedIsTrue' /\ OneOperationPerDatabase' /\ OneRunPerKey'
<1> USE DEF IInv, StoreInv
<1>1. RanIsRecorded'
  BY DEF RanIsRecorded
<1>2. CompletedIsTrue'
  BY DEF CompletedIsTrue
<1>3. \A i \in Ids : work[i] # "none" => disk'[i].req = disk[i].req
  BY DEF RanIsRecorded
<1>4. OneOperationPerDatabase'
  BY <1>3 DEF OneOperationPerDatabase
<1>5. OneRunPerKey'
  BY <1>3 DEF OneRunPerKey, SameKey
<1> QED
  BY <1>1, <1>2, <1>4, <1>5

\* The goroutine of an operation records a step of its work.
LEMMA UpdateStep ==
    ASSUME IInv, NEW id \in Ids, Update(id)
    PROVE  IInv'
<1>1. PICK o \in [{id} -> Outcomes] :
        /\ disk' = disk \/ disk' = [disk EXCEPT ![id].state = "Running"]
        /\ \E kept \in Kept({id}, o) : shadow' = ShadowAfter({id}, o, kept)
  BY DEF Update
<1>2. PICK kept \in Kept({id}, o) : shadow' = ShadowAfter({id}, o, kept)
  BY <1>1
<1>3. /\ UNCHANGED <<damaged, up, unsettled, interrupted, work>>
      /\ NoAnswer /\ work[id] = "running" /\ Readable(id)
  BY DEF Update
<1>4. /\ disk' \in [Ids -> Records \cup {NoRecord}]
      /\ \A i \in Ids : disk'[i] # NoRecord <=> disk[i] # NoRecord
      /\ \A i \in Ids : disk[i] # NoRecord => disk'[i].req = disk[i].req
      /\ \A i \in Ids \ {id} : disk'[i] = disk[i]
      /\ disk'[id] \in Records
      /\ disk'[id].state \in {disk[id].state, "Running"}
  BY <1>1, <1>3, OwnWriteFacts DEF States, OpenStates
<1>5. /\ shadow' \in [Ids -> SUBSET (Records \cup {NoRecord})]
      /\ \A i \in Ids : \A r \in shadow'[i] : r \in shadow[i] \/ (r = disk[i] /\ r # NoRecord)
  <2> DEFINE w == {id}
  <2>1. w \in SUBSET {i \in Ids : Readable(i)}
    BY <1>3
  <2>2. kept \in Kept(w, o) /\ shadow' = ShadowAfter(w, o, kept)
    BY <1>2
  <2>3. TypeOK
    BY DEF IInv
  <2> HIDE DEF w
  <2>4. /\ ShadowAfter(w, o, kept) \in [Ids -> SUBSET (Records \cup {NoRecord})]
        /\ \A i \in Ids : \A r \in ShadowAfter(w, o, kept)[i] : r \in shadow[i] \/ (r = disk[i] /\ r # NoRecord)
    BY <2>1, <2>2, <2>3, ShadowAfterFacts
  <2> QED
    BY <2>2, <2>4
<1>6. disk[id].state # "Completed" /\ ~Terminal(disk[id].state)
  BY <1>3 DEF IInv, StoreInv, RunningIsOpen, NotEnded, Terminal, Ends
<1>7. \A i \in Ids : disk'[i] # NoRecord /\ disk'[i].state = "Completed" => work'[i] = "Completed"
  BY <1>3, <1>4, <1>6 DEF IInv, StoreInv, CompletedIsTrue
<1>8. RanIsRecorded' /\ CompletedIsTrue' /\ OneOperationPerDatabase' /\ OneRunPerKey'
  <2>1. \A i \in Ids : /\ work'[i] = "none" <=> work[i] = "none"
                       /\ work[i] = "Completed" => work'[i] = "Completed"
                       /\ work'[i] = "running" => work[i] = "running"
    BY <1>3
  <2> QED
    BY <1>4, <1>5, <1>7, <2>1, KeepsRecordsFacts
<1>9. RunningIsOpen'
  <2>1. ~Terminal(disk'[id].state)
    BY <1>4, <1>6 DEF Terminal, Ends
  <2> QED
    BY <2>1, <1>3, <1>4, Zenon DEF RunningIsOpen, NotEnded, IInv, StoreInv
<1>10. KeptIsTrue' /\ InterruptedIsRecorded'
  BY <1>3, <1>4 DEF KeptIsTrue, InterruptedIsRecorded, IInv, StoreInv, TypeOK
<1>11. TypeOK' /\ CompletedWasDone'
  BY <1>3, <1>4, <1>5, NoAnswerFacts DEF TypeOK, IInv
<1> QED
  BY <1>8, <1>9, <1>10, <1>11 DEF IInv, StoreInv

\* The goroutine of an operation ends: its end is on disk or kept.
LEMMA SettleStep ==
    ASSUME IInv, NEW id \in Ids, NEW end \in Ends, Settle(id, end)
    PROVE  IInv'
<1>1. PICK o \in [{id} -> Outcomes] :
        /\ disk' = IF Readable(id) /\ o[id] # "failed" THEN [disk EXCEPT ![id].state = end] ELSE disk
        /\ IF Readable(id)
           THEN \E kept \in Kept({id}, o) : shadow' = ShadowAfter({id}, o, kept)
           ELSE shadow' = shadow
        /\ unsettled' = [unsettled EXCEPT ![id] = IF Readable(id) /\ o[id] = "written" THEN "none" ELSE end]
  BY Zenon DEF Settle
<1>2. /\ UNCHANGED <<damaged, up, interrupted>>
      /\ work' = [work EXCEPT ![id] = end]
      /\ NoAnswer /\ work[id] = "running"
  BY DEF Settle
<1>3. /\ disk' \in [Ids -> Records \cup {NoRecord}]
      /\ \A i \in Ids : disk'[i] # NoRecord <=> disk[i] # NoRecord
      /\ \A i \in Ids : disk[i] # NoRecord => disk'[i].req = disk[i].req
      /\ \A i \in Ids \ {id} : disk'[i] = disk[i]
      /\ disk'[id] \in Records
      /\ disk'[id].state \in {disk[id].state, end}
  BY <1>1, <1>2, OwnWriteFacts, Zenon DEF States
<1>4. /\ shadow' \in [Ids -> SUBSET (Records \cup {NoRecord})]
      /\ \A i \in Ids : \A r \in shadow'[i] : r \in shadow[i] \/ (r = disk[i] /\ r # NoRecord)
  <2>1. CASE Readable(id)
    <3> DEFINE w == {id}
    <3>1. PICK kept \in Kept(w, o) : shadow' = ShadowAfter(w, o, kept)
      BY <2>1, <1>1
    <3>2. w \in SUBSET {i \in Ids : Readable(i)} /\ TypeOK
      BY <2>1 DEF IInv
    <3> HIDE DEF w
    <3>3. /\ ShadowAfter(w, o, kept) \in [Ids -> SUBSET (Records \cup {NoRecord})]
          /\ \A i \in Ids : \A r \in ShadowAfter(w, o, kept)[i] : r \in shadow[i] \/ (r = disk[i] /\ r # NoRecord)
      BY <3>2, ShadowAfterFacts
    <3> QED
      BY <3>1, <3>3
  <2>2. CASE ~Readable(id)
    BY <2>2, <1>1 DEF IInv, TypeOK
  <2> QED
    BY <2>1, <2>2
<1>5. /\ work' \in [Ids -> Ends \cup {"none", "running", "cut"}]
      /\ work'[id] = end /\ \A i \in Ids \ {id} : work'[i] = work[i]
  BY <1>2 DEF IInv, TypeOK
<1>6. /\ unsettled' \in [Ids -> Ends \cup {"none"}]
      /\ unsettled'[id] \in {"none", end} /\ \A i \in Ids \ {id} : unsettled'[i] = unsettled[i]
  BY <1>1 DEF IInv, TypeOK
<1>7. \A i \in Ids : /\ work'[i] = "none" <=> work[i] = "none"
                     /\ work[i] = "Completed" => work'[i] = "Completed"
                     /\ work'[i] = "running" => work[i] = "running" /\ i # id
  BY <1>2, <1>5 DEF Ends
<1>8. \A i \in Ids : disk'[i] # NoRecord /\ disk'[i].state = "Completed" => work'[i] = "Completed"
  <2>1. disk[id].state # "Completed"
    BY <1>2 DEF IInv, StoreInv, RunningIsOpen, NotEnded, Terminal, Ends
  <2>2. disk'[id].state = "Completed" => work'[id] = "Completed"
    BY <1>3, <1>5, <2>1
  <2>3. \A i \in Ids : disk[i] # NoRecord /\ disk[i].state = "Completed" => work[i] = "Completed"
    BY DEF IInv, StoreInv, CompletedIsTrue
  <2> QED
    BY <1>3, <1>5, <2>2, <2>3
<1>9. RanIsRecorded' /\ CompletedIsTrue' /\ OneOperationPerDatabase' /\ OneRunPerKey'
  BY <1>3, <1>4, <1>7, <1>8, KeepsRecordsFacts
<1>10. RunningIsOpen'
  BY <1>2, <1>3, <1>6, <1>7 DEF RunningIsOpen, NotEnded, IInv, StoreInv
<1>11. KeptIsTrue' /\ InterruptedIsRecorded'
  BY <1>2, <1>3, <1>5, <1>6 DEF KeptIsTrue, InterruptedIsRecorded, RunningIsOpen, IInv, StoreInv, TypeOK
<1>12. TypeOK' /\ CompletedWasDone'
  BY <1>2, <1>3, <1>4, <1>5, <1>6, <1>7, NoAnswerFacts, Zenon DEF TypeOK, IInv
<1> QED
  BY <1>9, <1>10, <1>11, <1>12 DEF IInv, StoreInv

\* The records a start fails keep their requests.
LEMMA FailedOnStartFacts ==
    ASSUME IInv, NEW ids \in SUBSET Unfinished, disk' = FailedOnStart(ids)
    PROVE  /\ disk' \in [Ids -> Records \cup {NoRecord}]
           /\ \A i \in Ids : disk'[i] # NoRecord <=> disk[i] # NoRecord
           /\ \A i \in Ids : disk[i] # NoRecord => disk'[i].req = disk[i].req
           /\ \A i \in Ids : disk'[i] # disk[i] => disk'[i].state = "Failed"
<1>1. ASSUME NEW i \in Ids
      PROVE  /\ disk'[i] \in Records \cup {NoRecord}
             /\ disk'[i] # NoRecord <=> disk[i] # NoRecord
             /\ disk[i] # NoRecord => disk'[i].req = disk[i].req
             /\ disk'[i] # disk[i] => disk'[i].state = "Failed"
  <2> DEFINE r == [disk[i] EXCEPT !.state = "Failed"]
  <2>1. CASE i \in ids
    <3>1. disk[i] \in Records /\ disk'[i] = r
      BY <2>1 DEF Unfinished, Readable, IInv, TypeOK, FailedOnStart
    <3>2. r \in Records /\ r.req = disk[i].req /\ r.state = "Failed"
      BY <3>1 DEF Records, States, Ends
    <3> QED
      BY <3>1, <3>2, NoRecordAssumption
  <2>2. CASE i \notin ids
    BY <2>2 DEF FailedOnStart, IInv, TypeOK
  <2> QED
    BY <2>1, <2>2
<1>2. disk' = [i \in Ids |-> disk'[i]]
  BY DEF FailedOnStart
<1> QED
  BY <1>1, <1>2

\* A start, complete or not: records are failed, and every earlier content is
\* one of before or the record that was replaced.
LEMMA StartFacts ==
    ASSUME IInv, ~up, NEW ids \in SUBSET Unfinished, disk' = FailedOnStart(ids),
           shadow' \in [Ids -> SUBSET (Records \cup {NoRecord})],
           \A i \in Ids : \A r \in shadow'[i] : r \in shadow[i] \/ (r = disk[i] /\ r # NoRecord),
           UNCHANGED <<damaged, unsettled, work>>, NoAnswer, up' \in BOOLEAN,
           interrupted' \subseteq {i \in Ids : disk[i] # NoRecord},
           \A i \in interrupted' : unsettled[i] = "none"
    PROVE  IInv'
<1>1. /\ disk' \in [Ids -> Records \cup {NoRecord}]
      /\ \A i \in Ids : disk'[i] # NoRecord <=> disk[i] # NoRecord
      /\ \A i \in Ids : disk[i] # NoRecord => disk'[i].req = disk[i].req
      /\ \A i \in Ids : disk'[i] # disk[i] => disk'[i].state = "Failed"
  BY FailedOnStartFacts
<1>2. \A i \in Ids : work[i] # "running"
  BY DEF IInv, StoreInv, RunningIsOpen
<1>3. \A i \in Ids : disk'[i] # NoRecord /\ disk'[i].state = "Completed" => work'[i] = "Completed"
  BY <1>1 DEF IInv, StoreInv, CompletedIsTrue
<1>4. RanIsRecorded' /\ CompletedIsTrue' /\ OneOperationPerDatabase' /\ OneRunPerKey'
  BY <1>1, <1>3, KeepsRecordsFacts
<1>5. RunningIsOpen' /\ KeptIsTrue' /\ InterruptedIsRecorded'
  BY <1>1, <1>2, Zenon DEF RunningIsOpen, KeptIsTrue, InterruptedIsRecorded, IInv, StoreInv
<1>6. TypeOK' /\ CompletedWasDone'
  BY <1>1, NoAnswerFacts DEF TypeOK, IInv
<1> QED
  BY <1>4, <1>5, <1>6 DEF IInv, StoreInv

\* NewOperationStore opens the store, or fails and ends the process.
LEMMA StartStep ==
    ASSUME IInv, reconcileOnStart \/ StartFails
    PROVE  IInv'
<1>1. ~up /\ \A i \in Ids : unsettled[i] = "none"
  BY Zenon DEF reconcileOnStart, StartFails, IInv, StoreInv, KeptIsTrue
<1>2. /\ shadow \in [Ids -> SUBSET (Records \cup {NoRecord})]
      /\ [i \in Ids |-> {}] \in [Ids -> SUBSET (Records \cup {NoRecord})]
      /\ damaged \subseteq Ids
  BY DEF IInv, TypeOK
<1>3. CASE reconcileOnStart
  <2>1. /\ shadow' \in [Ids -> SUBSET (Records \cup {NoRecord})]
        /\ \A i \in Ids : \A r \in shadow'[i] : r \in shadow[i]
    BY <1>2, <1>3 DEF reconcileOnStart
  <2>2. interrupted' \subseteq {i \in Ids : disk[i] # NoRecord}
    BY <1>2, <1>3 DEF reconcileOnStart
  <2> QED
    BY <1>1, <1>3, <2>1, <2>2, StartFacts DEF reconcileOnStart
<1>4. CASE StartFails
  <2>1. PICK done \in SUBSET Unfinished, id \in Unfinished :
          LET shadows == IF done = {} THEN shadow ELSE [i \in Ids |-> {}]
          IN \/ disk' = FailedOnStart(done) /\ shadow' = shadows
             \/ /\ disk' = FailedOnStart(done \cup {id})
                /\ shadow' = [shadows EXCEPT ![id] = IF PowerLoss THEN @ \cup {disk[id]} ELSE @]
    BY <1>4, Zenon DEF StartFails
  <2> DEFINE S == IF done = {} THEN shadow ELSE [i \in Ids |-> {}]
  <2>2. S \in [Ids -> SUBSET (Records \cup {NoRecord})] /\ \A i \in Ids : \A r \in S[i] : r \in shadow[i]
    BY <1>2
  <2>3. id \in Ids /\ disk[id] \in Records /\ disk[id] # NoRecord
    BY DEF Unfinished, Readable, IInv, TypeOK
  <2>4. shadow' = S \/ shadow' = [S EXCEPT ![id] = IF PowerLoss THEN @ \cup {disk[id]} ELSE @]
    BY <2>1, Zenon
  <2>5. PICK ids \in SUBSET Unfinished : disk' = FailedOnStart(ids)
    BY <2>1
  <2> HIDE DEF S
  <2>6. /\ shadow' \in [Ids -> SUBSET (Records \cup {NoRecord})]
        /\ \A i \in Ids : \A r \in shadow'[i] : r \in shadow[i] \/ (r = disk[i] /\ r # NoRecord)
    BY <2>2, <2>3, <2>4
  <2>7. /\ UNCHANGED <<damaged, up, unsettled, interrupted, work>> /\ NoAnswer
        /\ interrupted \subseteq {i \in Ids : disk[i] # NoRecord}
    BY <1>4 DEF StartFails, IInv, StoreInv, InterruptedIsRecorded, TypeOK
  <2>8. up' \in BOOLEAN
    BY <2>7 DEF IInv, TypeOK
  <2> QED
    BY <1>1, <2>5, <2>6, <2>7, <2>8, StartFacts
<1> QED
  BY <1>3, <1>4

\* The process or the node stops: what was running is cut short, and each
\* record is its visible content or an earlier one.
LEMMA StopStep ==
    ASSUME IInv, Crash \/ LosePower
    PROVE  IInv'
<1> USE DEF IInv, StoreInv
<1>1. Stopped
  BY DEF Crash, LosePower
<1>2. /\ up' = FALSE /\ interrupted' = {} /\ unsettled' = [id \in Ids |-> "none"] /\ NoAnswer
      /\ work' = [id \in Ids |-> IF work[id] = "running" THEN "cut" ELSE work[id]]
  BY <1>1 DEF Stopped
<1>3. /\ work' \in [Ids -> Ends \cup {"none", "running", "cut"}]
      /\ \A id \in Ids : /\ work'[id] = "none" <=> work[id] = "none"
                         /\ work[id] = "Completed" => work'[id] = "Completed"
                         /\ work'[id] # "running"
                         /\ unsettled'[id] = "none"
  BY <1>2 DEF TypeOK, Ends
<1>4. /\ disk' \in [Ids -> Records \cup {NoRecord}]
      /\ shadow' \in [Ids -> SUBSET (Records \cup {NoRecord})]
      /\ damaged' \subseteq Ids
      /\ \A id \in Ids : disk'[id] \in {disk[id]} \cup shadow[id]
      /\ \A id \in Ids : shadow'[id] \subseteq shadow[id]
      /\ \A id \in Ids : disk'[id] # disk[id] => shadow'[id] = {}
  <2>1. CASE Crash
    BY <2>1 DEF Crash, TypeOK
  <2>2. CASE LosePower
    <3>1. PICK d \in [Ids -> UNION {{disk[id]} \cup shadow[id] : id \in Ids}] :
            /\ \A id \in Ids : d[id] \in {disk[id]} \cup shadow[id]
            /\ disk' = d
            /\ damaged' = {id \in damaged : d[id] # NoRecord}
      BY <2>2 DEF LosePower
    <3>2. shadow' = [id \in Ids |-> {}]
      BY <2>2 DEF LosePower
    <3>3. \A id \in Ids : d[id] \in Records \cup {NoRecord}
      BY <3>1 DEF TypeOK
    <3>4. d = [id \in Ids |-> d[id]]
      BY <3>1
    <3>5. damaged' \subseteq Ids
      BY <3>1 DEF TypeOK
    <3> QED
      BY <3>1, <3>2, <3>3, <3>4, <3>5
  <2> QED
    BY <2>1, <2>2
<1>5. \A id \in Ids : work[id] # "none" => disk'[id] # NoRecord /\ disk'[id].req = disk[id].req
  BY <1>4 DEF RanIsRecorded
<1>6. RanIsRecorded'
  BY <1>3, <1>4, <1>5 DEF RanIsRecorded
<1>7. CompletedIsTrue'
  BY <1>3, <1>4 DEF CompletedIsTrue
<1>8. RunningIsOpen' /\ KeptIsTrue' /\ InterruptedIsRecorded' /\ OneOperationPerDatabase'
  BY <1>2, <1>3 DEF RunningIsOpen, KeptIsTrue, InterruptedIsRecorded, OneOperationPerDatabase
<1>9. OneRunPerKey'
  BY <1>3, <1>5 DEF OneRunPerKey, SameKey
<1>10. TypeOK' /\ CompletedWasDone'
  BY <1>2, <1>3, <1>4, NoAnswerFacts, Zenon DEF TypeOK
<1> QED
  BY <1>6, <1>7, <1>8, <1>9, <1>10

\* A record becomes unreadable or readable: no operation is affected.
LEMMA DamageStep ==
    ASSUME IInv, NEW id \in Ids, Damage(id)
    PROVE  IInv'
<1>1. UNCHANGED <<disk, shadow, up, unsettled, interrupted, work>> /\ NoAnswer
  BY DEF Damage
<1>2. damaged' \subseteq Ids
  BY DEF Damage, IInv, TypeOK
<1>3. TypeOK' /\ CompletedWasDone'
  BY <1>1, <1>2, NoAnswerFacts DEF TypeOK, IInv
<1>4. StoreInv'
  BY <1>1 DEF IInv, StoreInv, RunningIsOpen, NotEnded, RanIsRecorded, KeptIsTrue, CompletedIsTrue, InterruptedIsRecorded
<1> QED
  BY <1>1, <1>3, <1>4 DEF IInv, OneOperationPerDatabase, OneRunPerKey

-----------------------------------------------------------------------------
\* An empty volume satisfies the invariant.
LEMMA InitIInv == Init => IInv
<1> SUFFICES ASSUME Init PROVE IInv
  OBVIOUS
<1>1. TypeOK
  BY Zenon DEF Init, TypeOK
<1>2. StoreInv
  BY DEF Init, StoreInv, RunningIsOpen, RanIsRecorded, KeptIsTrue, CompletedIsTrue, InterruptedIsRecorded
<1> QED
  BY <1>1, <1>2 DEF Init, IInv, OneOperationPerDatabase, OneRunPerKey, CompletedWasDone

\* Every method, start, stop and failure preserves the invariant.
LEMMA NextIInv == IInv /\ [Next]_vars => IInv'
<1> SUFFICES ASSUME IInv, [Next]_vars PROVE IInv'
  OBVIOUS
<1>1. ASSUME NEW req \in Requests, FindOrCreate(req) \/ FindByKey(req.key)
      PROVE  IInv'
  BY <1>1, FindOrCreateStep, FindByKeyStep
<1>2. ASSUME NEW id \in Ids, Get(id) \/ Update(id) \/ Damage(id)
      PROVE  IInv'
  BY <1>2, GetStep, UpdateStep, DamageStep
<1>3. ASSUME NEW id \in Ids, NEW end \in Ends, Settle(id, end)
      PROVE  IInv'
  BY <1>3, SettleStep
<1>4. ASSUME UnwrittenEnds \/ reconcileOnStart \/ StartFails \/ Crash \/ LosePower
      PROVE  IInv'
  BY <1>4, UnwrittenEndsStep, StartStep, StopStep
<1>5. CASE UNCHANGED vars
  <2>1. UNCHANGED <<disk, shadow, damaged, up, unsettled, interrupted, work, answers, told>>
    BY <1>5 DEF vars
  <2>2. TypeOK'
    BY <2>1 DEF IInv, TypeOK
  <2>3. RunningIsOpen' /\ KeptIsTrue' /\ InterruptedIsRecorded'
    BY <2>1 DEF IInv, StoreInv, RunningIsOpen, NotEnded, KeptIsTrue, InterruptedIsRecorded
  <2>4. RanIsRecorded' /\ CompletedIsTrue'
    BY <2>1 DEF IInv, StoreInv, RanIsRecorded, CompletedIsTrue
  <2>5. OneOperationPerDatabase' /\ OneRunPerKey' /\ CompletedWasDone'
    BY <2>1 DEF IInv, OneOperationPerDatabase, OneRunPerKey, CompletedWasDone
  <2> QED
    BY <2>2, <2>3, <2>4, <2>5 DEF IInv, StoreInv
<1> QED
  BY <1>1, <1>2, <1>3, <1>4, <1>5 DEF Next

\* IInv holds in every state of the store, whatever fails to be written, read or
\* removed and whenever the process or the node stops.
THEOREM Inductive == Spec => []IInv
  BY InitIInv, NextIInv, PTL DEF Spec

\* Every state of the store is well typed.
THEOREM TypeCorrect == Spec => []TypeOK
<1>1. IInv => TypeOK
  BY DEF IInv
<1> QED
  BY <1>1, Inductive, PTL

\* FindOrCreate never lets two operations work on one database at once.
THEOREM DatabaseIsExclusive == Spec => []OneOperationPerDatabase
<1>1. IInv => OneOperationPerDatabase
  BY DEF IInv
<1> QED
  BY <1>1, Inductive, PTL

\* FindOrCreate never starts the work of one key twice, across restarts, power
\* losses and unreadable records.
THEOREM KeyRunsOnce == Spec => []OneRunPerKey
<1>1. IInv => OneRunPerKey
  BY DEF IInv
<1> QED
  BY <1>1, Inductive, PTL

\* Get, FindByKey and FindOrCreate call an operation Completed only if its work
\* completed.
THEOREM CompletedIsNeverInvented == Spec => []CompletedWasDone
<1>1. IInv => CompletedWasDone
  BY DEF IInv
<1> QED
  BY <1>1, Inductive, PTL

-----------------------------------------------------------------------------
\* While the process runs, an operation that is over and whose record does not
\* say so is known to be over: its end is kept, or its interruption.
OpenIsKnown ==
    up => \A id \in Ids : disk[id] # NoRecord /\ NotEnded(id) /\ work[id] \notin {"running", "none"}
            => unsettled[id] # "none" \/ id \in interrupted

\* Settling and reading forget a kept end or an interruption only once the
\* record has the end.
LEMMA KnownAfter ==
    ASSUME TypeOK, OpenIsKnown, NEW toSettle \in SUBSET Ids, NEW toRead \in SUBSET Ids, NEW o, NEW id \in Ids,
           up, disk[id] # NoRecord, ~Terminal(DiskAfter(toSettle, toRead, o)[id].state),
           work[id] \notin {"running", "none"}
    PROVE  UnsettledAfter(toSettle, o)[id] # "none" \/ id \in InterruptedAfter(toRead, o)
<1>1. /\ NotEnded(id)
      /\ id \in Settling(toSettle) \cup Failing(toRead) => o[id] = "failed"
  <2>1. disk[id] \in Records /\ unsettled[id] \in Ends \cup {"none"}
    BY DEF TypeOK
  <2>2. Terminal(EndRecord(id).state)
    BY <2>1 DEF EndRecord, Records, Terminal, Ends
  <2>3. ~(id \in Settling(toSettle) \cup Failing(toRead) /\ o[id] # "failed")
    BY <2>2 DEF DiskAfter
  <2> QED
    BY <2>3 DEF DiskAfter, NotEnded
<1>2. CASE unsettled[id] # "none"
  BY <1>1, <1>2 DEF UnsettledAfter
<1>3. CASE id \in interrupted
  BY <1>1, <1>3, Zenon DEF InterruptedAfter, Failing
<1> QED
  BY <1>1, <1>2, <1>3, Zenon DEF OpenIsKnown

\* A record that was read back and is answered as open, with no end kept, is of
\* an operation that is not over.
LEMMA AnsweredOpen ==
    ASSUME TypeOK, OpenIsKnown, NEW toSettle \in SUBSET Ids, NEW toRead \in SUBSET Ids, NEW o,
           up, NEW id \in ReadBack(toRead, o), UnsettledAfter(toSettle, o)[id] = "none",
           ~Terminal(DiskAfter(toSettle, toRead, o)[id].state)
    PROVE  work[id] \in {"running", "none"}
<1>1. id \in Ids /\ disk[id] # NoRecord /\ Readable(id)
  BY DEF ReadBack, Readable
<1>2. id \notin InterruptedAfter(toRead, o)
  BY <1>1 DEF ReadBack, InterruptedAfter
<1> QED
  BY <1>1, <1>2, KnownAfter

\* A call that settles and reads, and changes no other record of an operation
\* that is over.
LEMMA CallKnown ==
    ASSUME TypeOK, StoreInv, OpenIsKnown, NEW toSettle \in SUBSET Ids, NEW toRead \in SUBSET Ids, NEW o, up,
           \A id \in Ids : work'[id] \notin {"running", "none"} =>
                work'[id] = work[id] /\ disk'[id] = DiskAfter(toSettle, toRead, o)[id],
           unsettled' = UnsettledAfter(toSettle, o), interrupted' = InterruptedAfter(toRead, o)
    PROVE  OpenIsKnown'
<1> SUFFICES ASSUME NEW id \in Ids, disk'[id] # NoRecord, ~Terminal(disk'[id].state),
                    work'[id] \notin {"running", "none"}
             PROVE  unsettled'[id] # "none" \/ id \in interrupted'
  BY DEF OpenIsKnown, NotEnded
<1>1. work'[id] = work[id] /\ disk'[id] = DiskAfter(toSettle, toRead, o)[id]
  BY Zenon
<1>2. disk[id] # NoRecord
  <2>1. Follows(DiskAfter(toSettle, toRead, o))
    BY DiskAfterFacts, Zenon
  <2> QED
    BY <1>1, <2>1, Zenon DEF Follows
<1> QED
  BY <1>1, <1>2, KnownAfter, Zenon

\* settleAndRead answers open of an operation only where it knows it.
LEMMA SettleAndReadKnown ==
    ASSUME TypeOK, StoreInv, OpenIsKnown, NEW toSettle \in SUBSET Ids, NEW toRead \in SUBSET Ids, NEW o, up,
           SettleAndRead(toSettle, toRead, o), UNCHANGED work
    PROVE  OpenIsKnown'
<1>1. /\ disk' = DiskAfter(toSettle, toRead, o)
      /\ unsettled' = UnsettledAfter(toSettle, o) /\ interrupted' = InterruptedAfter(toRead, o)
  BY DEF SettleAndRead
<1> QED
  BY <1>1, CallKnown, Zenon

\* A call that answers nothing says of nothing that it is open.
LEMMA NoAnswerOpen ==
    ASSUME Answer({})
    PROVE  OpenIsNotOver'
  BY DEF Answer, OpenIsNotOver

\* FindOrCreate answers what it read back with no end kept, or the operation
\* whose work it has just started.
LEMMA FindOrCreateKnown ==
    ASSUME TypeOK, StoreInv, OpenIsKnown, NEW req \in Requests, FindOrCreate(req)
    PROVE  OpenIsKnown' /\ OpenIsNotOver'
<1>1. up
  BY DEF FindOrCreate
<1>2. PICK o \in WriteOutcomes :
        \/ NotListed(o) \/ FindExisting(req, o) \/ RefuseNew(req, o)
        \/ \E id \in Ids : Create(req, o, id) \/ CreateFails(req, o, id)
  BY DEF FindOrCreate
<1>3. CASE NotListed(o)
  BY <1>1, <1>3, SettleAndReadKnown, NoAnswerOpen DEF NotListed, NoAnswer
<1>4. CASE FindExisting(req, o)
  <2>1. SettleAndRead(Ids, Ids, o) /\ UNCHANGED work
    BY <1>4, Zenon DEF FindExisting
  <2>2. OpenIsKnown'
    BY <1>1, <2>1, SettleAndReadKnown
  <2>3. PICK id \in UnderKey(req, o) :
          \/ Answer({})
          \/ /\ UnsettledAfter(Ids, o)[id] = "none"
             /\ Answer({[id |-> id, state |-> DiskAfter(Ids, Ids, o)[id].state]})
    BY <1>4, Zenon DEF FindExisting, NoAnswer
  <2>4. id \in ReadBack(Ids, o)
    BY DEF UnderKey, Listed
  <2>5. CASE Answer({})
    BY <2>2, <2>5, NoAnswerOpen
  <2>6. CASE /\ UnsettledAfter(Ids, o)[id] = "none"
             /\ Answer({[id |-> id, state |-> DiskAfter(Ids, Ids, o)[id].state]})
    <3>1. ~Terminal(DiskAfter(Ids, Ids, o)[id].state) => work[id] \in {"running", "none"}
      BY <1>1, <2>4, <2>6, AnsweredOpen, Zenon
    <3>2. answers' = {[id |-> id, state |-> DiskAfter(Ids, Ids, o)[id].state]}
      BY <2>6 DEF Answer
    <3>3. \A a \in answers' : a.id = id /\ a.state = DiskAfter(Ids, Ids, o)[id].state
      BY <3>2
    <3>4. OpenIsNotOver'
      BY <2>1, <3>1, <3>3, Zenon DEF OpenIsNotOver
    <3> QED
      BY <2>2, <3>4
  <2> QED
    BY <2>3, <2>5, <2>6
<1>5. CASE RefuseNew(req, o)
  BY <1>1, <1>5, SettleAndReadKnown, NoAnswerOpen DEF RefuseNew, NoAnswer
<1>6. ASSUME NEW id \in Ids, Create(req, o, id)
      PROVE  OpenIsKnown' /\ OpenIsNotOver'
  <2>1. /\ disk' = [DiskAfter(Ids, Ids, o) EXCEPT ![id] = NewRecord(req)]
        /\ work' = [work EXCEPT ![id] = "running"]
        /\ unsettled' = UnsettledAfter(Ids, o) /\ interrupted' = InterruptedAfter(Ids, o)
        /\ answers' = {[id |-> id, state |-> "Pending"]}
    BY <1>6, Zenon DEF Create, Answer
  <2>2. work'[id] = "running"
    BY <2>1 DEF TypeOK
  <2>3. \A i \in Ids \ {id} : work'[i] = work[i] /\ disk'[i] = DiskAfter(Ids, Ids, o)[i]
    BY <2>1 DEF TypeOK, DiskAfter
  <2>4. \A i \in Ids : work'[i] \notin {"running", "none"} =>
            work'[i] = work[i] /\ disk'[i] = DiskAfter(Ids, Ids, o)[i]
    BY <2>2, <2>3, Zenon
  <2>5. OpenIsKnown'
    BY <1>1, <2>1, <2>4, CallKnown
  <2> QED
    BY <2>1, <2>2, <2>5 DEF OpenIsNotOver
<1>7. ASSUME NEW id \in Ids, CreateFails(req, o, id)
      PROVE  OpenIsKnown' /\ OpenIsNotOver'
  <2>1. /\ unsettled' = UnsettledAfter(Ids, o) /\ interrupted' = InterruptedAfter(Ids, o)
        /\ work' = work /\ work[id] = "none" /\ Answer({})
    BY <1>7, Zenon DEF CreateFails, NoAnswer, Fresh
  <2>2. disk' = DiskAfter(Ids, Ids, o) \/ disk' = [DiskAfter(Ids, Ids, o) EXCEPT ![id] = NewRecord(req)]
    BY <1>7 DEF CreateFails
  <2>3. \A i \in Ids : work'[i] \notin {"running", "none"} =>
            work'[i] = work[i] /\ disk'[i] = DiskAfter(Ids, Ids, o)[i]
    BY <2>1, <2>2, Zenon DEF DiskAfter
  <2>4. OpenIsKnown'
    <3>1. Ids \in SUBSET Ids
      OBVIOUS
    <3> QED
      BY <1>1, <2>1, <2>3, <3>1, CallKnown, Zenon
  <2> QED
    BY <2>1, <2>4, NoAnswerOpen
<1> QED
  BY <1>2, <1>3, <1>4, <1>5, <1>6, <1>7

\* FindByKey answers only when every record was read and no end of one is kept.
LEMMA FindByKeyKnown ==
    ASSUME TypeOK, StoreInv, OpenIsKnown, NEW key, FindByKey(key)
    PROVE  OpenIsKnown' /\ OpenIsNotOver'
<1>1. up /\ UNCHANGED work
  BY Zenon DEF FindByKey
<1>2. PICK o \in WriteOutcomes, seen \in SUBSET Ids :
        LET found == {id \in ReadBack(Ids, o) : disk[id].req.key = key}
        IN /\ SettleAndRead(Ids, seen, o)
           /\ \/ Answer({})
              \/ /\ \A id \in found : UnsettledAfter(Ids, o)[id] = "none"
                 /\ Answer({[id |-> id, state |-> DiskAfter(Ids, Ids, o)[id].state] : id \in found})
  BY Zenon DEF FindByKey
<1> DEFINE found == {id \in ReadBack(Ids, o) : disk[id].req.key = key}
<1> DEFINE ops == {[id |-> id, state |-> DiskAfter(Ids, Ids, o)[id].state] : id \in found}
<1>3. OpenIsKnown'
  BY <1>1, <1>2, SettleAndReadKnown, Zenon
<1>4. CASE Answer({})
  BY <1>3, <1>4, NoAnswerOpen
<1>5. CASE Answer(ops) /\ \A id \in found : UnsettledAfter(Ids, o)[id] = "none"
  <2>1. ASSUME NEW id \in found, ~Terminal(DiskAfter(Ids, Ids, o)[id].state)
        PROVE  work[id] \in {"running", "none"}
    BY <1>1, <1>5, <2>1, AnsweredOpen, Zenon
  <2>2. answers' = ops
    BY <1>5, Zenon DEF Answer
  <2> HIDE DEF found
  <2>3. ASSUME NEW a \in ops, ~Terminal(a.state)
        PROVE  work[a.id] \in {"running", "none"}
    <3>1. PICK id \in found : a = [id |-> id, state |-> DiskAfter(Ids, Ids, o)[id].state]
      BY Zenon
    <3>2. a.id = id /\ a.state = DiskAfter(Ids, Ids, o)[id].state
      BY <3>1
    <3>3. ~Terminal(DiskAfter(Ids, Ids, o)[id].state)
      BY <2>3, <3>2, Zenon
    <3> QED
      BY <2>1, <3>2, <3>3, Zenon
  <2> HIDE DEF ops
  <2>4. \A a \in answers' : ~Terminal(a.state) => work'[a.id] \in {"running", "none"}
    BY <1>1, <2>2, <2>3
  <2> QED
    BY <1>3, <2>4 DEF OpenIsNotOver
<1> QED
  BY <1>2, <1>4, <1>5, Zenon

\* Get answers the operation it is asked for, once no end of it is kept.
LEMMA GetKnown ==
    ASSUME TypeOK, StoreInv, OpenIsKnown, NEW id \in Ids, Get(id)
    PROVE  OpenIsKnown' /\ OpenIsNotOver'
<1>1. up /\ UNCHANGED work
  BY DEF Get
<1>2. PICK o \in WriteOutcomes :
        \/ SettleAndRead({id}, {}, o) /\ Answer({})
        \/ /\ unsettled[id] = "none" \/ UnsettledAfter({id}, o)[id] = "none"
           /\ SettleAndRead({id}, {id}, o)
           /\ Answer({[id |-> i, state |-> DiskAfter({id}, {id}, o)[i].state] : i \in ReadBack({id}, o)})
  BY Zenon DEF Get, NoAnswer
<1>3. CASE SettleAndRead({id}, {}, o) /\ Answer({})
  BY <1>1, <1>3, SettleAndReadKnown, NoAnswerOpen
<1> DEFINE ops == {[id |-> i, state |-> DiskAfter({id}, {id}, o)[i].state] : i \in ReadBack({id}, o)}
<1>4. CASE /\ unsettled[id] = "none" \/ UnsettledAfter({id}, o)[id] = "none"
           /\ SettleAndRead({id}, {id}, o)
           /\ Answer(ops)
  <2>1. OpenIsKnown'
    BY <1>1, <1>4, SettleAndReadKnown, Zenon
  <2>2. UnsettledAfter({id}, o)[id] = "none"
    BY <1>4, Zenon DEF UnsettledAfter
  <2>3. ASSUME NEW i \in ReadBack({id}, o), ~Terminal(DiskAfter({id}, {id}, o)[i].state)
        PROVE  work[i] \in {"running", "none"}
    <3>1. i = id
      BY DEF ReadBack
    <3> QED
      BY <1>1, <2>2, <2>3, <3>1, AnsweredOpen, Zenon
  <2>4. answers' = ops
    BY <1>4, Zenon DEF Answer
  <2> QED
    <3>1. \A a \in answers' : \E i \in ReadBack({id}, o) : a.id = i /\ a.state = DiskAfter({id}, {id}, o)[i].state
      BY <2>4
    <3>2. OpenIsNotOver'
      BY <1>1, <2>3, <3>1, Zenon DEF OpenIsNotOver
    <3> QED
      BY <2>1, <3>2
<1> QED
  BY <1>2, <1>3, <1>4, Zenon

\* A running operation's own writes: when its end is not on record it is kept.
LEMMA GoroutineKnown ==
    ASSUME TypeOK, OpenIsKnown, NEW id \in Ids, Update(id) \/ \E end \in Ends : Settle(id, end)
    PROVE  OpenIsKnown' /\ OpenIsNotOver'
<1>1. CASE Update(id)
  <2>1. /\ work[id] = "running" /\ UNCHANGED <<up, unsettled, interrupted, work>> /\ Answer({})
        /\ \A i \in Ids \ {id} : disk'[i] = disk[i]
    BY <1>1 DEF Update, NoAnswer, TypeOK
  <2> QED
    BY <2>1, NoAnswerOpen, Zenon DEF OpenIsKnown, NotEnded
<1>2. ASSUME NEW end \in Ends, Settle(id, end)
      PROVE  OpenIsKnown' /\ OpenIsNotOver'
  <2>1. /\ UNCHANGED <<up, interrupted>> /\ Answer({})
        /\ \A i \in Ids \ {id} : disk'[i] = disk[i] /\ work'[i] = work[i] /\ unsettled'[i] = unsettled[i]
    BY <1>2 DEF Settle, NoAnswer, TypeOK
  <2>2. PICK o \in [{id} -> Outcomes] :
          /\ disk' = IF Readable(id) /\ o[id] # "failed" THEN [disk EXCEPT ![id].state = end] ELSE disk
          /\ unsettled' = [unsettled EXCEPT ![id] = IF Readable(id) /\ o[id] = "written" THEN "none" ELSE end]
    BY <1>2, Zenon DEF Settle
  <2>3. CASE Readable(id) /\ o[id] # "failed"
    <3>1. disk[id] \in Records
      BY <2>3 DEF Readable, TypeOK
    <3>2. disk'[id].state = end
      BY <2>2, <2>3, <3>1 DEF Records, TypeOK
    <3> QED
      BY <2>1, <3>2, NoAnswerOpen, Zenon DEF OpenIsKnown, NotEnded, Terminal
  <2>4. CASE ~(Readable(id) /\ o[id] # "failed")
    <3>1. unsettled'[id] = end /\ end # "none"
      BY <2>2, <2>4 DEF TypeOK, Ends
    <3> QED
      BY <2>1, <3>1, NoAnswerOpen, Zenon DEF OpenIsKnown, NotEnded
  <2> QED
    BY <2>3, <2>4
<1> QED
  BY <1>1, <1>2

\* The start fails what it can read and remembers what it cannot.
LEMMA StartKnown ==
    ASSUME TypeOK, reconcileOnStart
    PROVE  OpenIsKnown' /\ OpenIsNotOver'
<1>1. /\ disk' = FailedOnStart(Unfinished) /\ interrupted' = {id \in damaged : disk[id] # NoRecord}
      /\ Answer({})
  BY DEF reconcileOnStart, NoAnswer
<1>2. ASSUME NEW id \in Ids, disk'[id] # NoRecord, ~Terminal(disk'[id].state)
      PROVE  id \in interrupted'
  <2>1. id \notin Unfinished
    <3> SUFFICES ASSUME id \in Unfinished PROVE FALSE
      OBVIOUS
    <3>1. disk[id] \in Records
      BY DEF Unfinished, Readable, TypeOK
    <3> QED
      BY <1>1, <1>2, <3>1 DEF FailedOnStart, Records, Terminal, Ends
  <2>2. disk'[id] = disk[id]
    BY <1>1, <2>1 DEF FailedOnStart
  <2> QED
    BY <1>1, <1>2, <2>1, <2>2 DEF Unfinished, Readable, NotEnded
<1> QED
  BY <1>1, <1>2, NoAnswerOpen, Zenon DEF OpenIsKnown, NotEnded

\* Every step keeps OpenIsKnown and answers as open only what is not over.
LEMMA NextKnown ==
    ASSUME IInv, OpenIsKnown, OpenIsNotOver, [Next]_vars
    PROVE  OpenIsKnown' /\ OpenIsNotOver'
<1>0. TypeOK /\ StoreInv
  BY DEF IInv
<1>1. ASSUME NEW req \in Requests, FindOrCreate(req) \/ FindByKey(req.key)
      PROVE  OpenIsKnown' /\ OpenIsNotOver'
  BY <1>0, <1>1, FindOrCreateKnown, FindByKeyKnown
<1>2. ASSUME NEW id \in Ids, Get(id) \/ Update(id) \/ \E end \in Ends : Settle(id, end)
      PROVE  OpenIsKnown' /\ OpenIsNotOver'
  BY <1>0, <1>2, GetKnown, GoroutineKnown
<1>3. ASSUME NEW id \in Ids, Damage(id)
      PROVE  OpenIsKnown' /\ OpenIsNotOver'
  <2>1. UNCHANGED <<disk, up, unsettled, interrupted, work>> /\ Answer({})
    BY <1>3 DEF Damage, NoAnswer
  <2> QED
    BY <2>1, NoAnswerOpen DEF OpenIsKnown, NotEnded
<1>4. CASE UnwrittenEnds
  BY <1>0, <1>4, SettleAndReadKnown, NoAnswerOpen DEF UnwrittenEnds, NoAnswer
<1>5. CASE reconcileOnStart
  BY <1>0, <1>5, StartKnown
<1>6. CASE StartFails \/ Crash \/ LosePower
  <2>1. ~up' /\ Answer({})
    BY <1>6 DEF StartFails, Crash, LosePower, Stopped, NoAnswer
  <2> QED
    BY <2>1, NoAnswerOpen DEF OpenIsKnown
<1>7. CASE UNCHANGED vars
  <2>1. UNCHANGED <<disk, up, unsettled, interrupted, work, answers>>
    BY <1>7 DEF vars
  <2> QED
    BY <2>1 DEF OpenIsKnown, OpenIsNotOver, NotEnded
<1> QED
  BY <1>1, <1>2, <1>3, <1>4, <1>5, <1>6, <1>7 DEF Next

\* Get, FindByKey and FindOrCreate answer an operation as not ended only if it
\* has not ended and was not cut off by a stop of the process.
THEOREM OpenIsNeverOver == Spec => []OpenIsNotOver
<1>1. Init => OpenIsKnown /\ OpenIsNotOver
  BY DEF Init, OpenIsKnown, OpenIsNotOver
<1>2. IInv /\ OpenIsKnown /\ OpenIsNotOver /\ [Next]_vars => (OpenIsKnown /\ OpenIsNotOver)'
  BY NextKnown
<1> QED
  BY <1>1, <1>2, Inductive, PTL DEF Spec

-----------------------------------------------------------------------------
(* The operation store implements the operation ledger.                    *)

\* What a power loss may bring back is open or no record, or has the end that
\* is on disk.
EarlierIsOpen ==
    \A id \in Ids : \A r \in shadow[id] :
        r = NoRecord \/ ~Terminal(r.state) \/ Entry(r) = Entry(disk[id])

\* An end kept in memory that is on disk already is the same end.
KeptIsOnDisk ==
    \A id \in Ids : unsettled[id] # "none" /\ Terminal(disk[id].state) => disk[id].state = unsettled[id]

LedgerInv == EarlierIsOpen /\ KeptIsOnDisk

\* How one write may change a record: its request stays, and so does its end.
Wrote(before, after) ==
    \/ after = before
    \/ /\ before \in Records /\ after \in Records
       /\ after.req = before.req
       /\ Terminal(before.state) => after.state = before.state

\* What a step may add to what a power loss brings back.
Earlier(id, r) ==
    \/ r \in shadow[id]
    \/ r = disk[id] /\ r # NoRecord
    \/ disk[id] = NoRecord /\ (r = NoRecord \/ ~Terminal(r.state))

\* The entry of a record has its request and its end, or is open.
LEMMA EntryFacts ==
    ASSUME NEW r \in Records \cup {NoRecord}
    PROVE  /\ r = NoRecord => Entry(r) = NoRecord
           /\ r # NoRecord =>
                /\ Entry(r) # NoRecord
                /\ Entry(r) = [req |-> r.req, state |-> IF Terminal(r.state) THEN r.state ELSE "open"]
                /\ Entry(r).req = r.req
                /\ Entry(r).state = IF Terminal(r.state) THEN r.state ELSE "open"
<1>1. CASE r = NoRecord
  BY <1>1 DEF Entry
<1>2. CASE r # NoRecord
  <2>1. r \in Records
    BY <1>2
  <2>2. Entry(r) = [req |-> r.req, state |-> IF Terminal(r.state) THEN r.state ELSE "open"]
    BY <1>2, <2>1 DEF Entry, Records
  <2>3. CASE Terminal(r.state)
    <3>1. Entry(r) \in Records
      BY <2>1, <2>2, <2>3 DEF Records
    <3> QED
      BY <1>2, <2>2, <3>1, NoRecordAssumption
  <2>4. CASE ~Terminal(r.state)
    <3>1. Entry(r) \in [req : Requests, state : {"open"}]
      BY <2>1, <2>2, <2>4 DEF Records
    <3> QED
      BY <1>2, <2>2, <3>1, NoEntryAssumption
  <2> QED
    BY <2>3, <2>4
<1> QED
  BY <1>1, <1>2

\* A write leaves an entry as it was or ends it.
LEMMA WroteFacts ==
    ASSUME NEW before \in Records \cup {NoRecord}, NEW after \in Records \cup {NoRecord}, Wrote(before, after)
    PROVE  /\ before = NoRecord <=> after = NoRecord
           /\ \/ Entry(after) = Entry(before)
              \/ /\ Entry(before) # NoRecord
                 /\ Entry(before).state = "open"
                 /\ Entry(after) \in {[Entry(before) EXCEPT !.state = end] : end \in {"Completed", "Failed"}}
           /\ before # NoRecord /\ Terminal(before.state) => Entry(after) = Entry(before)
<1>1. CASE after = before
  BY <1>1, EntryFacts
<1>2. CASE after # before
  <2>1. /\ before \in Records /\ after \in Records /\ before # NoRecord /\ after # NoRecord
        /\ after.req = before.req
        /\ Terminal(before.state) => after.state = before.state
    BY <1>2, NoRecordAssumption DEF Wrote
  <2>2. /\ Entry(before) = [req |-> before.req, state |-> IF Terminal(before.state) THEN before.state ELSE "open"]
        /\ Entry(after) = [req |-> after.req, state |-> IF Terminal(after.state) THEN after.state ELSE "open"]
        /\ Entry(before) # NoRecord
    BY <2>1, EntryFacts
  <2>3. CASE Terminal(before.state) \/ ~Terminal(after.state)
    BY <2>1, <2>2, <2>3
  <2>4. CASE ~Terminal(before.state) /\ Terminal(after.state)
    <3>1. after.state \in {"Completed", "Failed"}
      BY <2>4 DEF Terminal, Ends
    <3>2. Entry(after) = [Entry(before) EXCEPT !.state = after.state]
      BY <2>1, <2>2, <2>4
    <3> QED
      BY <2>1, <2>2, <2>4, <3>1, <3>2
  <2> QED
    BY <2>3, <2>4
<1> QED
  BY <1>1, <1>2

\* The entries a power loss cannot change.
Settled == {id \in Ids : \A old \in shadow[id] : Entry(old) = Entry(disk[id])}

\* Entries that writes leave as they were stay settled, and what a power loss
\* brings back stays open or as it is.
LEMMA EarlierFacts ==
    ASSUME TypeOK, StoreTypeOK', EarlierIsOpen, NEW id \in Ids,
           \A r \in shadow'[id] : Earlier(id, r),
           Wrote(disk[id], disk'[id]) \/ disk[id] = NoRecord
    PROVE  /\ \A r \in shadow'[id] : r = NoRecord \/ ~Terminal(r.state) \/ Entry(r) = Entry(disk'[id])
           /\ id \in Settled /\ disk[id] # NoRecord /\ Entry(disk'[id]) = Entry(disk[id]) => id \in Settled'
<1>1. /\ disk[id] \in Records \cup {NoRecord} /\ disk'[id] \in Records \cup {NoRecord}
      /\ \A r \in shadow[id] : r \in Records \cup {NoRecord}
  BY DEF TypeOK, StoreTypeOK
<1>2. ASSUME NEW r \in shadow'[id]
      PROVE  r = NoRecord \/ ~Terminal(r.state) \/ Entry(r) = Entry(disk'[id])
  <2>1. CASE disk[id] = NoRecord
    <3>1. ASSUME r # NoRecord, Terminal(r.state) PROVE FALSE
      <4>1. r \in shadow[id]
        BY <2>1, <3>1 DEF Earlier
      <4>2. Entry(r) = NoRecord
        BY <2>1, <3>1, <4>1, Zenon DEF EarlierIsOpen, Entry
      <4> QED
        BY <1>1, <3>1, <4>1, <4>2, EntryFacts, Zenon
    <3> QED
      BY <3>1
  <2>2. CASE disk[id] # NoRecord
    <3>1. r \in shadow[id] \/ r = disk[id]
      BY <2>2 DEF Earlier
    <3>2. SUFFICES ASSUME r # NoRecord, Terminal(r.state)
                   PROVE  Entry(r) = Entry(disk'[id])
      BY Zenon
    <3>3. Entry(r) = Entry(disk[id]) /\ r \in Records \cup {NoRecord}
      BY <1>1, <3>1, <3>2, Zenon DEF EarlierIsOpen
    <3>4. Terminal(disk[id].state)
      <4>1. Entry(r).state = r.state
        BY <3>2, <3>3, EntryFacts, Zenon
      <4>2. Entry(disk[id]).state = IF Terminal(disk[id].state) THEN disk[id].state ELSE "open"
        BY <1>1, <2>2, EntryFacts, Zenon
      <4> QED
        BY <3>2, <3>3, <4>1, <4>2, Zenon DEF Terminal, Ends
    <3>5. Entry(disk'[id]) = Entry(disk[id])
      BY <1>1, <2>2, <3>4, WroteFacts
    <3> QED
      BY <3>3, <3>5
  <2> QED
    BY <2>1, <2>2, Zenon
<1>3. ASSUME id \in Settled, disk[id] # NoRecord, Entry(disk'[id]) = Entry(disk[id])
      PROVE  id \in Settled'
  <2>1. ASSUME NEW r \in shadow'[id] PROVE Entry(r) = Entry(disk'[id])
    BY <1>3, Zenon DEF Earlier, Settled
  <2> QED
    BY <2>1 DEF Settled
<1> QED
  BY <1>2, <1>3, Zenon

\* Writes of any number of records are ends in the ledger.
LEMMA WritesStep ==
    ASSUME TypeOK, StoreTypeOK', EarlierIsOpen,
           \A id \in Ids : Wrote(disk[id], disk'[id]),
           \A id \in Ids : \A r \in shadow'[id] : Earlier(id, r)
    PROVE  Ledger!Next /\ EarlierIsOpen'
<1>1. \A id \in Ids : disk[id] \in Records \cup {NoRecord} /\ disk'[id] \in Records \cup {NoRecord}
  BY DEF TypeOK, StoreTypeOK
<1>2. Ledger!End
  <2>1. \A id \in Ids :
          \/ Entry(disk'[id]) = Entry(disk[id])
          \/ /\ Entry(disk[id]) # NoRecord
             /\ Entry(disk[id]).state = "open"
             /\ Entry(disk'[id]) \in {[Entry(disk[id]) EXCEPT !.state = end] : end \in {"Completed", "Failed"}}
    BY <1>1, WroteFacts
  <2> QED
    BY <2>1 DEF Ledger!End, Ledger!Ended
<1>3. \A id \in Settled : Entry(disk[id]) # NoRecord /\ Entry(disk'[id]) = Entry(disk[id]) => id \in Settled'
  <2>1. \A id \in Ids : Entry(disk[id]) # NoRecord => disk[id] # NoRecord
    BY DEF Entry
  <2> QED
    BY <2>1, EarlierFacts, Zenon DEF Settled
<1>4. Ledger!Next
  BY <1>2, <1>3, Zenon DEF Ledger!Next, Settled
<1>5. EarlierIsOpen'
  BY EarlierFacts, Zenon DEF EarlierIsOpen
<1> QED
  BY <1>4, <1>5

\* A new record beside such writes is a new entry of the ledger.
LEMMA EnterStep ==
    ASSUME TypeOK, StoreTypeOK', EarlierIsOpen, NEW new \in Ids, NEW req \in Requests,
           disk[new] = NoRecord, disk'[new] = NewRecord(req),
           \A id \in Ids \ {new} : Wrote(disk[id], disk'[id]),
           \A id \in Ids : \A r \in shadow'[id] : Earlier(id, r),
           \A id \in Ids \ {new} : disk'[id] # NoRecord =>
             /\ ~SameKey(disk'[id].req, req)
             /\ disk'[id].req.db = req.db => Terminal(disk'[id].state)
    PROVE  Ledger!Next /\ EarlierIsOpen'
<1>1. \A id \in Ids : disk[id] \in Records \cup {NoRecord} /\ disk'[id] \in Records \cup {NoRecord}
  BY Zenon DEF TypeOK, StoreTypeOK
<1>2. Entry(disk[new]) = NoRecord /\ Entry(disk'[new]) = [req |-> req, state |-> "open"]
  <2>1. NewRecord(req) # NoRecord /\ NewRecord(req) \in Records
    <3>1. NewRecord(req) \in Records
      BY DEF NewRecord, Records, States, OpenStates
    <3> QED
      BY <3>1, NoRecordAssumption
  <2>2. NewRecord(req).req = req /\ ~Terminal(NewRecord(req).state)
    BY Zenon DEF NewRecord, Terminal, Ends
  <2> QED
    BY <2>1, <2>2, EntryFacts, Zenon
<1>3. \A id \in Ids \ {new} :
        \/ Entry(disk'[id]) = Entry(disk[id])
        \/ /\ Entry(disk[id]) # NoRecord
           /\ Entry(disk[id]).state = "open"
           /\ Entry(disk'[id]) \in {[Entry(disk[id]) EXCEPT !.state = end] : end \in {"Completed", "Failed"}}
  BY <1>1, WroteFacts
<1>4. \A id \in Ids \ {new} : Entry(disk'[id]) # NoRecord =>
        /\ ~(Entry(disk'[id]).req.key = req.key /\ Entry(disk'[id]).req.kind = req.kind)
        /\ Entry(disk'[id]).req.db = req.db => Entry(disk'[id]).state # "open"
  <2> SUFFICES ASSUME NEW id \in Ids \ {new}, Entry(disk'[id]) # NoRecord
               PROVE  /\ ~(Entry(disk'[id]).req.key = req.key /\ Entry(disk'[id]).req.kind = req.kind)
                      /\ Entry(disk'[id]).req.db = req.db => Entry(disk'[id]).state # "open"
    BY Zenon
  <2>1. disk'[id] # NoRecord
    BY DEF Entry
  <2>2. /\ Entry(disk'[id]).req = disk'[id].req
        /\ Entry(disk'[id]).state = IF Terminal(disk'[id].state) THEN disk'[id].state ELSE "open"
    BY <1>1, <2>1, EntryFacts, Zenon
  <2> QED
    BY <2>1, <2>2, Zenon DEF SameKey, Terminal, Ends
<1>5. Ledger!Enter(new, req)
  <2> DEFINE before == [id \in Ids |-> Entry(disk[id])]
             after  == [id \in Ids |-> Entry(disk'[id])]
             rest   == [after EXCEPT ![new] = NoRecord]
  <2>1. /\ before[new] = NoRecord /\ rest[new] = NoRecord
        /\ \A id \in Ids \ {new} : before[id] = Entry(disk[id]) /\ rest[id] = Entry(disk'[id])
    BY <1>2, Zenon
  <2>2. Ledger!Ended(before, rest)
    <3> HIDE DEF before, rest
    <3> SUFFICES ASSUME NEW id \in Ids
                 PROVE  \/ rest[id] = before[id]
                        \/ /\ before[id] # NoRecord
                           /\ before[id].state = "open"
                           /\ rest[id] \in {[before[id] EXCEPT !.state = end] : end \in {"Completed", "Failed"}}
      BY DEF Ledger!Ended
    <3>1. CASE id = new
      BY <2>1, <3>1
    <3>2. CASE id # new
      <4>1. before[id] = Entry(disk[id]) /\ rest[id] = Entry(disk'[id])
        BY <2>1, <3>2, Zenon
      <4> QED
        BY <1>3, <3>2, <4>1
    <3> QED
      BY <3>1, <3>2
  <2>3. /\ after[new] = [req |-> req, state |-> "open"]
        /\ \A id \in Ids \ {new} : after[id] # NoRecord =>
             /\ ~(after[id].req.key = req.key /\ after[id].req.kind = req.kind)
             /\ after[id].req.db = req.db => after[id].state # "open"
    BY <1>2, <1>4, Zenon
  <2> QED
    BY <2>1, <2>2, <2>3, Zenon DEF Ledger!Enter
<1>6. \A id \in Settled : Entry(disk[id]) # NoRecord /\ Entry(disk'[id]) = Entry(disk[id]) => id \in Settled'
  <2>1. \A id \in Ids : Entry(disk[id]) # NoRecord => disk[id] # NoRecord
    BY DEF Entry
  <2> QED
    BY <2>1, EarlierFacts, Zenon DEF Settled
<1>7. Ledger!Next
  BY <1>5, <1>6, Zenon DEF Ledger!Next, Settled
<1>8. EarlierIsOpen'
  BY EarlierFacts, Zenon DEF EarlierIsOpen
<1> QED
  BY <1>7, <1>8, Zenon

\* Settling and reading ends records, each once and in the way that is kept.
LEMMA DiskAfterWrote ==
    ASSUME IInv, KeptIsOnDisk, NEW toSettle \in SUBSET Ids, NEW toRead \in SUBSET Ids, NEW o, NEW id \in Ids
    PROVE  LET D == DiskAfter(toSettle, toRead, o)
           IN  /\ Wrote(disk[id], D[id])
               /\ unsettled[id] # "none" /\ Terminal(D[id].state) => D[id].state = unsettled[id]
<1> DEFINE D == DiskAfter(toSettle, toRead, o)
<1>1. CASE D[id] = disk[id]
  BY <1>1, Zenon DEF Wrote, KeptIsOnDisk
<1>2. CASE D[id] # disk[id]
  <2>1. /\ D[id] = EndRecord(id) /\ Readable(id)
        /\ unsettled[id] # "none" \/ NotEnded(id)
    BY <1>2, Zenon DEF DiskAfter, Settling, Failing
  <2>2. disk[id] \in Records /\ unsettled[id] \in Ends \cup {"none"}
    BY <2>1 DEF Readable, IInv, TypeOK
  <2>3. /\ EndRecord(id) \in Records
        /\ EndRecord(id).req = disk[id].req
        /\ EndRecord(id).state = IF unsettled[id] # "none" THEN unsettled[id] ELSE "Failed"
    BY <2>2 DEF EndRecord, Records, States, Ends
  <2>4. Terminal(disk[id].state) => EndRecord(id).state = disk[id].state
    BY <2>1, <2>3, Zenon DEF NotEnded, KeptIsOnDisk
  <2> QED
    BY <2>1, <2>2, <2>3, <2>4, Zenon DEF Wrote
<1> QED
  BY <1>1, <1>2, Zenon

\* The settling and reading part of every method.
LEMMA SettleAndReadLedger ==
    ASSUME IInv, LedgerInv, NEW toSettle \in SUBSET Ids, NEW toRead \in SUBSET Ids, NEW o,
           SettleAndRead(toSettle, toRead, o), UNCHANGED <<up, work>>
    PROVE  Ledger!Next /\ LedgerInv'
<1> USE DEF LedgerInv
<1> DEFINE written == Settling(toSettle) \cup Failing(toRead)
<1>1. PICK kept \in Kept(written, o) : shadow' = ShadowAfter(written, o, kept)
  BY DEF SettleAndRead
<1>2. \A id \in Ids : \A r \in shadow'[id] : Earlier(id, r)
  <2>1. written \in SUBSET {id \in Ids : Readable(id)}
    BY DEF Settling, Failing
  <2> HIDE DEF written
  <2> QED
    <3>1. \A id \in Ids : \A r \in ShadowAfter(written, o, kept)[id] : r \in shadow[id] \/ (r = disk[id] /\ r # NoRecord)
      BY <1>1, <2>1, ShadowAfterFacts DEF IInv
    <3> QED
      BY <1>1, <3>1, Zenon DEF Earlier
<1>3. \A id \in Ids : /\ Wrote(disk[id], disk'[id])
                      /\ unsettled[id] # "none" /\ Terminal(disk'[id].state) => disk'[id].state = unsettled[id]
  BY DiskAfterWrote, Zenon DEF SettleAndRead
<1>4. \A id \in Ids : unsettled'[id] \in {"none", unsettled[id]}
  BY MemoryAfterFacts, Zenon DEF SettleAndRead, IInv
<1>5. StoreTypeOK'
  BY SettleAndReadFacts
<1>6. Ledger!Next /\ EarlierIsOpen'
  BY <1>2, <1>3, <1>5, WritesStep, Zenon DEF IInv
<1>7. KeptIsOnDisk'
  BY <1>3, <1>4, Zenon DEF KeptIsOnDisk
<1> QED
  BY <1>6, <1>7

\* FindOrCreate's new record has its key and its database to itself.
LEMMA AdmissibleLedger ==
    ASSUME IInv, NEW req \in Requests, NEW o, Admissible(req, o), NEW i \in Ids
    PROVE  LET D == DiskAfter(Ids, Ids, o)
           IN  D[i] # NoRecord => /\ ~SameKey(D[i].req, req)
                                  /\ D[i].req.db = req.db => Terminal(D[i].state)
<1> DEFINE D == DiskAfter(Ids, Ids, o)
<1>1. D[i] # NoRecord => disk[i] # NoRecord /\ D[i].req = disk[i].req
  <2>1. Follows(D)
    BY DiskAfterFacts DEF IInv
  <2> HIDE DEF D
  <2> QED
    BY <2>1 DEF Follows
<1>2. disk[i] # NoRecord => i \in Listed(o)
  BY DEF Admissible, Unlisted
<1>3. D[i] # NoRecord => ~SameKey(D[i].req, req)
  BY <1>1, <1>2, Zenon DEF Admissible, UnderKey
<1>4. D[i] # NoRecord /\ D[i].req.db = req.db => Terminal(D[i].state)
  BY <1>1, <1>2, Zenon DEF Admissible, HoldsDatabase
<1> QED
  BY <1>3, <1>4, Zenon

\* FindOrCreate enters the new operation.
LEMMA CreateLedger ==
    ASSUME IInv, LedgerInv, up, NEW req \in Requests, NEW o, NEW id \in Ids, Create(req, o, id)
    PROVE  Ledger!Next /\ LedgerInv'
<1> USE DEF LedgerInv
<1> DEFINE D == DiskAfter(Ids, Ids, o)
<1>1. /\ disk' = [D EXCEPT ![id] = NewRecord(req)]
      /\ shadow' = [i \in Ids |-> {}]
      /\ disk[id] = NoRecord /\ work[id] = "none" /\ Admissible(req, o)
      /\ unsettled' = UnsettledAfter(Ids, o)
  BY Zenon DEF Create, Fresh
<1>2. D \in [Ids -> Records \cup {NoRecord}]
  BY DiskAfterFacts, Zenon DEF IInv, Follows
<1>3. disk'[id] = NewRecord(req) /\ \A i \in Ids \ {id} : disk'[i] = D[i]
  BY <1>1, <1>2, Zenon
<1>4. \A i \in Ids : /\ Wrote(disk[i], D[i])
                     /\ unsettled[i] # "none" /\ Terminal(D[i].state) => D[i].state = unsettled[i]
  BY DiskAfterWrote, Zenon
<1>5. \A i \in Ids : D[i] # NoRecord => /\ ~SameKey(D[i].req, req)
                                        /\ D[i].req.db = req.db => Terminal(D[i].state)
  BY <1>1, AdmissibleLedger, Zenon
<1> HIDE DEF D
<1>6. StoreTypeOK'
  BY CreateStep, Zenon DEF IInv, TypeOK, StoreTypeOK
<1>7. Ledger!Next /\ EarlierIsOpen'
  <2>1. TypeOK /\ EarlierIsOpen
    BY DEF IInv
  <2>2. \A i \in Ids \ {id} : Wrote(disk[i], disk'[i])
    BY <1>3, <1>4
  <2>3. \A i \in Ids \ {id} : disk'[i] # NoRecord =>
          /\ ~SameKey(disk'[i].req, req)
          /\ disk'[i].req.db = req.db => Terminal(disk'[i].state)
    BY <1>3, <1>5, Zenon
  <2>4. \A i \in Ids : \A r \in shadow'[i] : Earlier(i, r)
    BY <1>1, Zenon
  <2> QED
    BY <1>1, <1>3, <1>6, <2>1, <2>2, <2>3, <2>4, EnterStep, Zenon
<1>8. KeptIsOnDisk'
  <2>1. \A i \in Ids : unsettled'[i] \in {"none", unsettled[i]}
    BY <1>1, MemoryAfterFacts, Zenon DEF IInv
  <2>2. unsettled[id] = "none"
    BY <1>1 DEF IInv, StoreInv, KeptIsTrue, TypeOK, Ends
  <2> QED
    BY <1>3, <1>4, <2>1, <2>2, Zenon DEF KeptIsOnDisk
<1> QED
  BY <1>7, <1>8

\* FindOrCreate could not write the new record: it is entered, or may appear
\* after a power loss.
LEMMA CreateFailsLedger ==
    ASSUME IInv, LedgerInv, NEW req \in Requests, NEW o, NEW id \in Ids, CreateFails(req, o, id)
    PROVE  Ledger!Next /\ LedgerInv'
<1> USE DEF LedgerInv
<1> DEFINE D == DiskAfter(Ids, Ids, o)
<1> DEFINE written == Settling(Ids) \cup Failing(Ids)
<1>1. PICK kept \in Kept(written, o) :
        LET shadows == ShadowAfter(written, o, kept)
        IN \/ disk' = D /\ shadow' = shadows
           \/ disk' = D /\ shadow' = [shadows EXCEPT ![id] = {NoRecord, NewRecord(req)}]
           \/ /\ disk' = [D EXCEPT ![id] = NewRecord(req)]
              /\ shadow' = [shadows EXCEPT ![id] = IF PowerLoss THEN {NoRecord} ELSE {}]
  BY Zenon DEF CreateFails
<1> DEFINE S == ShadowAfter(written, o, kept)
<1>2. /\ disk[id] = NoRecord /\ work[id] = "none" /\ Admissible(req, o)
      /\ unsettled' = UnsettledAfter(Ids, o)
  BY Zenon DEF CreateFails, Fresh
<1>3. D \in [Ids -> Records \cup {NoRecord}]
  BY DiskAfterFacts, Zenon DEF IInv, Follows
<1>4. /\ S \in [Ids -> SUBSET (Records \cup {NoRecord})]
      /\ \A i \in Ids : \A r \in S[i] : Earlier(i, r)
  <2>1. written \in SUBSET {i \in Ids : Readable(i)}
    BY DEF Settling, Failing
  <2> HIDE DEF written
  <2>2. /\ S \in [Ids -> SUBSET (Records \cup {NoRecord})]
        /\ \A i \in Ids : \A r \in S[i] : r \in shadow[i] \/ (r = disk[i] /\ r # NoRecord)
    BY <1>1, <2>1, ShadowAfterFacts, Zenon DEF IInv
  <2> HIDE DEF S
  <2> QED
    BY <2>2, Zenon DEF Earlier
<1>5. \A i \in Ids : /\ Wrote(disk[i], D[i])
                     /\ unsettled[i] # "none" /\ Terminal(D[i].state) => D[i].state = unsettled[i]
  BY DiskAfterWrote, Zenon
<1>6. \A i \in Ids : D[i] # NoRecord => /\ ~SameKey(D[i].req, req)
                                        /\ D[i].req.db = req.db => Terminal(D[i].state)
  BY <1>2, AdmissibleLedger, Zenon
<1>7. \/ disk' = D /\ shadow' = S
      \/ disk' = D /\ shadow' = [S EXCEPT ![id] = {NoRecord, NewRecord(req)}]
      \/ /\ disk' = [D EXCEPT ![id] = NewRecord(req)]
         /\ shadow' = [S EXCEPT ![id] = IF PowerLoss THEN {NoRecord} ELSE {}]
  BY <1>1, Zenon
<1> HIDE DEF D, S
<1>8. \A i \in Ids : \A r \in shadow'[i] : Earlier(i, r)
  <2>1. ~Terminal(NewRecord(req).state)
    BY DEF NewRecord, Terminal, Ends
  <2>2. /\ \A i \in Ids \ {id} : shadow'[i] = S[i]
        /\ \A r \in shadow'[id] : r \in S[id] \/ r = NoRecord \/ r = NewRecord(req)
    <3>1. CASE shadow' = S
      BY <3>1
    <3>2. CASE shadow' = [S EXCEPT ![id] = {NoRecord, NewRecord(req)}]
      BY <1>4, <3>2
    <3>3. CASE shadow' = [S EXCEPT ![id] = IF PowerLoss THEN {NoRecord} ELSE {}]
      BY <1>4, <3>3
    <3> QED
      BY <1>7, <3>1, <3>2, <3>3
  <2>3. \A r \in shadow'[id] : Earlier(id, r)
    BY <1>2, <1>4, <2>1, <2>2, Zenon DEF Earlier
  <2> QED
    BY <1>4, <2>2, <2>3, Zenon
<1>9. StoreTypeOK'
  BY CreateFailsStep, Zenon DEF IInv, TypeOK, StoreTypeOK
<1>10. Ledger!Next /\ EarlierIsOpen'
  <2>1. CASE disk' = D
    BY <2>1, <1>5, <1>8, <1>9, WritesStep, Zenon DEF IInv
  <2>2. CASE disk' = [D EXCEPT ![id] = NewRecord(req)]
    <3>1. disk'[id] = NewRecord(req) /\ \A i \in Ids \ {id} : disk'[i] = D[i]
      BY <1>3, <2>2
    <3>2. TypeOK /\ EarlierIsOpen
      BY DEF IInv
    <3>3. \A i \in Ids \ {id} : Wrote(disk[i], disk'[i])
      BY <1>5, <3>1, Zenon
    <3>4. \A i \in Ids \ {id} : disk'[i] # NoRecord =>
            /\ ~SameKey(disk'[i].req, req)
            /\ disk'[i].req.db = req.db => Terminal(disk'[i].state)
      BY <1>6, <3>1, Zenon
    <3> QED
      BY <1>2, <1>8, <1>9, <3>1, <3>2, <3>3, <3>4, EnterStep, Zenon
  <2> QED
    BY <1>7, <2>1, <2>2
<1>11. KeptIsOnDisk'
  <2>1. \A i \in Ids : unsettled'[i] \in {"none", unsettled[i]}
    BY <1>2, MemoryAfterFacts, Zenon DEF IInv
  <2>2. unsettled[id] = "none"
    BY <1>2 DEF IInv, StoreInv, KeptIsTrue, TypeOK, Ends
  <2>3. \A i \in Ids \ {id} : disk'[i] = D[i]
    BY <1>3, <1>7
  <2> QED
    BY <1>5, <2>1, <2>2, <2>3, Zenon DEF KeptIsOnDisk
<1> QED
  BY <1>10, <1>11

\* A running operation's goroutine writes its record, or cannot.
LEMMA OwnWriteLedger ==
    ASSUME IInv, StoreTypeOK', LedgerInv, NEW id \in Ids, work[id] = "running", NEW state \in States,
           disk' = disk \/ disk' = [disk EXCEPT ![id].state = state],
           \/ shadow' = shadow
           \/ Readable(id) /\ \E o : \E kept \in Kept({id}, o) : shadow' = ShadowAfter({id}, o, kept)
    PROVE  /\ Ledger!Next /\ EarlierIsOpen'
           /\ ~Terminal(disk[id].state)
           /\ \A i \in Ids \ {id} : disk'[i] = disk[i]
           /\ disk'[id].state \in {disk[id].state, state}
<1>1. /\ \A i \in Ids \ {id} : disk'[i] = disk[i]
      /\ disk'[id] \in Records /\ disk'[id].req = disk[id].req
      /\ disk'[id].state \in {disk[id].state, state}
  BY OwnWriteFacts DEF IInv, StoreInv, RunningIsOpen
<1>2. disk[id] \in Records /\ ~Terminal(disk[id].state)
  BY DEF IInv, StoreInv, RunningIsOpen, NotEnded, TypeOK
<1>3. \A i \in Ids : Wrote(disk[i], disk'[i])
  BY <1>1, <1>2 DEF Wrote
<1>4. \A i \in Ids : \A r \in shadow'[i] : Earlier(i, r)
  <2>1. CASE shadow' = shadow
    BY <2>1 DEF Earlier
  <2>2. ASSUME NEW o, NEW kept \in Kept({id}, o), shadow' = ShadowAfter({id}, o, kept), Readable(id)
        PROVE  \A i \in Ids : \A r \in shadow'[i] : Earlier(i, r)
    <3> DEFINE w == {id}
    <3>1. w \in SUBSET {i \in Ids : Readable(i)} /\ kept \in Kept(w, o) /\ shadow' = ShadowAfter(w, o, kept)
      BY <2>2
    <3> HIDE DEF w
    <3> QED
      BY <3>1, ShadowAfterFacts DEF Earlier, IInv
  <2> QED
    BY <2>1, <2>2
<1>5. Ledger!Next /\ EarlierIsOpen'
  BY <1>3, <1>4, WritesStep DEF IInv, LedgerInv
<1> QED
  BY <1>1, <1>2, <1>5

\* Update and Settle.
LEMMA GoroutineLedger ==
    ASSUME IInv, IInv', LedgerInv, NEW id \in Ids, Update(id) \/ \E end \in Ends : Settle(id, end)
    PROVE  Ledger!Next /\ LedgerInv'
<1>1. StoreTypeOK'
  BY DEF IInv, TypeOK, StoreTypeOK
<1>2. unsettled \in [Ids -> Ends \cup {"none"}]
  BY DEF IInv, TypeOK
<1>3. CASE Update(id)
  <2>1. /\ work[id] = "running" /\ unsettled' = unsettled /\ Readable(id)
        /\ disk' = disk \/ disk' = [disk EXCEPT ![id].state = "Running"]
        /\ \E o : \E kept \in Kept({id}, o) : shadow' = ShadowAfter({id}, o, kept)
    BY <1>3 DEF Update
  <2>2. /\ Ledger!Next /\ EarlierIsOpen'
        /\ \A i \in Ids \ {id} : disk'[i] = disk[i]
    BY <1>1, <2>1, OwnWriteLedger DEF States, OpenStates
  <2>3. unsettled[id] = "none"
    BY <2>1 DEF IInv, StoreInv, RunningIsOpen
  <2> QED
    BY <2>1, <2>2, <2>3 DEF LedgerInv, KeptIsOnDisk
<1>4. ASSUME NEW end \in Ends, Settle(id, end)
      PROVE  Ledger!Next /\ LedgerInv'
  <2>1. /\ work[id] = "running"
        /\ disk' = disk \/ disk' = [disk EXCEPT ![id].state = end]
        /\ \/ shadow' = shadow
           \/ Readable(id) /\ \E o : \E kept \in Kept({id}, o) : shadow' = ShadowAfter({id}, o, kept)
    BY <1>4, Zenon DEF Settle
  <2>2. \E e \in {"none", end} : unsettled' = [unsettled EXCEPT ![id] = e]
    BY <1>4, Zenon DEF Settle
  <2>3. unsettled'[id] \in {"none", end} /\ \A i \in Ids \ {id} : unsettled'[i] = unsettled[i]
    BY <1>2, <2>2
  <2>4. /\ Ledger!Next /\ EarlierIsOpen'
        /\ ~Terminal(disk[id].state)
        /\ \A i \in Ids \ {id} : disk'[i] = disk[i]
        /\ disk'[id].state \in {disk[id].state, end}
    BY <1>1, <2>1, OwnWriteLedger, Zenon DEF States
  <2> QED
    BY <2>3, <2>4, Zenon DEF LedgerInv, KeptIsOnDisk
<1> QED
  BY <1>3, <1>4

\* A start ends the records it fails.
LEMMA StartLedger ==
    ASSUME IInv, IInv', LedgerInv, reconcileOnStart \/ StartFails
    PROVE  Ledger!Next /\ LedgerInv'
<1>1. StoreTypeOK'
  BY DEF IInv, TypeOK, StoreTypeOK
<1>2. unsettled' = unsettled /\ \A i \in Ids : unsettled[i] = "none"
  BY Zenon DEF reconcileOnStart, StartFails, IInv, StoreInv, KeptIsTrue
<1>3. ASSUME NEW ids \in SUBSET Unfinished, disk' = FailedOnStart(ids)
      PROVE  \A i \in Ids : Wrote(disk[i], disk'[i])
  <2> SUFFICES ASSUME NEW i \in Ids, disk'[i] # disk[i] PROVE Wrote(disk[i], disk'[i])
    BY DEF Wrote
  <2>1. i \in Unfinished
    BY <1>3 DEF FailedOnStart
  <2>2. disk[i] \in Records /\ disk'[i] \in Records /\ disk'[i].req = disk[i].req
    BY <1>3, <2>1, FailedOnStartFacts, Zenon DEF Unfinished, Readable, IInv, TypeOK
  <2> QED
    BY <2>1, <2>2, Zenon DEF Wrote, Unfinished, NotEnded
<1>4. /\ \E ids \in SUBSET Unfinished : disk' = FailedOnStart(ids)
      /\ \A i \in Ids : \A r \in shadow'[i] : Earlier(i, r)
  <2>1. CASE reconcileOnStart
    BY <2>1, Zenon DEF reconcileOnStart, Earlier
  <2>2. CASE StartFails
    <3>1. PICK done \in SUBSET Unfinished, id \in Unfinished :
            LET shadows == IF done = {} THEN shadow ELSE [i \in Ids |-> {}]
            IN \/ disk' = FailedOnStart(done) /\ shadow' = shadows
               \/ /\ disk' = FailedOnStart(done \cup {id})
                  /\ shadow' = [shadows EXCEPT ![id] = IF PowerLoss THEN @ \cup {disk[id]} ELSE @]
      BY <2>2, Zenon DEF StartFails
    <3> DEFINE S == IF done = {} THEN shadow ELSE [i \in Ids |-> {}]
    <3>2. DOMAIN S = Ids /\ \A i \in Ids : \A r \in S[i] : r \in shadow[i]
      BY DEF IInv, TypeOK
    <3>3. id \in Ids /\ disk[id] # NoRecord
      BY DEF Unfinished, Readable
    <3>4. shadow' = S \/ shadow' = [S EXCEPT ![id] = IF PowerLoss THEN @ \cup {disk[id]} ELSE @]
      BY <3>1, Zenon
    <3>5. \E ids \in SUBSET Unfinished : disk' = FailedOnStart(ids)
      BY <3>1
    <3> HIDE DEF S
    <3> QED
      BY <3>2, <3>3, <3>4, <3>5 DEF Earlier
  <2> QED
    BY <2>1, <2>2
<1>5. Ledger!Next /\ EarlierIsOpen'
  BY <1>1, <1>3, <1>4, WritesStep, Zenon DEF IInv, LedgerInv
<1> QED
  BY <1>2, <1>5 DEF LedgerInv, KeptIsOnDisk

\* A power loss takes back what is not settled.
LEMMA LosePowerLedger ==
    ASSUME IInv, IInv', LedgerInv, LosePower
    PROVE  Ledger!Next /\ LedgerInv'
<1>1. /\ \A id \in Ids : disk'[id] \in {disk[id]} \cup shadow[id]
      /\ shadow' = [id \in Ids |-> {}]
      /\ unsettled' = [id \in Ids |-> "none"]
  BY DEF LosePower, Stopped
<1>2. \A id \in Ids : disk'[id] \in Records \cup {NoRecord}
  BY DEF IInv, TypeOK
<1>3. ASSUME NEW id \in Ids
      PROVE  \/ Entry(disk'[id]) = Entry(disk[id])
             \/ /\ id \notin Settled
                /\ Entry(disk'[id]) = NoRecord \/ Entry(disk'[id]).state = "open"
  <2> SUFFICES ASSUME Entry(disk'[id]) # Entry(disk[id])
               PROVE  /\ id \notin Settled
                      /\ Entry(disk'[id]) = NoRecord \/ Entry(disk'[id]).state = "open"
    OBVIOUS
  <2>1. disk'[id] \in shadow[id]
    BY <1>1
  <2>2. disk'[id] = NoRecord \/ ~Terminal(disk'[id].state)
    BY <2>1 DEF LedgerInv, EarlierIsOpen
  <2>3. Entry(disk'[id]) = NoRecord \/ Entry(disk'[id]).state = "open"
    BY <1>2, <2>2, EntryFacts
  <2> QED
    BY <2>1, <2>3 DEF Settled
<1>4. Settled' = Ids
  BY <1>1, Zenon DEF Settled
<1>5. Ledger!Lose
  BY <1>3, <1>4, Zenon DEF Ledger!Lose, Settled
<1>6. Ledger!Next
  BY <1>5, Zenon DEF Ledger!Next
<1> QED
  BY <1>1, <1>6, Zenon DEF LedgerInv, EarlierIsOpen, KeptIsOnDisk

\* A step that leaves the directory alone and keeps no new end.
LEMMA IdleLedger ==
    ASSUME IInv, IInv', LedgerInv, UNCHANGED <<disk, shadow>>,
           \A id \in Ids : unsettled'[id] \in {"none", unsettled[id]}
    PROVE  Ledger!Next /\ LedgerInv'
<1>1. Ledger!Next /\ EarlierIsOpen'
  BY WritesStep, Zenon DEF IInv, LedgerInv, TypeOK, StoreTypeOK, Wrote, Earlier
<1> QED
  BY <1>1, Zenon DEF LedgerInv, KeptIsOnDisk

\* FindOrCreate, whatever the listing said.
LEMMA FindOrCreateLedger ==
    ASSUME IInv, LedgerInv, NEW req \in Requests, FindOrCreate(req)
    PROVE  Ledger!Next /\ LedgerInv'
<1>1. PICK o \in WriteOutcomes :
        \/ NotListed(o) \/ FindExisting(req, o) \/ RefuseNew(req, o)
        \/ \E id \in Ids : Create(req, o, id) \/ CreateFails(req, o, id)
  BY DEF FindOrCreate
<1>2. CASE NotListed(o) \/ FindExisting(req, o) \/ RefuseNew(req, o)
  <2>1. /\ SettleAndRead(Ids, {}, o) \/ SettleAndRead(Ids, Ids, o)
        /\ UNCHANGED <<up, work>>
    BY <1>2, Zenon DEF NotListed, FindExisting, RefuseNew
  <2> QED
    BY <2>1, SettleAndReadLedger
<1>3. CASE \E id \in Ids : Create(req, o, id) \/ CreateFails(req, o, id)
  BY <1>3, CreateLedger, CreateFailsLedger DEF FindOrCreate
<1> QED
  BY <1>1, <1>2, <1>3

\* The methods that settle and read, and create nothing.
LEMMA ReaderLedger ==
    ASSUME IInv, LedgerInv,
           UnwrittenEnds \/ (\E id \in Ids : Get(id)) \/ (\E req \in Requests : FindByKey(req.key))
    PROVE  Ledger!Next /\ LedgerInv'
<1>1. /\ \E toSettle \in SUBSET Ids, toRead \in SUBSET Ids : \E o : SettleAndRead(toSettle, toRead, o)
      /\ UNCHANGED <<up, work>>
  <2>1. CASE UnwrittenEnds
    BY <2>1 DEF UnwrittenEnds
  <2>2. ASSUME NEW id \in Ids, Get(id)
        PROVE  /\ \E toSettle \in SUBSET Ids, toRead \in SUBSET Ids : \E o : SettleAndRead(toSettle, toRead, o)
               /\ UNCHANGED <<up, work>>
    <3>1. {id} \in SUBSET Ids /\ {} \in SUBSET Ids
      OBVIOUS
    <3>2. \E o : SettleAndRead({id}, {}, o) \/ SettleAndRead({id}, {id}, o)
      BY <2>2, Zenon DEF Get
    <3> QED
      BY <2>2, <3>1, <3>2, Zenon DEF Get
  <2>3. ASSUME NEW req \in Requests, FindByKey(req.key)
        PROVE  /\ \E toSettle \in SUBSET Ids, toRead \in SUBSET Ids : \E o : SettleAndRead(toSettle, toRead, o)
               /\ UNCHANGED <<up, work>>
    BY <2>3, Zenon DEF FindByKey
  <2> QED
    BY <2>1, <2>2, <2>3
<1> QED
  BY <1>1, SettleAndReadLedger

\* Every step of the store is a step of the ledger.
LEMMA NextLedger ==
    ASSUME IInv, IInv', LedgerInv, [Next]_vars
    PROVE  Ledger!Next /\ LedgerInv'
<1>1. ASSUME NEW req \in Requests, FindOrCreate(req)
      PROVE  Ledger!Next /\ LedgerInv'
  BY <1>1, FindOrCreateLedger
<1>2. CASE UnwrittenEnds \/ (\E id \in Ids : Get(id)) \/ (\E req \in Requests : FindByKey(req.key))
  BY <1>2, ReaderLedger
<1>3. ASSUME NEW id \in Ids, Update(id) \/ \E end \in Ends : Settle(id, end)
      PROVE  Ledger!Next /\ LedgerInv'
  BY <1>3, GoroutineLedger
<1>4. CASE reconcileOnStart \/ StartFails
  BY <1>4, StartLedger
<1>5. CASE LosePower
  BY <1>5, LosePowerLedger
<1>6. CASE Crash \/ (\E id \in Ids : Damage(id)) \/ UNCHANGED vars
  <2>1. UNCHANGED <<disk, shadow>> /\ \A id \in Ids : unsettled'[id] \in {"none", unsettled[id]}
    BY <1>6 DEF Crash, Stopped, Damage, vars
  <2> QED
    BY <2>1, IdleLedger
<1> QED
  BY <1>1, <1>2, <1>3, <1>4, <1>5, <1>6 DEF Next

\* The record files of the store (opstore.go) implement the operation ledger: a
\* record's end is final, its key is its own, its database is free when it is
\* entered, and a loss of power takes back only what no directory sync covered.
THEOREM StoreImplementsLedger == Spec => ImplementsLedger
<1>1. Init => Ledger!Init /\ LedgerInv
  BY DEF Init, Ledger!Init, LedgerInv, EarlierIsOpen, KeptIsOnDisk, Entry
<1>2. IInv /\ IInv' /\ LedgerInv /\ [Next]_vars => Ledger!Next /\ LedgerInv'
  BY NextLedger
<1> QED
  BY <1>1, <1>2, Inductive, PTL DEF Spec, ImplementsLedger, Ledger!Spec
=============================================================================
