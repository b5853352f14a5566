--------------------------- MODULE OperationStore ---------------------------
(***************************************************************************)
(* The Instance Manager's durable operation store                          *)
(* (internal/instancemanager/opstore.go).                                  *)
(*                                                                         *)
(* Every method holds the store's mutex from its first to its last line,   *)
(* so each is one action here.  What an action does not decide is the      *)
(* file system: every record write of a call ends in one of three ways     *)
(* (Outcomes), a record may be unreadable for a while (damaged), and the   *)
(* process or the node may stop at any moment (Crash).  A stop in the      *)
(* middle of a call leaves on disk a prefix of the call's writes; the same *)
(* disk is left by the call with the remaining writes failed, followed by  *)
(* Crash, so Crash need not interrupt a call.                              *)
(*                                                                         *)
(* The caller of the store is the goroutine of an operation.  It is known  *)
(* here only by what it does to the store: Update while it works, Settle   *)
(* when it ends.  `work' is a history variable that says what really       *)
(* became of the operation, whatever the store recorded.                   *)
(***************************************************************************)
EXTENDS FiniteSets

CONSTANTS
    Ids,         \* operation IDs the store may draw
    Requests,    \* requests: records with kind, key, hash and db
    NoRecord,    \* "there is no file <id>.json"
    PowerLoss,   \* TRUE: a crash may also lose renames that were not synced
    RemoveFails  \* TRUE: removing the record of a failed create may fail too

Ends      == {"Completed", "Failed"}
OpenStates == {"Pending", "Running"}
States    == OpenStates \cup Ends
Records   == [req : Requests, state : States]

\* How one record write ends: the rename was made durable; the rename is
\* visible but the directory could not be synced, which the caller sees as an
\* error; nothing changed, which the caller sees as an error.
Outcomes  == {"written", "unsynced", "failed"}

ASSUME NoRecordAssumption == NoRecord \notin Records
ASSUME NoEntryAssumption == NoRecord \notin [req : Requests, state : {"open"}]
ASSUME FlagsAssumption == PowerLoss \in BOOLEAN /\ RemoveFails \in BOOLEAN

VARIABLES
    disk,         \* the record file of each ID as a read of it would find it
    shadow,       \* other contents a power loss may bring back ({} without PowerLoss)
    damaged,      \* IDs whose file cannot be read or decoded now
    up,           \* the process runs and its store is open
    unsettled,    \* s.unsettled: the end kept in memory for an ID
    interrupted,  \* s.interrupted
    work,         \* history: what became of the operation itself
    answers,      \* the operations the last call returned to its caller
    told          \* history: the ends any caller was ever told of an ID

vars == <<disk, shadow, damaged, up, unsettled, interrupted, work, answers, told>>

Terminal(s)  == s \in Ends
Readable(id) == disk[id] # NoRecord /\ id \notin damaged
NotEnded(id) == ~Terminal(disk[id].state)

-----------------------------------------------------------------------------
(* Writes.                                                                 *)

\* settleLocked on the IDs of `ids': the kept ends that are written now.
Settling(ids) == {id \in ids : unsettled[id] # "none" /\ Readable(id)}

\* readLocked on the IDs of `ids': the records failInterruptedLocked fails.
Failing(ids) == {id \in ids \cap interrupted : Readable(id) /\ NotEnded(id)}

\* Mutant of EndRecord: an interrupted operation is recorded as completed.
EndRecordCompleted(id) == [disk[id] EXCEPT !.state = IF unsettled[id] # "none" THEN unsettled[id] ELSE "Completed"]

\* The record a settle or a failInterruptedLocked writes.
EndRecord(id) == [disk[id] EXCEPT !.state = IF unsettled[id] # "none" THEN unsettled[id] ELSE "Failed"]

\* The directory after a call that settled `toSettle' and then read `toRead'.
DiskAfter(toSettle, toRead, o) ==
    [id \in Ids |-> IF id \in Settling(toSettle) \cup Failing(toRead) /\ o[id] # "failed"
                    THEN EndRecord(id) ELSE disk[id]]

\* The outcomes the record writes of one call may have.
WriteOutcomes == [Settling(Ids) \cup Failing(Ids) -> Outcomes]

\* Mutant of UnsettledAfter: a kept end is forgotten after one more try.
UnsettledAfterForgets(toSettle, o) == [id \in Ids |-> IF id \in toSettle THEN "none" ELSE unsettled[id]]

UnsettledAfter(toSettle, o) ==
    [id \in Ids |-> IF \/ id \in toSettle /\ disk[id] = NoRecord
                       \/ id \in Settling(toSettle) /\ o[id] = "written"
                    THEN "none" ELSE unsettled[id]]

InterruptedAfter(toRead, o) ==
    interrupted \ {id \in toRead : Readable(id) /\ (id \in Failing(toRead) => o[id] = "written")}

\* What the reads of `toRead' return: a record whose interruption could not be
\* written is an error, not a record.
ReadBack(toRead, o) == {id \in toRead : Readable(id) /\ (id \in Failing(toRead) => o[id] = "written")}

\* The directory sync of a successful write makes every earlier rename in it
\* durable; the writes of one call come in any order, so an unsynced one of the
\* same call may come after the last successful one.
ShadowAfter(written, o, kept) ==
    LET synced == \E id \in written : o[id] = "written"
    IN  [id \in Ids |-> (IF synced THEN {} ELSE shadow[id]) \cup (IF id \in kept THEN {disk[id]} ELSE {})]

Kept(written, o) ==
    LET unsynced == {id \in written : PowerLoss /\ o[id] = "unsynced"}
    IN  IF \E id \in written : o[id] = "written" THEN SUBSET unsynced ELSE {unsynced}

\* The part of every method that settles kept ends and reads records.
SettleAndRead(toSettle, toRead, o) ==
    /\ disk' = DiskAfter(toSettle, toRead, o)
    /\ LET written == Settling(toSettle) \cup Failing(toRead)
       IN  \E kept \in Kept(written, o) : shadow' = ShadowAfter(written, o, kept)
    /\ unsettled' = UnsettledAfter(toSettle, o)
    /\ interrupted' = InterruptedAfter(toRead, o)

Answer(ops) ==
    /\ answers' = ops
    /\ told' = [id \in Ids |-> told[id] \cup {a.state : a \in {b \in ops : b.id = id /\ Terminal(b.state)}}]

NoAnswer == Answer({})

-----------------------------------------------------------------------------
Init ==
    /\ disk = [id \in Ids |-> NoRecord]
    /\ shadow = [id \in Ids |-> {}]
    /\ damaged = {}
    /\ up = FALSE
    /\ unsettled = [id \in Ids |-> "none"]
    /\ interrupted = {}
    /\ work = [id \in Ids |-> "none"]
    /\ answers = {}
    /\ told = [id \in Ids |-> {}]

(***************************************************************************)
(* FindOrCreate.  Its first part retries every kept end and lists the      *)
(* store; what follows depends on the listing.                             *)
(***************************************************************************)
Listed(o) == ReadBack(Ids, o)
\* Mutant of Unlisted: an unreadable record is passed over.
UnlistedIgnored(o) == {}
Unlisted(o) == {id \in Ids : disk[id] # NoRecord} \ Listed(o)

\* Mutant of SameKey: a key used for another request does not count as used.
SameKeyAndHash(r, req) == r.key = req.key /\ r.kind = req.kind /\ r.hash = req.hash
SameKey(r, req) == r.key = req.key /\ r.kind = req.kind
UnderKey(req, o) == {id \in Listed(o) : SameKey(disk[id].req, req)}

\* The directory could not be listed, after the kept ends were retried.
NotListed(o) ==
    /\ SettleAndRead(Ids, {}, o)
    /\ NoAnswer
    /\ UNCHANGED <<damaged, up, work>>

\* A readable record is under the key: it is answered, unless its request was
\* another one or its end is still only in memory.
FindExisting(req, o) ==
    /\ \E id \in UnderKey(req, o) :
         IF disk[id].req.hash # req.hash \/ UnsettledAfter(Ids, o)[id] # "none"
         THEN NoAnswer
         ELSE Answer({[id |-> id, state |-> DiskAfter(Ids, Ids, o)[id].state]})
    /\ SettleAndRead(Ids, Ids, o)
    /\ UNCHANGED <<damaged, up, work>>

\* Mutant of HoldsDatabase: an operation that is still Pending is not counted.
HoldsDatabaseOnceRunning(req, o) ==
    \E id \in Listed(o) : disk[id].req.db = req.db /\ DiskAfter(Ids, Ids, o)[id].state = "Running"

\* Another operation on the database has not ended.
HoldsDatabase(req, o) ==
    \E id \in Listed(o) : disk[id].req.db = req.db /\ ~Terminal(DiskAfter(Ids, Ids, o)[id].state)

RefuseNew(req, o) ==
    /\ UnderKey(req, o) = {}
    /\ Unlisted(o) # {} \/ HoldsDatabase(req, o)
    /\ SettleAndRead(Ids, Ids, o)
    /\ NoAnswer
    /\ UNCHANGED <<damaged, up, work>>

Admissible(req, o) == UnderKey(req, o) = {} /\ Unlisted(o) = {} /\ ~HoldsDatabase(req, o)

\* A random ID is one that was never drawn before.
Fresh(id) == disk[id] = NoRecord /\ shadow[id] = {} /\ work[id] = "none" /\ told[id] = {}

NewRecord(req) == [req |-> req, state |-> "Pending"]

\* The new record is on disk and its goroutine starts.
Create(req, o, id) ==
    /\ Admissible(req, o)
    /\ Fresh(id)
    /\ disk' = [DiskAfter(Ids, Ids, o) EXCEPT ![id] = NewRecord(req)]
    /\ shadow' = [i \in Ids |-> {}]
    /\ unsettled' = UnsettledAfter(Ids, o)
    /\ interrupted' = InterruptedAfter(Ids, o)
    /\ work' = [work EXCEPT ![id] = "running"]
    /\ Answer({[id |-> id, state |-> "Pending"]})
    /\ UNCHANGED <<damaged, up>>

\* The new record could not be written.  One that was renamed into place
\* before the sync failed is removed again; the removal is not synced.
CreateFails(req, o, id) ==
    /\ Admissible(req, o)
    /\ Fresh(id)
    /\ LET before == DiskAfter(Ids, Ids, o)
           written == Settling(Ids) \cup Failing(Ids)
       IN  \E kept \in Kept(written, o) :
             LET shadows == ShadowAfter(written, o, kept)
             IN \/ disk' = before /\ shadow' = shadows
                \/ /\ PowerLoss
                   /\ disk' = before
                   /\ shadow' = [shadows EXCEPT ![id] = {NoRecord, NewRecord(req)}]
                \/ /\ RemoveFails
                   /\ disk' = [before EXCEPT ![id] = NewRecord(req)]
                   /\ shadow' = [shadows EXCEPT ![id] = IF PowerLoss THEN {NoRecord} ELSE {}]
    /\ unsettled' = UnsettledAfter(Ids, o)
    /\ interrupted' = InterruptedAfter(Ids, o)
    /\ NoAnswer
    /\ UNCHANGED <<damaged, up, work>>

FindOrCreate(req) ==
    /\ up
    /\ \E o \in WriteOutcomes :
         \/ NotListed(o)
         \/ FindExisting(req, o)
         \/ RefuseNew(req, o)
         \/ \E id \in Ids : Create(req, o, id) \/ CreateFails(req, o, id)

(***************************************************************************)
(* The other methods.                                                      *)
(***************************************************************************)

\* FindByKey reads the files in order and stops at the first it cannot read.
FindByKey(key) ==
    /\ up
    /\ \E o \in WriteOutcomes, seen \in SUBSET Ids :
         LET found == {id \in ReadBack(Ids, o) : disk[id].req.key = key}
             complete == Unlisted(o) = {} /\ \A id \in found : UnsettledAfter(Ids, o)[id] = "none"
         IN  /\ complete => seen \in {{}, Ids}      \* {}: not listed at all
             /\ SettleAndRead(Ids, seen, o)
             /\ Answer(IF complete /\ seen = Ids
                       THEN {[id |-> id, state |-> DiskAfter(Ids, Ids, o)[id].state] : id \in found}
                       ELSE {})
    /\ UNCHANGED <<damaged, up, work>>

\* Get settles the operation it is asked for, then reads it.
Get(id) ==
    /\ up
    /\ \E o \in WriteOutcomes :
         IF unsettled[id] # "none" /\ UnsettledAfter({id}, o)[id] # "none"
         THEN SettleAndRead({id}, {}, o) /\ NoAnswer
         ELSE /\ SettleAndRead({id}, {id}, o)
              /\ Answer({[id |-> i, state |-> DiskAfter({id}, {id}, o)[i].state] : i \in ReadBack({id}, o)})
    /\ UNCHANGED <<damaged, up, work>>

\* UnwrittenEnds, which every readiness check calls.
UnwrittenEnds ==
    /\ up
    /\ \E o \in WriteOutcomes : SettleAndRead(Ids, {}, o)
    /\ NoAnswer
    /\ UNCHANGED <<damaged, up, work>>

\* A running operation's goroutine records a step of its work.
Update(id) ==
    /\ up
    /\ work[id] = "running"
    /\ Readable(id)
    /\ \E o \in [{id} -> Outcomes] :
         /\ disk' = IF o[id] = "failed" THEN disk ELSE [disk EXCEPT ![id].state = "Running"]
         /\ \E kept \in Kept({id}, o) : shadow' = ShadowAfter({id}, o, kept)
    /\ NoAnswer
    /\ UNCHANGED <<damaged, up, unsettled, interrupted, work>>

\* A running operation's goroutine ends, successfully or not.
Settle(id, end) ==
    /\ up
    /\ work[id] = "running"
    /\ work' = [work EXCEPT ![id] = end]
    /\ \E o \in [{id} -> Outcomes] :
         /\ disk' = IF Readable(id) /\ o[id] # "failed" THEN [disk EXCEPT ![id].state = end] ELSE disk
         /\ IF Readable(id)
            THEN \E kept \in Kept({id}, o) : shadow' = ShadowAfter({id}, o, kept)
            ELSE shadow' = shadow
         /\ unsettled' = [unsettled EXCEPT ![id] = IF Readable(id) /\ o[id] = "written" THEN "none" ELSE end]
    /\ NoAnswer
    /\ UNCHANGED <<damaged, up, interrupted>>

(***************************************************************************)
(* Start: NewOperationStore runs reconcileOnStart, which fails every       *)
(* readable record that has not ended and remembers the unreadable ones.   *)
(* A write that fails ends the process; what was written before it stays.  *)
(***************************************************************************)
Unfinished == {id \in Ids : Readable(id) /\ NotEnded(id)}

FailedOnStart(ids) == [id \in Ids |-> IF id \in ids THEN [disk[id] EXCEPT !.state = "Failed"] ELSE disk[id]]

reconcileOnStart ==
    /\ ~up
    /\ disk' = FailedOnStart(Unfinished)
    /\ shadow' = IF Unfinished = {} THEN shadow ELSE [id \in Ids |-> {}]
    /\ interrupted' = {id \in damaged : disk[id] # NoRecord}
    /\ up' = TRUE
    /\ NoAnswer
    /\ UNCHANGED <<damaged, unsettled, work>>

StartFails ==
    /\ ~up
    /\ \E done \in SUBSET Unfinished : \E id \in Unfinished \ done :
         LET shadows == IF done = {} THEN shadow ELSE [i \in Ids |-> {}]
         IN \/ disk' = FailedOnStart(done) /\ shadow' = shadows
            \/ /\ disk' = FailedOnStart(done \cup {id})
               /\ shadow' = [shadows EXCEPT ![id] = IF PowerLoss THEN @ \cup {disk[id]} ELSE @]
    /\ NoAnswer
    /\ UNCHANGED <<damaged, up, unsettled, interrupted, work>>

(***************************************************************************)
(* The environment.                                                        *)
(***************************************************************************)

\* The process stops: memory and goroutines are gone.
Stopped ==
    /\ up' = FALSE
    /\ unsettled' = [id \in Ids |-> "none"]
    /\ interrupted' = {}
    /\ work' = [id \in Ids |-> IF work[id] = "running" THEN "cut" ELSE work[id]]
    /\ NoAnswer

Crash ==
    /\ up
    /\ Stopped
    /\ UNCHANGED <<disk, shadow, damaged>>

\* The node stops: each file has its visible content or an unsynced earlier one.
LosePower ==
    /\ PowerLoss
    /\ Stopped
    /\ \E d \in [Ids -> UNION {{disk[id]} \cup shadow[id] : id \in Ids}] :
         /\ \A id \in Ids : d[id] \in {disk[id]} \cup shadow[id]
         /\ disk' = d
         /\ damaged' = {id \in damaged : d[id] # NoRecord}
    /\ shadow' = [id \in Ids |-> {}]

\* A record becomes unreadable, or readable again.
Damage(id) ==
    /\ disk[id] # NoRecord
    /\ damaged' = IF id \in damaged THEN damaged \ {id} ELSE damaged \cup {id}
    /\ NoAnswer
    /\ UNCHANGED <<disk, shadow, up, unsettled, interrupted, work>>

Next ==
    \/ \E req \in Requests : FindOrCreate(req) \/ FindByKey(req.key)
    \/ \E id \in Ids : Get(id) \/ Update(id) \/ Damage(id)
    \/ \E id \in Ids, end \in Ends : Settle(id, end)
    \/ UnwrittenEnds
    \/ reconcileOnStart
    \/ StartFails
    \/ Crash
    \/ LosePower

Spec == Init /\ [][Next]_vars

-----------------------------------------------------------------------------
(* Properties.                                                             *)

TypeOK ==
    /\ disk \in [Ids -> Records \cup {NoRecord}]
    /\ shadow \in [Ids -> SUBSET (Records \cup {NoRecord})]
    /\ damaged \subseteq Ids
    /\ up \in BOOLEAN
    /\ unsettled \in [Ids -> Ends \cup {"none"}]
    /\ interrupted \subseteq Ids
    /\ work \in [Ids -> Ends \cup {"none", "running", "cut"}]
    /\ answers \subseteq [id : Ids, state : States]
    /\ told \in [Ids -> SUBSET Ends]

\* FindOrCreate: two operations never work on one database at the same time,
\* whatever could not be read or written, and after any restart.
OneOperationPerDatabase ==
    \A i, j \in Ids : (work[i] = "running" /\ work[j] = "running" /\ disk[i].req.db = disk[j].req.db) => i = j

\* FindOrCreate: a request that is sent again under its key, also after a
\* restart or beside an unreadable record, never does its work a second time.
OneRunPerKey ==
    \A i, j \in Ids : (work[i] # "none" /\ work[j] # "none" /\ SameKey(disk[i].req, disk[j].req)) => i = j

\* Settle and reconcileOnStart: a caller is told Completed only of an operation
\* whose work did complete; an interrupted one is never silently Completed.
CompletedWasDone ==
    \A id \in Ids : "Completed" \in told[id] => work[id] = "Completed"

\* Get, FindByKey, FindOrCreate: an operation answered as not ended has not ended
\* and was not cut off; an end that is not on record yet is an error instead.
OpenIsNotOver ==
    \A a \in answers : ~Terminal(a.state) => work[a.id] \in {"running", "none"}

\* FindOrCreate: an operation answered as not ended is running now, in this
\* process: a failed create leaves no record of an operation that nothing runs.
AnsweredOpenIsRunning ==
    \A a \in answers : ~Terminal(a.state) => work[a.id] = "running"

\* The records on disk implement the ledger that callers see: a record's end is
\* final, its key is its own, its database is free when it is entered, and a loss
\* of power takes back only what the directory sync did not cover.
Entry(record) ==
    IF record = NoRecord THEN NoRecord
    ELSE [record EXCEPT !.state = IF Terminal(@) THEN @ ELSE "open"]
Ledger == INSTANCE OperationLedger WITH
    ledger <- [id \in Ids |-> Entry(disk[id])],
    settled <- {id \in Ids : \A old \in shadow[id] : Entry(old) = Entry(disk[id])}

ImplementsLedger == Ledger!Spec
=============================================================================
