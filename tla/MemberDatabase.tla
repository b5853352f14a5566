--------------------------- MODULE MemberDatabase ---------------------------
(***************************************************************************)
(* One member's database directory and everything that makes, removes or   *)
(* starts it: the image's entrypoint (build/instance-manager/              *)
(* entrypoint.sh), and the Instance Manager's restore and HA bootstrap     *)
(* (server.go, restore.go, habootstrap.go, ownership.go).                  *)
(*                                                                         *)
(* One actor works at a time: the entrypoint ends its start before it      *)
(* launches the manager, the manager admits requests after it resumed, and *)
(* the operation store admits one operation per database                   *)
(* (OperationStore!OneOperationPerDatabase).  What makes it hard is where  *)
(* the actor may be cut off: every step below is one durable change, the   *)
(* container may stop between any two (Crash), and any change may fail,    *)
(* with or without having been made.                                       *)
(***************************************************************************)
EXTENDS Naturals

CONSTANTS
    Ids,               \* operation IDs
    Hashes,            \* restore requests, told apart by their hash
    NoMarker,          \* the directory carries no ownership marker
    EntrypointMarker,  \* the value the entrypoint writes
    Absent,            \* no such directory
    Nobody,            \* no operation runs
    Components,        \* values of CUBRID_COMPONENTS: "SERVER", "HA"
    Bootstraps,        \* values of CUBRID_BOOTSTRAP: "new", "recovery"
    MaxFaults          \* bound on failed steps and crashes

ASSUME ConstantsAssumption ==
    /\ Components \subseteq {"SERVER", "HA"}
    /\ Bootstraps \subseteq {"new", "recovery"}
    /\ MaxFaults \in Nat
    /\ NoMarker \notin Ids /\ EntrypointMarker \notin Ids /\ NoMarker # EntrypointMarker
    /\ Nobody \notin Ids
    /\ Hashes # {}

Markers == Ids \cup {NoMarker, EntrypointMarker}

\* A database directory: its volumes, which the undo of a restore may have removed
\* in part, its marker, and whether it was ever started and may have served clients.
Directories == [data : {"none", "partial", "whole", "removed"}, marker : Markers, served : BOOLEAN]

ASSUME AbsentAssumption == Absent \notin Directories

OpRecords == [kind : {"restore", "bootstrap"}, hash : Hashes,
              state : {"none", "open", "Completed", "Failed"}, restored : BOOLEAN]

VARIABLES
    component,   \* the container's CUBRID_COMPONENTS
    bootstrap,   \* and its CUBRID_BOOTSTRAP
    dir,         \* <databases>/<db>
    tomb,        \* <databases>/.reclaim-<db>
    registered,  \* databases.txt has the database's line
    ops,         \* the operation records on disk
    end,         \* ends kept in memory (OperationStore!unsettled)
    cur,         \* the running operation
    running,     \* CUBRID runs on the database
    pc,          \* where the entrypoint, the manager or the operation is
    faults

config == <<component, bootstrap>>
vars == <<config, dir, tomb, registered, ops, end, cur, running, pc, faults>>

Ok(next) == pc' = next /\ UNCHANGED <<faults, config>>
Fault(next) == faults < MaxFaults /\ faults' = faults + 1 /\ pc' = next /\ UNCHANGED config

\* A change that fails, before or after it was made.
FaultyWrite(next, change) == Fault(next) /\ change

Marked == dir # Absent /\ dir.marker # NoMarker
OwnedBy(id) == dir # Absent /\ dir.marker = id
Whole == dir # Absent /\ dir.data = "whole"
Served == dir # Absent /\ dir.served

-----------------------------------------------------------------------------
\* The volume is new, or holds a database from before.
Init ==
    /\ component \in Components /\ bootstrap \in Bootstraps
    /\ \/ dir = Absent /\ registered = FALSE
       \/ /\ dir = [data |-> "whole", marker |-> NoMarker, served |-> TRUE]
          /\ registered \in BOOLEAN
    /\ tomb = Absent
    /\ ops = [id \in Ids |-> [kind |-> "restore", hash |-> CHOOSE h \in Hashes : TRUE,
                             state |-> "none", restored |-> FALSE]]
    /\ end = [id \in Ids |-> "none"]
    /\ cur = Nobody
    /\ running = FALSE
    /\ pc = "down"
    /\ faults = 0

\* The container stops, at any step.
Crash ==
    /\ pc # "down"
    /\ Fault("down")
    /\ running' = FALSE
    /\ cur' = Nobody
    /\ end' = [id \in Ids |-> "none"]
    /\ UNCHANGED <<dir, tomb, registered, ops>>

Boot ==
    /\ pc = "down"
    /\ Ok("entry")
    /\ UNCHANGED <<dir, tomb, registered, ops, end, cur, running>>

(***************************************************************************)
(* entrypoint.sh.                                                          *)
(***************************************************************************)
\* Mutant of EntryHolds: the marker is not looked at.
EntryHoldsUnregistered ==
    ~registered /\ (component = "HA" \/ bootstrap = "recovery" \/ (dir # Absent /\ dir.data # "none"))

\* The branches that start nothing and only launch the manager.
EntryHolds ==
    \/ Marked
    \/ /\ component = "SERVER" /\ bootstrap = "new" /\ ~registered
       /\ dir # Absent /\ dir.data # "none"
    \/ bootstrap = "recovery" /\ ~registered
    \/ component = "HA" /\ ~registered

EntryWaits ==
    /\ pc = "entry"
    /\ EntryHolds
    /\ Ok("manager")
    /\ UNCHANGED <<dir, tomb, registered, ops, end, cur, running>>

\* start_cubrid, up to the start itself or to init_db's createdb.
EntryGoesOn ==
    /\ pc = "entry"
    /\ ~EntryHolds
    /\ IF registered
       THEN Ok("entrystart") /\ UNCHANGED dir
       ELSE \/ /\ Ok("entrycreate")
               /\ dir' = [data |-> "none", marker |-> EntrypointMarker, served |-> FALSE]
            \/ /\ Fault("manager")
               /\ dir' \in {dir, [data |-> "none", marker |-> NoMarker, served |-> FALSE]}
    /\ UNCHANGED <<tomb, registered, ops, end, cur, running>>

\* createdb, of the entrypoint or of createHADatabase: it writes volumes and
\* registers the database at some point before it ends.
Createdb ==
    /\ pc \in {"entrycreate", "createdb"}
    /\ dir' = [dir EXCEPT !.data = "partial"]
    /\ registered' \in {registered, TRUE}
    /\ Ok(IF pc = "entrycreate" THEN "entrycreating" ELSE "creating")
    /\ UNCHANGED <<tomb, ops, end, cur, running>>

EntryCreated ==
    /\ pc = "entrycreating"
    /\ \/ /\ Ok("entryunmark")
          /\ dir' = [dir EXCEPT !.data = "whole"]
          /\ registered' = TRUE
       \/ Fault("manager") /\ UNCHANGED <<dir, registered>>
    /\ UNCHANGED <<tomb, ops, end, cur, running>>

EntryUnmarks ==
    /\ pc = "entryunmark"
    /\ \/ Ok("entrystart") /\ dir' = [dir EXCEPT !.marker = NoMarker]
       \/ Fault("manager") /\ UNCHANGED dir
    /\ UNCHANGED <<tomb, registered, ops, end, cur, running>>

\* `cubrid server start' or `cubrid heartbeat start'.  Under `set -e' a failed
\* one ends the container.
EntryStarts ==
    /\ pc = "entrystart"
    /\ \/ dir # Absent /\ Ok("manager") /\ running' = TRUE
       \/ dir # Absent /\ Fault("down") /\ running' = FALSE
       \/ dir = Absent /\ Ok("down") /\ running' = FALSE
    /\ dir' = IF dir = Absent THEN dir ELSE [dir EXCEPT !.served = TRUE]
    /\ UNCHANGED <<tomb, registered, ops, end, cur>>

(***************************************************************************)
(* The manager starts: reconcileOnStart, then ResumeCompletedRestores.     *)
(***************************************************************************)
ManagerStarts ==
    /\ pc = "manager"
    /\ ops' = [id \in Ids |-> IF ops[id].state = "open" THEN [ops[id] EXCEPT !.state = "Failed"] ELSE ops[id]]
    /\ Ok("resume")
    /\ UNCHANGED <<dir, tomb, registered, end, cur, running>>

Resumable ==
    \E id \in Ids : /\ OwnedBy(id)
                    /\ ops[id].kind = "restore" /\ ops[id].state = "Completed" /\ ops[id].restored

ResumeStarts ==
    /\ pc = "resume"
    /\ IF Resumable
       THEN /\ \/ Ok("resumeclear") /\ running' = TRUE
               \/ Fault("idle") /\ running' \in BOOLEAN
            /\ dir' = [dir EXCEPT !.served = TRUE]
       ELSE Ok("idle") /\ UNCHANGED <<dir, running>>
    /\ UNCHANGED <<tomb, registered, ops, end, cur>>

\* clearOwned, at the end of a resumed or a completed restore.
ClearOwned ==
    /\ pc \in {"resumeclear", "clear"}
    /\ LET cleared == [dir EXCEPT !.marker = NoMarker]
       IN \/ Ok("idle") /\ dir' = cleared
          \/ FaultyWrite("idle", dir' \in {dir, cleared})
    /\ cur' = Nobody
    /\ UNCHANGED <<tomb, registered, ops, end, running>>

(***************************************************************************)
(* Requests.  restorePrepare and haBootstrap record an operation when none *)
(* on the database is open, and start its goroutine.                       *)
(***************************************************************************)
Unused(id) == ops[id].state = "none"

\* IDs are random: any unused one may stand for the one that is drawn.
Request(id, kind, hash) ==
    /\ pc = "idle"
    /\ Unused(id) /\ id = CHOOSE i \in Ids : Unused(i)
    /\ \A other \in Ids : ops[other].state # "open"
    /\ kind = "bootstrap" => component = "HA"
    /\ ops' = [ops EXCEPT ![id] = [kind |-> kind, hash |-> hash, state |-> "open", restored |-> FALSE]]
    /\ cur' = id
    /\ Ok(IF kind = "restore" THEN "begin" ELSE "reclaim")
    /\ UNCHANGED <<dir, tomb, registered, end, running>>

\* UnwrittenEnds and the other retries of a kept end.
SettleKept(id) ==
    /\ pc = "idle"
    /\ end[id] # "none"
    /\ ops' = [ops EXCEPT ![id].state = end[id]]
    /\ end' = [end EXCEPT ![id] = "none"]
    /\ Ok("idle")
    /\ UNCHANGED <<dir, tomb, registered, cur, running>>

Restoring == ops[cur].kind = "restore"

\* An operation that failed, for any reason, records so and ends.
Fails ==
    /\ pc = "fail"
    /\ \/ /\ Ok("idle")
          /\ ops' = [ops EXCEPT ![cur].state = "Failed"]
          /\ UNCHANGED end
       \/ Fault("idle") /\ end' = [end EXCEPT ![cur] = "Failed"] /\ UNCHANGED ops
    /\ cur' = Nobody
    /\ UNCHANGED <<dir, tomb, registered, running>>

\* runRestore up to the engine check.
Begin ==
    /\ pc = "begin"
    /\ Ok("adopt") \/ Fault("fail")
    /\ UNCHANGED <<dir, tomb, registered, ops, end, cur, running>>

\* Mutant of Adoptable: restored data is not taken over.
AdoptableNever == FALSE

\* adoptRestored: a failed restore of the same request left restored data.
Adoptable ==
    \E id \in Ids : /\ OwnedBy(id)
                    /\ ops[id].kind = "restore" /\ ops[id].state = "Failed" /\ ops[id].restored
                    /\ ops[id].hash = ops[cur].hash

AdoptRecords ==
    /\ pc = "adopt"
    /\ LET recorded == [ops EXCEPT ![cur].restored = TRUE]
       IN IF Adoptable
          THEN \/ Ok("adoptmark") /\ ops' = recorded
               \/ FaultyWrite("fail", ops' \in {ops, recorded})
          ELSE Ok("reclaim") /\ UNCHANGED ops
    /\ UNCHANGED <<dir, tomb, registered, end, cur, running>>

\* The marker goes over to this operation; then the engine series is compared.
AdoptMarks ==
    /\ pc = "adoptmark"
    /\ LET taken == [dir EXCEPT !.marker = cur]
       IN \/ Ok("start") /\ dir' = taken
          \/ FaultyWrite("fail", dir' \in {dir, taken})
    /\ UNCHANGED <<tomb, registered, ops, end, cur, running>>

(***************************************************************************)
(* reclaimIncomplete.                                                      *)
(***************************************************************************)
AfterReclaim == IF Restoring THEN "guard" ELSE "create"

RemoveTomb ==
    /\ pc \in {"reclaim", "removetomb"}
    /\ tomb # Absent
    /\ \/ tomb' = Absent /\ Ok(IF pc = "reclaim" THEN "reclaim" ELSE AfterReclaim)
       \/ Fault("fail") /\ UNCHANGED tomb
    /\ UNCHANGED <<dir, registered, ops, end, cur, running>>

\* Mutant of Judge: the restored artifact of a failed operation is not looked at.
JudgeByState ==
    /\ pc = "reclaim"
    /\ tomb = Absent
    /\ Ok(IF ~Marked THEN AfterReclaim
          ELSE IF \E id \in Ids : OwnedBy(id) /\ ops[id].state = "Failed" THEN "unregister" ELSE "fail")
    /\ UNCHANGED <<dir, tomb, registered, ops, end, cur, running>>

\* The marker decides: none, or one of a completed operation, is passed over;
\* only one of a failed operation that recorded no restored data is followed.
Judge ==
    /\ pc = "reclaim"
    /\ tomb = Absent
    /\ IF ~Marked THEN Ok(AfterReclaim) /\ UNCHANGED dir
       ELSE \/ /\ \A id \in Ids : OwnedBy(id) => ops[id].state # "Completed"
               /\ UNCHANGED dir
               /\ Ok(IF \E id \in Ids : OwnedBy(id) /\ ops[id].state = "Failed" /\ ~ops[id].restored
                     THEN "unregister" ELSE "fail")
            \/ /\ \E id \in Ids : OwnedBy(id) /\ ops[id].state = "Completed"
               /\ LET cleared == [dir EXCEPT !.marker = NoMarker]
                  IN \/ Ok(AfterReclaim) /\ dir' = cleared
                     \/ FaultyWrite("fail", dir' \in {dir, cleared})
    /\ UNCHANGED <<tomb, registered, ops, end, cur, running>>

Unregister ==
    /\ pc = "unregister"
    /\ \/ Ok("rename") /\ registered' = FALSE
       \/ FaultyWrite("fail", registered' \in {registered, FALSE})
    /\ UNCHANGED <<dir, tomb, ops, end, cur, running>>

RenameAside ==
    /\ pc = "rename"
    /\ \/ Ok("removetomb") /\ dir' = Absent /\ tomb' = dir
       \/ Fault("fail") /\ (UNCHANGED <<dir, tomb>> \/ (dir' = Absent /\ tomb' = dir))
    /\ UNCHANGED <<registered, ops, end, cur, running>>

(***************************************************************************)
(* Restore and createHADatabase, up to the database command.               *)
(***************************************************************************)
\* The wrong-target guard, the download and the Restoring record.
Guard ==
    /\ pc = "guard"
    /\ IF dir # Absent \/ registered THEN Ok("fail") ELSE Ok("mkdir") \/ Fault("fail")
    /\ UNCHANGED <<dir, tomb, registered, ops, end, cur, running>>

\* runHABootstrap: a registered database is not created again.
CreateOrStart ==
    /\ pc = "create"
    /\ IF registered THEN Ok("start") ELSE Ok("mkdir") \/ Fault("fail")
    /\ UNCHANGED <<dir, tomb, registered, ops, end, cur, running>>

Mkdir ==
    /\ pc = "mkdir"
    /\ IF dir # Absent THEN Ok("fail") /\ UNCHANGED dir
       ELSE \/ Ok("mark") /\ dir' = [data |-> "none", marker |-> NoMarker, served |-> FALSE]
            \/ Fault("fail") /\ UNCHANGED dir
    /\ UNCHANGED <<tomb, registered, ops, end, cur, running>>

\* markOwned; when it or a later preparation fails, the new directory goes.
MarkOwned ==
    /\ pc = "mark"
    /\ \/ Ok(IF Restoring THEN "register" ELSE "createdb") /\ dir' = [dir EXCEPT !.marker = cur]
       \/ FaultyWrite("fail", dir' \in {Absent, dir, [dir EXCEPT !.marker = cur]})
    /\ UNCHANGED <<tomb, registered, ops, end, cur, running>>

\* The databases.txt line of registerRestoreTarget.
Register ==
    /\ pc = "register"
    /\ \/ Ok("restoredb") /\ registered' = TRUE
       \/ FaultyWrite("undo", registered' \in BOOLEAN)
    /\ UNCHANGED <<dir, tomb, ops, end, cur, running>>

Restoredb ==
    /\ pc \in {"restoredb", "restoring"}
    /\ IF pc = "restoredb"
       THEN Ok("restoring") /\ dir' = [dir EXCEPT !.data = "partial"]
       ELSE \/ Ok("record") /\ dir' = [dir EXCEPT !.data = "whole"]
            \/ Fault("undo") /\ UNCHANGED dir
    /\ UNCHANGED <<tomb, registered, ops, end, cur, running>>

\* The undo of registerRestoreTarget removes the directory, whose entries go
\* in any order, and then the line.  Its own errors are ignored.
Undo ==
    /\ pc = "undo"
    /\ Ok("undorest")
    /\ dir' = [dir EXCEPT !.marker = NoMarker, !.data = "removed"]
    /\ UNCHANGED <<tomb, registered, ops, end, cur, running>>

UndoRest ==
    /\ pc \in {"undorest", "undoline"}
    /\ IF pc = "undorest"
       THEN /\ \/ Ok("undoline") /\ dir' = Absent
               \/ Fault("undoline") /\ UNCHANGED dir
            /\ UNCHANGED registered
       ELSE /\ UNCHANGED dir
            /\ \/ Ok("fail") /\ registered' = FALSE
               \/ Fault("fail") /\ UNCHANGED registered
    /\ UNCHANGED <<tomb, ops, end, cur, running>>

\* Mutant of RecordRestored: nothing is recorded before the start.
RecordRestoredNever ==
    /\ pc = "record"
    /\ Ok("start")
    /\ UNCHANGED <<dir, tomb, registered, ops, end, cur, running>>

\* The restored artifact is recorded before anything is started.
RecordRestored ==
    /\ pc = "record"
    /\ LET recorded == [ops EXCEPT ![cur].restored = TRUE]
       IN \/ Ok("start") /\ ops' = recorded
          \/ FaultyWrite("fail", ops' \in {ops, recorded})
    /\ UNCHANGED <<dir, tomb, registered, end, cur, running>>

\* createHADatabase after createdb: what a failed one left unregistered goes.
Created ==
    /\ pc = "creating"
    /\ \/ Ok("unmark") /\ dir' = [dir EXCEPT !.data = "whole"] /\ registered' = TRUE
       \/ /\ UNCHANGED registered
          /\ FaultyWrite("fail", IF registered THEN UNCHANGED dir
                                 ELSE dir' \in {Absent, [dir EXCEPT !.marker = NoMarker], dir})
    /\ UNCHANGED <<tomb, ops, end, cur, running>>

Unmark ==
    /\ pc = "unmark"
    /\ LET cleared == [dir EXCEPT !.marker = NoMarker]
       IN \/ Ok("start") /\ dir' = cleared
          \/ FaultyWrite("fail", dir' \in {dir, cleared})
    /\ UNCHANGED <<tomb, registered, ops, end, cur, running>>

(***************************************************************************)
(* startRestoredDatabase and the end of runHABootstrap.                    *)
(***************************************************************************)
\* A start that is refused before its command changes nothing; a command that
\* fails may have started something.
Start ==
    /\ pc = "start"
    /\ \/ Fault("fail") /\ UNCHANGED <<dir, running>>
       \/ dir = Absent /\ Ok("fail") /\ UNCHANGED <<dir, running>>
       \/ /\ dir # Absent
          /\ \/ Ok("complete") /\ running' = TRUE
             \/ Fault("fail") /\ running' \in BOOLEAN
          /\ dir' = [dir EXCEPT !.served = TRUE]
    /\ UNCHANGED <<tomb, registered, ops, end, cur>>

\* Completed is recorded before the marker is cleared; when it cannot be, the
\* marker stays.
Completes ==
    /\ pc = "complete"
    /\ \/ /\ ops' = [ops EXCEPT ![cur].state = "Completed"]
          /\ IF Restoring THEN Ok("clear") /\ UNCHANGED cur ELSE Ok("idle") /\ cur' = Nobody
          /\ UNCHANGED end
       \/ Fault("idle") /\ end' = [end EXCEPT ![cur] = "Completed"] /\ cur' = Nobody /\ UNCHANGED ops
    /\ UNCHANGED <<dir, tomb, registered, running>>

Entrypoint == EntryWaits \/ EntryGoesOn \/ EntryCreated \/ EntryUnmarks \/ EntryStarts
Manager == ManagerStarts \/ ResumeStarts \/ ClearOwned \/ \E id \in Ids : SettleKept(id)
Operation ==
    \/ Fails \/ Begin \/ AdoptRecords \/ AdoptMarks
    \/ RemoveTomb \/ Judge \/ Unregister \/ RenameAside
    \/ Guard \/ CreateOrStart \/ Mkdir \/ MarkOwned \/ Register \/ Restoredb
    \/ Undo \/ UndoRest \/ RecordRestored \/ Createdb \/ Created \/ Unmark \/ Start \/ Completes
Requested == \E id \in Ids, kind \in {"restore", "bootstrap"}, hash \in Hashes : Request(id, kind, hash)

Next == Crash \/ Boot \/ Entrypoint \/ Manager \/ Operation \/ Requested

Spec == Init /\ [][Next]_vars

\* The kubelet starts a stopped container again, the entrypoint and the manager
\* go on by themselves, and the operator asks again after a failed attempt.
\* Failures are bounded by MaxFaults, so they end.
Fairness == WF_vars(Boot) /\ WF_vars(Entrypoint) /\ WF_vars(Manager) /\ WF_vars(Operation) /\ WF_vars(Requested)
FairSpec == Spec /\ Fairness

\* unfinishedDatabase: what the role answer says of a marked directory.  It
\* reads the record as the next Get will (Peek), a kept end included.
Ended(id) == IF end[id] # "none" THEN end[id] ELSE ops[id].state

\* Mutant of UnfinishedDatabase: the restored artifact is not looked at.
UnfinishedDatabaseByState ==
    IF ~Marked \/ \E id \in Ids : OwnedBy(id) /\ Ended(id) = "open" THEN "nothing"
    ELSE IF \E id \in Ids : OwnedBy(id) THEN "waiting" ELSE "refused"

UnfinishedDatabase ==
    IF ~Marked \/ \E id \in Ids : OwnedBy(id) /\ Ended(id) = "open" THEN "nothing"
    ELSE IF \E id \in Ids : /\ OwnedBy(id)
                            /\ Ended(id) = "Completed" \/ (Ended(id) = "Failed" /\ ~ops[id].restored)
         THEN "waiting"
         ELSE "refused"

-----------------------------------------------------------------------------
\* Where the container's start is, where the manager serves, where an operation runs.
EntryPlaces == {"down", "entry", "entrycreate", "entrycreating", "entryunmark", "entrystart", "manager"}
ManagerPlaces == {"resume", "resumeclear", "idle", "clear"}
OperationPlaces ==
    {"fail", "begin", "adopt", "adoptmark", "reclaim", "removetomb", "unregister", "rename", "guard", "create",
     "mkdir", "mark", "register", "restoredb", "restoring", "undo", "undorest", "undoline", "record", "createdb",
     "creating", "unmark", "start", "complete"}

TypeOK ==
    /\ component \in Components /\ bootstrap \in Bootstraps
    /\ dir \in Directories \cup {Absent}
    /\ tomb \in Directories \cup {Absent}
    /\ registered \in BOOLEAN
    /\ ops \in [Ids -> OpRecords]
    /\ end \in [Ids -> {"none", "Completed", "Failed"}]
    /\ cur \in Ids \cup {Nobody}
    /\ running \in BOOLEAN
    /\ pc \in EntryPlaces \cup ManagerPlaces \cup OperationPlaces
    /\ faults \in 0 .. MaxFaults

\* A database that was ever started, by the entrypoint, a restore, a bootstrap
\* or before this member, is never removed, moved aside or made anew, whatever
\* operations fail or are cut off (reclaimIncomplete, the wrong-target guard).
ServedDataKept == [][Served => Served']_vars

\* The directory that the entrypoint, a resumed restore or an operation starts.
Starting == pc = "entrystart" \/ pc = "start" \/ (pc = "resume" /\ Resumable)

\* The database directory that is about to be started holds a finished createdb
\* or restoredb, or what an undo that was cut off left of one: the marker keeps
\* every other interrupted one from being started.
UnfinishedNotStarted == Starting /\ dir # Absent => dir.data \in {"whole", "removed"}

\* entrypoint.sh, startRestoredDatabase: no interrupted createdb or restoredb is
\* ever started, an undo that was cut off included.
OnlyWholeStarted == Starting /\ dir # Absent => Whole

\* A started database that still carries an operation's marker has its restore
\* on record, the one fact that keeps reclaimIncomplete from removing it
\* (runRestore records Restored before it starts; adoptRestored records it for
\* the new owner before the marker goes over).
MarkedServedIsRecorded ==
    \A id \in Ids : OwnedBy(id) /\ Served => ops[id].restored

ManagerServes == pc \notin EntryPlaces

\* What the role answer promises of an unfinished database is what the next
\* operation does: a "refused" directory is removed by none of them, and a
\* "waiting" one is refused by none unless a step fails.
ReportIsKept ==
    [][/\ ManagerServes /\ UnfinishedDatabase = "refused" => dir' # Absent /\ dir'.data = dir.data
       /\ UnfinishedDatabase = "waiting" /\ pc = "reclaim" /\ pc' = "fail" => faults' > faults]_vars

\* What no operation removes and none creates over: a directory in which an
\* attempt of this manager left no marker (the stop or the failure came between
\* Mkdir and markOwned, or in a removal), or a line without its directory.
Stuck == IF dir = Absent THEN registered ELSE ~Whole /\ ~(\E id \in Ids : OwnedBy(id))

\* A completed restore's database that does not run: its resumed start failed,
\* which ResumeCompletedRestores leaves for the next start of the container.
AwaitsRestart == Whole /\ \E id \in Ids : Ended(id) = "Completed"

\* Restores of different requests were asked for.
OthersAsked == \E i, j \in Ids : ~Unused(i) /\ ~Unused(j) /\ ops[i].hash # ops[j].hash

\* On a new volume, a restore that is asked for again until it succeeds brings the
\* database up, from whatever a failed or interrupted attempt left, once the
\* failures end; what may keep it down is a directory left without an owner, or a
\* failed start of an already completed restore.
EventuallyRuns ==
    component = "SERVER" /\ bootstrap = "recovery" /\ dir = Absent
        => <>[](running \/ Stuck \/ AwaitsRestart \/ OthersAsked)
=============================================================================
