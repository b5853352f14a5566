------------------------ MODULE MemberDatabaseProofs ------------------------
(***************************************************************************)
(* What is started and what is removed on one member, for any set of       *)
(* operations and any number of failed steps and crashes.                  *)
(***************************************************************************)
EXTENDS MemberDatabase, TLAPS

\* A createdb or restoredb that ended, or what an undo that was cut off left.
Startable == {"whole", "removed"}

\* What a marker of an operation says: the operation is on record, its restored
\* data is whole, and data of its that was started, or that it completed, is
\* recorded as restored.
OwnerInv ==
    \A id \in Ids : OwnedBy(id) =>
        /\ ops[id].state # "none"
        /\ ops[id].restored => dir.data = "whole"
        /\ dir.served => ops[id].restored
        /\ ops[id].state = "Completed" \/ end[id] = "Completed" => ops[id].restored

\* What no marker says: a registered directory holds no interrupted command's data.
DirInv ==
    dir # Absent =>
        /\ dir.served => dir.data # "none"
        /\ registered /\ ~Marked => dir.data \in Startable

\* A kept end is of an open operation, and none is kept while another runs.
EndInv ==
    \A id \in Ids : end[id] # "none" => pc = "idle" /\ ops[id].state = "open"

\* The running operation has an open record, with nothing restored yet before
\* it marks a directory as its own.
CurInv ==
    /\ pc \in OperationPlaces => cur \in Ids /\ ops[cur].state = "open"
    /\ pc \in {"begin", "adopt", "reclaim", "removetomb", "unregister", "rename", "guard", "create", "mkdir", "mark"}
           => ~ops[cur].restored

\* Up to the start, a directory without a marker is one that may be started.
EntryInv ==
    /\ pc \in {"entrycreate", "entrycreating"} => dir # Absent /\ dir.marker = EntrypointMarker
    /\ pc = "entryunmark" => Whole /\ dir.marker = EntrypointMarker
    /\ pc = "entrystart" /\ dir # Absent => ~Marked /\ dir.data \in Startable

\* What reclaimIncomplete has found out when it goes on.
ReclaimInv ==
    /\ pc = "adoptmark" => ops[cur].restored /\ \E id \in Ids : OwnedBy(id) /\ ops[id].restored
    /\ pc \in {"unregister", "rename"} => \E id \in Ids : OwnedBy(id) /\ ~ops[id].restored
    /\ pc = "removetomb" => dir = Absent
    /\ pc \in {"guard", "create"} => ~Marked

\* What the operation that makes a database knows of its directory.
MakeInv ==
    /\ pc \in {"mkdir", "mark"} => ~registered
    /\ pc = "mark" => dir # Absent /\ ~Marked /\ ~Served /\ dir.data = "none"
    /\ pc \in {"register", "restoredb", "restoring", "undo", "createdb", "creating"}
           => OwnedBy(cur) /\ ~Served /\ ~ops[cur].restored
    /\ pc = "undorest" => dir # Absent /\ ~Marked /\ ~Served
    /\ pc \in {"record", "unmark"} => OwnedBy(cur) /\ Whole

\* What is started is startable, and marked only as restored data of its operation.
StartInv ==
    /\ pc \in {"complete", "clear", "resumeclear"} => dir # Absent
    /\ pc \in {"start", "complete", "clear", "resumeclear"} /\ dir # Absent => dir.data \in Startable
    /\ pc \in {"start", "complete"} /\ Marked => OwnedBy(cur) /\ ops[cur].restored

Safe == OwnerInv /\ DirInv /\ EndInv /\ CurInv /\ EntryInv /\ ReclaimInv /\ MakeInv /\ StartInv
\* The inductive invariant.
IInv == TypeOK /\ Safe

-----------------------------------------------------------------------------
(* Types.  dir keeps its type because no step changes a directory that is  *)
(* not there, which only Safe says.                                        *)

\* Every step is Ok or a Fault, and there are at most MaxFaults of those.
LEMMA ControlType ==
    ASSUME TypeOK, Next
    PROVE  component' \in Components /\ bootstrap' \in Bootstraps /\ faults' \in 0 .. MaxFaults
<1>1. ASSUME NEW next, Ok(next) \/ Fault(next)
      PROVE  component' \in Components /\ bootstrap' \in Bootstraps /\ faults' \in 0 .. MaxFaults
  BY <1>1, ConstantsAssumption DEF TypeOK, Ok, Fault, config
<1>2. \E next : Ok(next) \/ Fault(next)
  BY Zenon DEF Next, Entrypoint, Manager, Operation, Requested, FaultyWrite, Crash, Boot, EntryWaits, EntryGoesOn,
         Createdb, EntryCreated, EntryUnmarks, EntryStarts, ManagerStarts, ResumeStarts, ClearOwned, SettleKept,
         Request, Fails, Begin, AdoptRecords, AdoptMarks, RemoveTomb, Judge, Unregister, RenameAside, Guard,
         CreateOrStart, Mkdir, MarkOwned, Register, Restoredb, Undo, UndoRest, RecordRestored, Created, Unmark,
         Start, Completes
<1> QED BY <1>1, <1>2

\* databases.txt and the server: whether the database is in the one and is run by the other.
LEMMA FlagType ==
    ASSUME TypeOK, Next
    PROVE  registered' \in BOOLEAN /\ running' \in BOOLEAN
<1>1. CASE UNCHANGED <<registered, running>>
  BY <1>1 DEF TypeOK
<1>2. CASE Crash
  BY <1>2, Zenon DEF TypeOK, Crash
<1>3. CASE Createdb
  BY <1>3, Zenon DEF TypeOK, Createdb
<1>4. CASE EntryCreated
  BY <1>4, Zenon DEF TypeOK, EntryCreated
<1>5. CASE EntryStarts
  BY <1>5, Zenon DEF TypeOK, EntryStarts
<1>6. CASE ResumeStarts
  BY <1>6, Zenon DEF TypeOK, ResumeStarts
<1>7. CASE Unregister
  BY <1>7, Zenon DEF TypeOK, Unregister, FaultyWrite
<1>8. CASE Register
  BY <1>8, Zenon DEF TypeOK, Register, FaultyWrite
<1>9. CASE UndoRest
  BY <1>9, Zenon DEF TypeOK, UndoRest
<1>10. CASE Created
  BY <1>10, Zenon DEF TypeOK, Created
<1>11. CASE Start
  BY <1>11, Zenon DEF TypeOK, Start
<1> QED
  BY <1>1, <1>2, <1>3, <1>4, <1>5, <1>6, <1>7, <1>8, <1>9, <1>10, <1>11
  DEF Next, Entrypoint, Manager, Operation, Requested, Boot, EntryWaits, EntryGoesOn, EntryUnmarks, ManagerStarts,
      ClearOwned, SettleKept, Request, Fails, Begin, AdoptRecords, AdoptMarks, RemoveTomb, Judge, RenameAside,
      Guard, CreateOrStart, Mkdir, MarkOwned, Restoredb, Undo, RecordRestored, Unmark, Completes

\* The operation store, the ends it could not write, and the running operation.
LEMMA RecordType ==
    ASSUME TypeOK, CurInv, Next
    PROVE  /\ ops' \in [Ids -> OpRecords] /\ end' \in [Ids -> {"none", "Completed", "Failed"}]
           /\ cur' \in Ids \cup {Nobody}
<1>0. ASSUME cur \in Ids PROVE [ops EXCEPT ![cur].restored = TRUE] \in [Ids -> OpRecords]
  BY <1>0, Zenon DEF TypeOK, OpRecords
<1>1. CASE UNCHANGED <<ops, end, cur>>
  BY <1>1 DEF TypeOK
<1>2. CASE Crash
  BY <1>2 DEF TypeOK, Crash
<1>3. CASE ManagerStarts
  BY <1>3 DEF TypeOK, OpRecords, ManagerStarts
<1>4. CASE ClearOwned
  BY <1>4 DEF TypeOK, ClearOwned
<1>5. CASE Fails
  BY <1>5 DEF TypeOK, OpRecords, Fails
<1>6. CASE AdoptRecords
  BY <1>6, <1>0, Zenon DEF TypeOK, CurInv, OperationPlaces, AdoptRecords, FaultyWrite
<1>7. CASE RecordRestored
  BY <1>7, <1>0, Zenon DEF TypeOK, CurInv, OperationPlaces, RecordRestored, FaultyWrite
<1>8. CASE Completes
  BY <1>8 DEF TypeOK, OpRecords, Completes
<1>9. CASE Requested
  BY <1>9 DEF TypeOK, OpRecords, Requested, Request
<1>10. ASSUME NEW id \in Ids, SettleKept(id)
       PROVE  /\ ops' \in [Ids -> OpRecords] /\ end' \in [Ids -> {"none", "Completed", "Failed"}]
              /\ cur' \in Ids \cup {Nobody}
  BY <1>10 DEF TypeOK, OpRecords, SettleKept
<1> QED
  BY <1>1, <1>2, <1>3, <1>4, <1>5, <1>6, <1>7, <1>8, <1>9, <1>10, Zenon
  DEF Next, Entrypoint, Manager, Operation, Boot, EntryWaits, EntryGoesOn, Createdb, EntryCreated, EntryUnmarks,
      EntryStarts, ResumeStarts, Begin, AdoptMarks, RemoveTomb, Judge, Unregister, RenameAside, Guard,
      CreateOrStart, Mkdir, MarkOwned, Register, Restoredb, Undo, UndoRest, Created, Unmark, Start

\* Every step goes on to a place of the entrypoint, the manager or an operation.
LEMMA PlaceType ==
    ASSUME Next
    PROVE  pc' \in EntryPlaces \cup ManagerPlaces \cup OperationPlaces
<1> USE DEF EntryPlaces, ManagerPlaces, OperationPlaces, Ok, Fault, FaultyWrite
<1>1. CASE Crash \/ Boot \/ Requested
  BY <1>1 DEF Crash, Boot, Requested, Request
<1>2. CASE Entrypoint
  BY <1>2 DEF Entrypoint, EntryWaits, EntryGoesOn, EntryCreated, EntryUnmarks, EntryStarts
<1>3. CASE Manager
  BY <1>3 DEF Manager, ManagerStarts, ResumeStarts, ClearOwned, SettleKept
<1>4. CASE Fails \/ Begin \/ AdoptRecords \/ AdoptMarks \/ RemoveTomb \/ Judge \/ Unregister \/ RenameAside
  BY <1>4, Zenon DEF Fails, Begin, AdoptRecords, AdoptMarks, RemoveTomb, Judge, Unregister, RenameAside, AfterReclaim
<1>5. CASE Guard \/ CreateOrStart \/ Mkdir \/ MarkOwned \/ Register \/ Restoredb \/ Undo \/ UndoRest
  BY <1>5 DEF Guard, CreateOrStart, Mkdir, MarkOwned, Register, Restoredb, Undo, UndoRest
<1>6. CASE RecordRestored \/ Createdb \/ Created \/ Unmark \/ Start \/ Completes
  BY <1>6, Zenon DEF RecordRestored, Createdb, Created, Unmark, Start, Completes
<1> QED BY <1>1, <1>2, <1>3, <1>4, <1>5, <1>6 DEF Next, Operation

\* The database directory, and the one that was renamed aside.
LEMMA DirType ==
    ASSUME IInv, Next
    PROVE  dir' \in Directories \cup {Absent} /\ tomb' \in Directories \cup {Absent}
<1> USE DEF IInv, Safe, TypeOK
<1>0. ASSUME dir # Absent PROVE
        /\ \A x \in {"none", "partial", "whole", "removed"} : [dir EXCEPT !.data = x] \in Directories
        /\ \A x \in Markers : [dir EXCEPT !.marker = x] \in Directories
        /\ [dir EXCEPT !.served = TRUE] \in Directories
        /\ [dir EXCEPT !.marker = NoMarker, !.data = "removed"] \in Directories
  BY <1>0, Zenon DEF Directories, Markers
<1>00. \A x \in {NoMarker, EntrypointMarker} : [data |-> "none", marker |-> x, served |-> FALSE] \in Directories
  BY DEF Directories, Markers
<1>1. CASE UNCHANGED <<dir, tomb>>
  BY <1>1
<1>2. CASE EntryGoesOn
  BY <1>2, <1>0, <1>00, Zenon DEF EntryGoesOn
<1>3. CASE Createdb
  BY <1>3, <1>0, <1>00 DEF Createdb, EntryInv, MakeInv, OwnedBy
<1>4. CASE EntryCreated
  BY <1>4, <1>0, <1>00 DEF EntryCreated, EntryInv
<1>5. CASE EntryUnmarks
  BY <1>5, <1>0, <1>00 DEF EntryUnmarks, EntryInv, Whole, Markers
<1>6. CASE EntryStarts
  BY <1>6, <1>0, <1>00 DEF EntryStarts
<1>7. CASE ResumeStarts
  BY <1>7, <1>0, <1>00, Zenon DEF ResumeStarts, Resumable, OwnedBy
<1>8. CASE ClearOwned
  BY <1>8, <1>0, <1>00 DEF ClearOwned, FaultyWrite, StartInv, Markers
<1>9. CASE AdoptMarks
  BY <1>9, <1>0, <1>00 DEF AdoptMarks, FaultyWrite, ReclaimInv, OwnedBy, CurInv, OperationPlaces, Markers
<1>10. CASE RemoveTomb
  BY <1>10, <1>0, <1>00 DEF RemoveTomb
<1>11. CASE Judge
  BY <1>11, <1>0, <1>00 DEF Judge, FaultyWrite, Marked, Markers
<1>12. CASE RenameAside
  BY <1>12, <1>0, <1>00 DEF RenameAside
<1>13. CASE Mkdir
  BY <1>13, <1>0, <1>00, Zenon DEF Mkdir
<1>14. CASE MarkOwned
  BY <1>14, <1>0, <1>00 DEF MarkOwned, FaultyWrite, MakeInv, CurInv, OperationPlaces, Markers
<1>15. CASE Restoredb
  BY <1>15, <1>0, <1>00 DEF Restoredb, MakeInv, OwnedBy
<1>16. CASE Undo
  BY <1>16, <1>0, <1>00 DEF Undo, MakeInv, OwnedBy
<1>17. CASE UndoRest
  BY <1>17, <1>0, <1>00 DEF UndoRest
<1>18. CASE Created
  BY <1>18, <1>0, <1>00 DEF Created, FaultyWrite, MakeInv, OwnedBy, Markers
<1>19. CASE Unmark
  BY <1>19, <1>0, <1>00 DEF Unmark, FaultyWrite, MakeInv, OwnedBy, Markers
<1>20. CASE Start
  BY <1>20, <1>0, <1>00, Zenon DEF Start
<1> QED BY <1>1, <1>2, <1>3, <1>4, <1>5, <1>6, <1>7, <1>8, <1>9, <1>10, <1>11, <1>12, <1>13, <1>14, <1>15,
    <1>16, <1>17, <1>18, <1>19, <1>20, Zenon DEF Next, Entrypoint, Manager, Operation, Requested, Crash, Boot,
    EntryWaits, ManagerStarts, SettleKept, Request, Fails, Begin, AdoptRecords, Unregister, Guard,
    CreateOrStart, Register, RecordRestored, Completes

\* Every step keeps the types.
LEMMA TypeStep ==
    ASSUME IInv, Next
    PROVE  TypeOK'
<1>1. TypeOK /\ CurInv
  BY DEF IInv, Safe
<1> QED BY <1>1, ControlType, FlagType, RecordType, PlaceType, DirType DEF TypeOK

-----------------------------------------------------------------------------
(* Every step keeps Safe: one lemma for each action, and in it one step    *)
(* for the markers, the records, what is known before a command, and what  *)
(* is known of the directory that is made or started.                      *)

\* The container stops, at any place: what is on the volume is as it was.
LEMMA CrashStep ==
    ASSUME IInv, Crash
    PROVE  Safe'
<1> USE ConstantsAssumption, AbsentAssumption DEF IInv, Safe, Marked, OwnedBy, Whole, Served, Ok, Fault, FaultyWrite
<1>1. OwnerInv' /\ DirInv'
  BY DEF Crash, OwnerInv, DirInv
<1>2. EndInv' /\ CurInv'
  BY DEF Crash, OperationPlaces, EndInv, CurInv
<1>3. EntryInv' /\ ReclaimInv'
  BY DEF Crash, EntryInv, ReclaimInv
<1>4. MakeInv' /\ StartInv'
  BY DEF Crash, MakeInv, StartInv
<1> QED BY <1>1, <1>2, <1>3, <1>4

\* The entrypoint begins.
LEMMA BootStep ==
    ASSUME IInv, Boot
    PROVE  Safe'
<1> USE ConstantsAssumption, AbsentAssumption DEF IInv, Safe, Marked, OwnedBy, Whole, Served, Ok, Fault, FaultyWrite
<1>1. OwnerInv' /\ DirInv'
  BY DEF Boot, OwnerInv, DirInv
<1>2. EndInv' /\ CurInv'
  BY DEF Boot, OperationPlaces, EndInv, CurInv
<1>3. EntryInv' /\ ReclaimInv'
  BY DEF Boot, EntryInv, ReclaimInv
<1>4. MakeInv' /\ StartInv'
  BY DEF Boot, MakeInv, StartInv
<1> QED BY <1>1, <1>2, <1>3, <1>4

\* The entrypoint leaves the database to the manager.
LEMMA EntryWaitsStep ==
    ASSUME IInv, EntryWaits
    PROVE  Safe'
<1> USE ConstantsAssumption, AbsentAssumption DEF IInv, Safe, Marked, OwnedBy, Whole, Served, Ok, Fault, FaultyWrite
<1>1. OwnerInv' /\ DirInv'
  BY DEF EntryWaits, OwnerInv, DirInv
<1>2. EndInv' /\ CurInv'
  BY DEF EntryWaits, OperationPlaces, EndInv, CurInv
<1>3. EntryInv' /\ ReclaimInv'
  BY DEF EntryWaits, EntryInv, ReclaimInv
<1>4. MakeInv' /\ StartInv'
  BY DEF EntryWaits, MakeInv, StartInv
<1> QED BY <1>1, <1>2, <1>3, <1>4

\* start_cubrid: a registered database without a marker, or a new directory with one.
LEMMA EntryGoesOnStep ==
    ASSUME IInv, EntryGoesOn
    PROVE  Safe'
<1> USE ConstantsAssumption, AbsentAssumption DEF IInv, Safe, Marked, OwnedBy, Whole, Served, Ok, Fault, FaultyWrite
<1>1. OwnerInv' /\ DirInv'
  BY DEF EntryGoesOn, OwnerInv, DirInv, StartInv
<1>2. EndInv' /\ CurInv'
  BY DEF EntryGoesOn, OperationPlaces, EndInv, CurInv
<1>3. EntryInv' /\ ReclaimInv'
  <2>1. CASE registered
    BY <2>1 DEF EntryGoesOn, EntryHolds, DirInv, EntryInv, ReclaimInv
  <2>2. CASE ~registered
    <3>1. [data |-> "none", marker |-> EntrypointMarker, served |-> FALSE] \in Directories
      BY DEF Directories, Markers
    <3>2. /\ pc' \in {"entrycreate", "manager"}
          /\ pc' = "entrycreate" => dir' = [data |-> "none", marker |-> EntrypointMarker, served |-> FALSE]
      BY <2>2 DEF EntryGoesOn
    <3>3. pc' = "entrycreate" => dir' # Absent
      BY <3>1, <3>2, Zenon
    <3>4. pc' = "entrycreate" => dir'.marker = EntrypointMarker
      BY <3>2
    <3> QED BY <3>2, <3>3, <3>4 DEF EntryInv, ReclaimInv
  <2> QED BY <2>1, <2>2
<1>4. MakeInv' /\ StartInv'
  BY DEF EntryGoesOn, MakeInv, StartInv
<1> QED BY <1>1, <1>2, <1>3, <1>4

\* createdb writes into a directory that its marker covers.
LEMMA CreatedbStep ==
    ASSUME IInv, Createdb
    PROVE  Safe'
<1> USE ConstantsAssumption, AbsentAssumption DEF IInv, Safe, Marked, OwnedBy, Whole, Served, Ok, Fault, FaultyWrite
<1>1. OwnerInv' /\ DirInv'
  BY DEF Createdb, OperationPlaces, OwnerInv, DirInv, CurInv, EntryInv, MakeInv
<1>2. EndInv' /\ CurInv'
  BY DEF Createdb, OperationPlaces, EndInv, CurInv
<1>3. EntryInv' /\ ReclaimInv'
  BY DEF Createdb, TypeOK, Directories, EntryInv, ReclaimInv
<1>4. MakeInv' /\ StartInv'
  BY DEF Createdb, TypeOK, Directories, MakeInv, StartInv
<1> QED BY <1>1, <1>2, <1>3, <1>4

\* init_db's createdb ends.
LEMMA EntryCreatedStep ==
    ASSUME IInv, EntryCreated
    PROVE  Safe'
<1> USE ConstantsAssumption, AbsentAssumption DEF IInv, Safe, Marked, OwnedBy, Whole, Served, Ok, Fault, FaultyWrite
<1>1. OwnerInv' /\ DirInv'
  BY DEF EntryCreated, TypeOK, Directories, OwnerInv, DirInv, EntryInv
<1>2. EndInv' /\ CurInv'
  BY DEF EntryCreated, OperationPlaces, EndInv, CurInv
<1>3. EntryInv' /\ ReclaimInv'
  BY DEF EntryCreated, TypeOK, Directories, EntryInv, ReclaimInv
<1>4. MakeInv' /\ StartInv'
  BY DEF EntryCreated, MakeInv, StartInv
<1> QED BY <1>1, <1>2, <1>3, <1>4

\* init_db removes its marker from a whole database.
LEMMA EntryUnmarksStep ==
    ASSUME IInv, EntryUnmarks
    PROVE  Safe'
<1> USE ConstantsAssumption, AbsentAssumption DEF IInv, Safe, Marked, OwnedBy, Whole, Served, Ok, Fault, FaultyWrite
<1>1. OwnerInv' /\ DirInv'
  BY DEF EntryUnmarks, TypeOK, Directories, Startable, OwnerInv, DirInv, EntryInv
<1>2. EndInv' /\ CurInv'
  BY DEF EntryUnmarks, OperationPlaces, EndInv, CurInv
<1>3. EntryInv' /\ ReclaimInv'
  BY DEF EntryUnmarks, TypeOK, Directories, Startable, EntryInv, ReclaimInv
<1>4. MakeInv' /\ StartInv'
  BY DEF EntryUnmarks, MakeInv, StartInv
<1> QED BY <1>1, <1>2, <1>3, <1>4

\* The entrypoint starts the database.
LEMMA EntryStartsStep ==
    ASSUME IInv, EntryStarts
    PROVE  Safe'
<1> USE ConstantsAssumption, AbsentAssumption DEF IInv, Safe, Marked, OwnedBy, Whole, Served, Ok, Fault, FaultyWrite
<1>1. OwnerInv' /\ DirInv'
  BY DEF EntryStarts, Startable, OwnerInv, DirInv, EntryInv
<1>2. EndInv' /\ CurInv'
  BY DEF EntryStarts, OperationPlaces, EndInv, CurInv
<1>3. EntryInv' /\ ReclaimInv'
  BY DEF EntryStarts, EntryInv, ReclaimInv
<1>4. MakeInv' /\ StartInv'
  BY DEF EntryStarts, MakeInv, StartInv
<1> QED BY <1>1, <1>2, <1>3, <1>4

\* reconcileOnStart fails what was open.
LEMMA ManagerStartsStep ==
    ASSUME IInv, ManagerStarts
    PROVE  Safe'
<1> USE ConstantsAssumption, AbsentAssumption DEF IInv, Safe, Marked, OwnedBy, Whole, Served, Ok, Fault, FaultyWrite
<1>1. OwnerInv' /\ DirInv'
  BY DEF ManagerStarts, OwnerInv, DirInv
<1>2. EndInv' /\ CurInv'
  BY DEF ManagerStarts, OperationPlaces, EndInv, CurInv
<1>3. EntryInv' /\ ReclaimInv'
  BY DEF ManagerStarts, EntryInv, ReclaimInv
<1>4. MakeInv' /\ StartInv'
  BY DEF ManagerStarts, MakeInv, StartInv
<1> QED BY <1>1, <1>2, <1>3, <1>4

\* ResumeCompletedRestores starts restored data of a completed restore.
LEMMA ResumeStartsStep ==
    ASSUME IInv, ResumeStarts
    PROVE  Safe'
<1> USE ConstantsAssumption, AbsentAssumption DEF IInv, Safe, Marked, OwnedBy, Whole, Served, Ok, Fault, FaultyWrite
<1>1. OwnerInv' /\ DirInv'
  BY DEF ResumeStarts, Resumable, TypeOK, Directories, OwnerInv, DirInv
<1>2. EndInv' /\ CurInv'
  BY DEF ResumeStarts, OperationPlaces, EndInv, CurInv
<1>3. EntryInv' /\ ReclaimInv'
  BY DEF ResumeStarts, EntryInv, ReclaimInv
<1>4. Resumable => Whole
  BY DEF Resumable, OwnerInv
<1>5. dir \in Directories \cup {Absent}
  BY DEF TypeOK
<1>6. pc' \in {"idle", "resumeclear"} /\ (pc' = "resumeclear" => Resumable /\ dir' = [dir EXCEPT !.served = TRUE])
  BY DEF ResumeStarts
<1>7. pc' = "resumeclear" => dir' \in Directories /\ dir'.data = "whole"
  BY <1>4, <1>5, <1>6, Zenon DEF Directories
<1>8. MakeInv' /\ StartInv'
  BY <1>6, <1>7 DEF Startable, MakeInv, StartInv
<1> QED BY <1>1, <1>2, <1>3, <1>8

\* clearOwned, of a database that was started.
LEMMA ClearOwnedStep ==
    ASSUME IInv, ClearOwned
    PROVE  Safe'
<1> USE ConstantsAssumption, AbsentAssumption DEF IInv, Safe, Marked, OwnedBy, Whole, Served, Ok, Fault, FaultyWrite
<1>1. OwnerInv' /\ DirInv'
  BY DEF ClearOwned, TypeOK, Directories, OwnerInv, DirInv, StartInv
<1>2. EndInv' /\ CurInv'
  BY DEF ClearOwned, OperationPlaces, EndInv, CurInv
<1>3. EntryInv' /\ ReclaimInv'
  BY DEF ClearOwned, EntryInv, ReclaimInv
<1>4. MakeInv' /\ StartInv'
  BY DEF ClearOwned, MakeInv, StartInv
<1> QED BY <1>1, <1>2, <1>3, <1>4

\* A kept end is written.
LEMMA SettleKeptStep ==
    ASSUME IInv, NEW id \in Ids, SettleKept(id)
    PROVE  Safe'
<1> USE ConstantsAssumption, AbsentAssumption DEF IInv, Safe, Marked, OwnedBy, Whole, Served, Ok, Fault, FaultyWrite
<1>1. OwnerInv' /\ DirInv'
  BY DEF SettleKept, OwnerInv, DirInv, MakeInv
<1>2. EndInv' /\ CurInv'
  BY DEF SettleKept, TypeOK, OperationPlaces, EndInv, CurInv
<1>3. EntryInv' /\ ReclaimInv'
  BY DEF SettleKept, EntryInv, ReclaimInv
<1>4. MakeInv' /\ StartInv'
  BY DEF SettleKept, MakeInv, StartInv
<1> QED BY <1>1, <1>2, <1>3, <1>4

\* A new operation is recorded and runs.
LEMMA RequestStep ==
    ASSUME IInv, NEW id \in Ids, NEW kind \in {"restore", "bootstrap"}, NEW hash \in Hashes,
           Request(id, kind, hash)
    PROVE  Safe'
<1> USE ConstantsAssumption, AbsentAssumption DEF IInv, Safe, Marked, OwnedBy, Whole, Served, Ok, Fault, FaultyWrite
<1>1. OwnerInv' /\ DirInv'
  <2>1. ~OwnedBy(id)
    BY DEF Request, Unused, OwnerInv
  <2>2. /\ UNCHANGED <<dir, registered, end>>
        /\ \A other \in Ids : other # id => ops'[other] = ops[other]
    BY DEF Request, TypeOK
  <2>3. OwnerInv'
    BY <2>1, <2>2 DEF OwnerInv
  <2> QED BY <2>2, <2>3 DEF DirInv
<1>2. EndInv' /\ CurInv'
  BY DEF Request, TypeOK, EndInv, CurInv
<1>3. EntryInv' /\ ReclaimInv'
  BY DEF Request, EntryInv, ReclaimInv
<1>4. MakeInv' /\ StartInv'
  BY DEF Request, MakeInv, StartInv
<1> QED BY <1>1, <1>2, <1>3, <1>4

\* An operation records that it failed.
LEMMA FailsStep ==
    ASSUME IInv, Fails
    PROVE  Safe'
<1> USE ConstantsAssumption, AbsentAssumption DEF IInv, Safe, Marked, OwnedBy, Whole, Served, Ok, Fault, FaultyWrite
<1>1. OwnerInv' /\ DirInv'
  BY DEF Fails, TypeOK, OpRecords, OwnerInv, DirInv
<1>2. EndInv' /\ CurInv'
  BY DEF Fails, TypeOK, OperationPlaces, EndInv, CurInv
<1>3. EntryInv' /\ ReclaimInv'
  BY DEF Fails, EntryInv, ReclaimInv
<1>4. MakeInv' /\ StartInv'
  BY DEF Fails, MakeInv, StartInv
<1> QED BY <1>1, <1>2, <1>3, <1>4

\* runRestore before it looks at the directory.
LEMMA BeginStep ==
    ASSUME IInv, Begin
    PROVE  Safe'
<1> USE ConstantsAssumption, AbsentAssumption DEF IInv, Safe, Marked, OwnedBy, Whole, Served, Ok, Fault, FaultyWrite
<1>1. OwnerInv' /\ DirInv'
  BY DEF Begin, OwnerInv, DirInv
<1>2. EndInv' /\ CurInv'
  BY DEF Begin, OperationPlaces, EndInv, CurInv
<1>3. EntryInv' /\ ReclaimInv'
  BY DEF Begin, EntryInv, ReclaimInv
<1>4. MakeInv' /\ StartInv'
  BY DEF Begin, MakeInv, StartInv
<1> QED BY <1>1, <1>2, <1>3, <1>4

\* adoptRestored records the restored data before the marker goes over.
LEMMA AdoptRecordsStep ==
    ASSUME IInv, AdoptRecords
    PROVE  Safe'
<1> USE ConstantsAssumption, AbsentAssumption DEF IInv, Safe, Marked, OwnedBy, Whole, Served, Ok, Fault, FaultyWrite
<1>1. OwnerInv' /\ DirInv'
  BY DEF AdoptRecords, Adoptable, TypeOK, OpRecords, OwnerInv, DirInv
<1>2. EndInv' /\ CurInv'
  BY DEF AdoptRecords, TypeOK, OpRecords, OperationPlaces, EndInv, CurInv
<1>3. EntryInv' /\ ReclaimInv'
  BY DEF AdoptRecords, Adoptable, TypeOK, OpRecords, OperationPlaces, CurInv, EntryInv, ReclaimInv
<1>4. MakeInv' /\ StartInv'
  BY DEF AdoptRecords, MakeInv, StartInv
<1> QED BY <1>1, <1>2, <1>3, <1>4

\* adoptRestored puts the new operation into the marker.
LEMMA AdoptMarksStep ==
    ASSUME IInv, AdoptMarks
    PROVE  Safe'
<1> USE ConstantsAssumption, AbsentAssumption DEF IInv, Safe, Marked, OwnedBy, Whole, Served, Ok, Fault, FaultyWrite
<1>1. OwnerInv' /\ DirInv'
  BY DEF AdoptMarks, TypeOK, Directories, OpRecords, OperationPlaces, OwnerInv, DirInv, CurInv, ReclaimInv
<1>2. EndInv' /\ CurInv'
  BY DEF AdoptMarks, OperationPlaces, EndInv, CurInv
<1>3. EntryInv' /\ ReclaimInv'
  BY DEF AdoptMarks, EntryInv, ReclaimInv
<1>4. MakeInv' /\ StartInv'
  BY DEF AdoptMarks, TypeOK, Directories, Startable, OwnerInv, ReclaimInv, MakeInv, StartInv
<1> QED BY <1>1, <1>2, <1>3, <1>4

\* reclaimIncomplete removes what was renamed aside.
LEMMA RemoveTombStep ==
    ASSUME IInv, RemoveTomb
    PROVE  Safe'
<1> USE ConstantsAssumption, AbsentAssumption DEF IInv, Safe, Marked, OwnedBy, Whole, Served, Ok, Fault, FaultyWrite
<1>1. OwnerInv' /\ DirInv'
  BY DEF RemoveTomb, OwnerInv, DirInv
<1>2. EndInv' /\ CurInv'
  BY DEF RemoveTomb, OperationPlaces, EndInv, CurInv
<1>3. EntryInv' /\ ReclaimInv'
  BY DEF RemoveTomb, AfterReclaim, EntryInv, ReclaimInv
<1>4. MakeInv' /\ StartInv'
  BY DEF RemoveTomb, AfterReclaim, MakeInv, StartInv
<1> QED BY <1>1, <1>2, <1>3, <1>4

\* reclaimIncomplete reads the marker.
LEMMA JudgeStep ==
    ASSUME IInv, Judge
    PROVE  Safe'
<1> USE ConstantsAssumption, AbsentAssumption DEF IInv, Safe, Marked, OwnedBy, Whole, Served, Ok, Fault, FaultyWrite
<1>1. OwnerInv' /\ DirInv'
  BY DEF Judge, TypeOK, Directories, Startable, OwnerInv, DirInv
<1>2. EndInv' /\ CurInv'
  BY DEF Judge, OperationPlaces, EndInv, CurInv
<1>3. EntryInv' /\ ReclaimInv'
  BY DEF Judge, AfterReclaim, TypeOK, Directories, EntryInv, ReclaimInv
<1>4. MakeInv' /\ StartInv'
  BY DEF Judge, AfterReclaim, MakeInv, StartInv
<1> QED BY <1>1, <1>2, <1>3, <1>4

\* reclaimIncomplete removes the line of a directory it may remove.
LEMMA UnregisterStep ==
    ASSUME IInv, Unregister
    PROVE  Safe'
<1> USE ConstantsAssumption, AbsentAssumption DEF IInv, Safe, Marked, OwnedBy, Whole, Served, Ok, Fault, FaultyWrite
<1>1. OwnerInv' /\ DirInv'
  BY DEF Unregister, Markers, OpRecords, OperationPlaces, Startable, OwnerInv, DirInv, CurInv, EntryInv,
         ReclaimInv, MakeInv, StartInv
<1>2. EndInv' /\ CurInv'
  BY DEF Unregister, OperationPlaces, EndInv, CurInv
<1>3. EntryInv' /\ ReclaimInv'
  BY Zenon DEF Unregister, EntryInv, ReclaimInv
<1>4. MakeInv' /\ StartInv'
  BY Zenon DEF Unregister, MakeInv, StartInv
<1> QED BY <1>1, <1>2, <1>3, <1>4

\* reclaimIncomplete renames the directory aside.
LEMMA RenameAsideStep ==
    ASSUME IInv, RenameAside
    PROVE  Safe'
<1> USE ConstantsAssumption, AbsentAssumption DEF IInv, Safe, Marked, OwnedBy, Whole, Served, Ok, Fault, FaultyWrite
<1>1. OwnerInv' /\ DirInv'
  BY DEF RenameAside, Directories, Markers, OpRecords, OperationPlaces, Startable, OwnerInv, DirInv, EndInv,
         CurInv, EntryInv, MakeInv, StartInv
<1>2. EndInv' /\ CurInv'
  BY DEF RenameAside, OperationPlaces, EndInv, CurInv
<1>3. EntryInv' /\ ReclaimInv'
  BY DEF RenameAside, EntryInv, ReclaimInv
<1>4. MakeInv' /\ StartInv'
  BY DEF RenameAside, MakeInv, StartInv
<1> QED BY <1>1, <1>2, <1>3, <1>4

\* The wrong-target guard.
LEMMA GuardStep ==
    ASSUME IInv, Guard
    PROVE  Safe'
<1> USE ConstantsAssumption, AbsentAssumption DEF IInv, Safe, Marked, OwnedBy, Whole, Served, Ok, Fault, FaultyWrite
<1>1. OwnerInv' /\ DirInv'
  BY DEF Guard, OwnerInv, DirInv
<1>2. EndInv' /\ CurInv'
  BY DEF Guard, OperationPlaces, EndInv, CurInv
<1>3. EntryInv' /\ ReclaimInv'
  BY DEF Guard, EntryInv, ReclaimInv
<1>4. MakeInv' /\ StartInv'
  BY DEF Guard, MakeInv, StartInv
<1> QED BY <1>1, <1>2, <1>3, <1>4

\* runHABootstrap does not create what is registered.
LEMMA CreateOrStartStep ==
    ASSUME IInv, CreateOrStart
    PROVE  Safe'
<1> USE ConstantsAssumption, AbsentAssumption DEF IInv, Safe, Marked, OwnedBy, Whole, Served, Ok, Fault, FaultyWrite
<1>1. OwnerInv' /\ DirInv'
  BY DEF CreateOrStart, OwnerInv, DirInv
<1>2. EndInv' /\ CurInv'
  BY DEF CreateOrStart, OperationPlaces, EndInv, CurInv
<1>3. EntryInv' /\ ReclaimInv'
  BY DEF CreateOrStart, EntryInv, ReclaimInv
<1>4. MakeInv' /\ StartInv'
  BY DEF CreateOrStart, DirInv, ReclaimInv, MakeInv, StartInv
<1> QED BY <1>1, <1>2, <1>3, <1>4

\* The new directory, without a marker.
LEMMA MkdirStep ==
    ASSUME IInv, Mkdir
    PROVE  Safe'
<1> USE ConstantsAssumption, AbsentAssumption DEF IInv, Safe, Marked, OwnedBy, Whole, Served, Ok, Fault, FaultyWrite
<1>1. OwnerInv' /\ DirInv'
  <2>1. CASE UNCHANGED dir
    BY <2>1 DEF Mkdir, OwnerInv, DirInv
  <2>2. CASE dir' = [data |-> "none", marker |-> NoMarker, served |-> FALSE]
    BY <2>2 DEF Mkdir, OwnerInv, DirInv, MakeInv
  <2> QED BY <2>1, <2>2 DEF Mkdir
<1>2. EndInv' /\ CurInv'
  BY DEF Mkdir, OperationPlaces, EndInv, CurInv
<1>3. EntryInv' /\ ReclaimInv'
  BY DEF Mkdir, EntryInv, ReclaimInv
<1>4. ~registered /\ UNCHANGED registered
  BY DEF Mkdir, MakeInv
<1>5. [data |-> "none", marker |-> NoMarker, served |-> FALSE] \in Directories
  BY DEF Directories, Markers
<1>6. /\ pc' \in {"fail", "mark"}
      /\ pc' = "mark" => dir' = [data |-> "none", marker |-> NoMarker, served |-> FALSE]
  BY DEF Mkdir
<1>7. pc' = "mark" => dir' # Absent
  BY <1>5, <1>6, Zenon
<1>8. pc' = "mark" => dir'.data = "none" /\ dir'.marker = NoMarker /\ ~dir'.served
  BY <1>6
<1>9. MakeInv' /\ StartInv'
  BY <1>4, <1>6, <1>7, <1>8 DEF MakeInv, StartInv
<1> QED BY <1>1, <1>2, <1>3, <1>9

\* markOwned, or the removal of the new directory.
LEMMA MarkOwnedStep ==
    ASSUME IInv, MarkOwned
    PROVE  Safe'
<1> USE ConstantsAssumption, AbsentAssumption DEF IInv, Safe, Marked, OwnedBy, Whole, Served, Ok, Fault, FaultyWrite
<1>1. OwnerInv' /\ DirInv'
  BY DEF MarkOwned, TypeOK, Directories, OperationPlaces, OwnerInv, DirInv, EndInv, CurInv, MakeInv
<1>2. EndInv' /\ CurInv'
  BY DEF MarkOwned, OperationPlaces, EndInv, CurInv
<1>3. EntryInv' /\ ReclaimInv'
  BY DEF MarkOwned, EntryInv, ReclaimInv
<1>4. MakeInv' /\ StartInv'
  BY DEF MarkOwned, TypeOK, Directories, Markers, OperationPlaces, CurInv, MakeInv, StartInv
<1> QED BY <1>1, <1>2, <1>3, <1>4

\* registerRestoreTarget writes the line.
LEMMA RegisterStep ==
    ASSUME IInv, Register
    PROVE  Safe'
<1> USE ConstantsAssumption, AbsentAssumption DEF IInv, Safe, Marked, OwnedBy, Whole, Served, Ok, Fault, FaultyWrite
<1>1. OwnerInv' /\ DirInv'
  BY DEF Register, Directories, Markers, OpRecords, OperationPlaces, Startable, OwnerInv, DirInv, EndInv, CurInv,
         EntryInv, ReclaimInv, MakeInv, StartInv
<1>2. EndInv' /\ CurInv'
  BY DEF Register, OperationPlaces, EndInv, CurInv
<1>3. EntryInv' /\ ReclaimInv'
  BY DEF Register, EntryInv, ReclaimInv
<1>4. MakeInv' /\ StartInv'
  BY DEF Register, MakeInv, StartInv
<1> QED BY <1>1, <1>2, <1>3, <1>4

\* restoredb writes into the marked directory, and ends.
LEMMA RestoredbStep ==
    ASSUME IInv, Restoredb
    PROVE  Safe'
<1> USE ConstantsAssumption, AbsentAssumption DEF IInv, Safe, Marked, OwnedBy, Whole, Served, Ok, Fault, FaultyWrite
<1>1. OwnerInv' /\ DirInv'
  BY DEF Restoredb, TypeOK, Directories, OperationPlaces, OwnerInv, DirInv, CurInv, MakeInv
<1>2. EndInv' /\ CurInv'
  BY DEF Restoredb, OperationPlaces, EndInv, CurInv
<1>3. EntryInv' /\ ReclaimInv'
  BY DEF Restoredb, EntryInv, ReclaimInv
<1>4. MakeInv' /\ StartInv'
  BY DEF Restoredb, TypeOK, Directories, MakeInv, StartInv
<1> QED BY <1>1, <1>2, <1>3, <1>4

\* The undo's removal comes to the marker.
LEMMA UndoStep ==
    ASSUME IInv, Undo
    PROVE  Safe'
<1> USE ConstantsAssumption, AbsentAssumption DEF IInv, Safe, Marked, OwnedBy, Whole, Served, Ok, Fault, FaultyWrite
<1>1. OwnerInv' /\ DirInv'
  BY DEF Undo, Startable, OwnerInv, DirInv
<1>2. EndInv' /\ CurInv'
  BY DEF Undo, OperationPlaces, EndInv, CurInv
<1>3. EntryInv' /\ ReclaimInv'
  BY DEF Undo, EntryInv, ReclaimInv
<1>4. /\ dir \in Directories /\ dir # Absent /\ ~dir.served
      /\ dir' = [dir EXCEPT !.marker = NoMarker, !.data = "removed"] /\ pc' = "undorest"
  BY DEF Undo, MakeInv, TypeOK
<1>5. dir' \in Directories /\ dir'.marker = NoMarker /\ ~dir'.served
  BY <1>4, Zenon DEF Directories, Markers
<1>6. MakeInv' /\ StartInv'
  BY <1>4, <1>5 DEF MakeInv, StartInv
<1> QED BY <1>1, <1>2, <1>3, <1>6

\* The undo's removal ends, then the line goes.
LEMMA UndoRestStep ==
    ASSUME IInv, UndoRest
    PROVE  Safe'
<1> USE ConstantsAssumption, AbsentAssumption DEF IInv, Safe, Marked, OwnedBy, Whole, Served, Ok, Fault, FaultyWrite
<1>1. OwnerInv' /\ DirInv'
  <2>1. CASE UNCHANGED dir
    BY <2>1 DEF UndoRest, OwnerInv, DirInv
  <2>2. CASE dir' = Absent
    BY <2>2 DEF OwnerInv, DirInv
  <2> QED BY <2>1, <2>2 DEF UndoRest
<1>2. EndInv' /\ CurInv'
  BY DEF UndoRest, OperationPlaces, EndInv, CurInv
<1>3. EntryInv' /\ ReclaimInv'
  BY DEF UndoRest, EntryInv, ReclaimInv
<1>4. MakeInv' /\ StartInv'
  BY DEF UndoRest, MakeInv, StartInv
<1> QED BY <1>1, <1>2, <1>3, <1>4

\* The restored data is recorded.
LEMMA RecordRestoredStep ==
    ASSUME IInv, RecordRestored
    PROVE  Safe'
<1> USE ConstantsAssumption, AbsentAssumption DEF IInv, Safe, Marked, OwnedBy, Whole, Served, Ok, Fault, FaultyWrite
<1>1. OwnerInv' /\ DirInv'
  BY DEF RecordRestored, TypeOK, OpRecords, OwnerInv, DirInv, MakeInv
<1>2. EndInv' /\ CurInv'
  BY DEF RecordRestored, TypeOK, OpRecords, OperationPlaces, EndInv, CurInv
<1>3. EntryInv' /\ ReclaimInv'
  BY DEF RecordRestored, EntryInv, ReclaimInv
<1>4. MakeInv' /\ StartInv'
  BY DEF RecordRestored, TypeOK, OpRecords, OperationPlaces, Startable, CurInv, MakeInv, StartInv
<1> QED BY <1>1, <1>2, <1>3, <1>4

\* createHADatabase after createdb.
LEMMA CreatedStep ==
    ASSUME IInv, Created
    PROVE  Safe'
<1> USE ConstantsAssumption, AbsentAssumption DEF IInv, Safe, Marked, OwnedBy, Whole, Served, Ok, Fault, FaultyWrite
<1>1. OwnerInv' /\ DirInv'
  BY DEF Created, TypeOK, Directories, Startable, OwnerInv, DirInv, MakeInv
<1>2. EndInv' /\ CurInv'
  BY DEF Created, OperationPlaces, EndInv, CurInv
<1>3. EntryInv' /\ ReclaimInv'
  BY DEF Created, EntryInv, ReclaimInv
<1>4. MakeInv' /\ StartInv'
  BY DEF Created, TypeOK, Directories, MakeInv, StartInv
<1> QED BY <1>1, <1>2, <1>3, <1>4

\* createHADatabase clears its marker from a whole database.
LEMMA UnmarkStep ==
    ASSUME IInv, Unmark
    PROVE  Safe'
<1> USE ConstantsAssumption, AbsentAssumption DEF IInv, Safe, Marked, OwnedBy, Whole, Served, Ok, Fault, FaultyWrite
<1>1. OwnerInv' /\ DirInv'
  BY DEF Unmark, TypeOK, Directories, Startable, OwnerInv, DirInv, MakeInv
<1>2. EndInv' /\ CurInv'
  BY DEF Unmark, OperationPlaces, EndInv, CurInv
<1>3. EntryInv' /\ ReclaimInv'
  BY DEF Unmark, EntryInv, ReclaimInv
<1>4. MakeInv' /\ StartInv'
  BY DEF Unmark, TypeOK, Directories, Startable, MakeInv, StartInv
<1> QED BY <1>1, <1>2, <1>3, <1>4

\* startRestoredDatabase.
LEMMA StartStep ==
    ASSUME IInv, Start
    PROVE  Safe'
<1> USE ConstantsAssumption, AbsentAssumption DEF IInv, Safe, Marked, OwnedBy, Whole, Served, Ok, Fault, FaultyWrite
<1>1. OwnerInv' /\ DirInv'
  BY DEF Start, TypeOK, Directories, Startable, OwnerInv, DirInv, StartInv
<1>2. EndInv' /\ CurInv'
  BY DEF Start, OperationPlaces, EndInv, CurInv
<1>3. EntryInv' /\ ReclaimInv'
  BY DEF Start, EntryInv, ReclaimInv
<1>4. dir # Absent => dir \in Directories /\ dir.data \in Startable
  BY DEF Start, TypeOK, StartInv
<1>5. /\ pc' \in {"fail", "complete"} /\ UNCHANGED <<ops, cur>>
      /\ pc' = "complete" => dir # Absent /\ dir' = [dir EXCEPT !.served = TRUE]
  BY DEF Start
<1>6. pc' = "complete" => /\ dir' \in Directories /\ dir'.data = dir.data /\ dir'.marker = dir.marker
                          /\ dir.data \in Startable /\ dir # Absent
  BY <1>4, <1>5, Zenon DEF Directories
<1>7. dir # Absent /\ dir.marker # NoMarker => dir.marker = cur /\ ops[cur].restored
  BY DEF Start, StartInv
<1>8. MakeInv' /\ StartInv'
  BY <1>5, <1>6, <1>7 DEF MakeInv, StartInv
<1> QED BY <1>1, <1>2, <1>3, <1>8

\* The end of an operation is recorded, or kept.
LEMMA CompletesStep ==
    ASSUME IInv, Completes
    PROVE  Safe'
<1> USE ConstantsAssumption, AbsentAssumption DEF IInv, Safe, Marked, OwnedBy, Whole, Served, Ok, Fault, FaultyWrite
<1>1. OwnerInv' /\ DirInv'
  BY DEF Completes, TypeOK, OpRecords, OwnerInv, DirInv, StartInv
<1>2. EndInv' /\ CurInv'
  BY DEF Completes, TypeOK, OperationPlaces, EndInv, CurInv
<1>3. EntryInv' /\ ReclaimInv'
  BY DEF Completes, EntryInv, ReclaimInv
<1>4. MakeInv' /\ StartInv'
  BY DEF Completes, MakeInv, StartInv
<1> QED BY <1>1, <1>2, <1>3, <1>4

\* A new volume, or one with a served database.
LEMMA InitInv ==
    ASSUME Init
    PROVE  IInv
<1>1. TypeOK
  <2>1. ops \in [Ids -> OpRecords]
    BY ConstantsAssumption DEF Init, OpRecords
  <2>2. dir \in Directories \cup {Absent}
    <3>1. [data |-> "whole", marker |-> NoMarker, served |-> TRUE] \in Directories
      BY DEF Directories, Markers
    <3> QED BY <3>1, Zenon DEF Init
  <2>3. faults \in 0 .. MaxFaults
    BY ConstantsAssumption DEF Init
  <2>4. registered \in BOOLEAN /\ running \in BOOLEAN
    BY Zenon DEF Init
  <2> QED BY <2>1, <2>2, <2>3, <2>4 DEF Init, TypeOK, EntryPlaces
<1>2. OwnerInv /\ DirInv
  BY ConstantsAssumption, AbsentAssumption DEF Init, OwnerInv, DirInv, OwnedBy, Startable
<1>3. EndInv /\ CurInv /\ EntryInv /\ ReclaimInv /\ MakeInv /\ StartInv
  BY DEF Init, EndInv, CurInv, EntryInv, ReclaimInv, MakeInv, StartInv, OperationPlaces
<1> QED BY <1>1, <1>2, <1>3 DEF IInv, Safe

\* Every step keeps the invariant.
LEMMA NextInv ==
    ASSUME IInv, [Next]_vars
    PROVE  IInv'
<1>1. CASE UNCHANGED vars
  <2>1. TypeOK'
    BY <1>1 DEF IInv, TypeOK, vars, config
  <2>2. OwnerInv' /\ DirInv' /\ EndInv' /\ CurInv'
    BY <1>1 DEF IInv, Safe, OwnerInv, DirInv, EndInv, CurInv, Marked, OwnedBy, vars
  <2>3. EntryInv' /\ ReclaimInv' /\ MakeInv' /\ StartInv'
    BY <1>1 DEF IInv, Safe, EntryInv, ReclaimInv, MakeInv, StartInv, Marked, OwnedBy, Whole, Served, vars
  <2> QED BY <2>1, <2>2, <2>3 DEF IInv, Safe
<1>2. CASE Next
  <2>1. TypeOK'
    BY <1>2, TypeStep
  <2>2. ASSUME Entrypoint PROVE Safe'
    BY <2>2, EntryWaitsStep, EntryGoesOnStep, EntryCreatedStep, EntryUnmarksStep, EntryStartsStep DEF Entrypoint
  <2>3. ASSUME Manager PROVE Safe'
    BY <2>3, ManagerStartsStep, ResumeStartsStep, ClearOwnedStep, SettleKeptStep DEF Manager
  <2>4. ASSUME Operation PROVE Safe'
    BY <2>4, FailsStep, BeginStep, AdoptRecordsStep, AdoptMarksStep, RemoveTombStep, JudgeStep, UnregisterStep,
       RenameAsideStep, GuardStep, CreateOrStartStep, MkdirStep, MarkOwnedStep, RegisterStep, RestoredbStep,
       UndoStep, UndoRestStep, RecordRestoredStep, CreatedbStep, CreatedStep, UnmarkStep, StartStep, CompletesStep
    DEF Operation
  <2>5. ASSUME Requested PROVE Safe'
    BY <2>5, RequestStep DEF Requested
  <2> QED BY <1>2, <2>1, <2>2, <2>3, <2>4, <2>5, CrashStep, BootStep DEF Next, IInv
<1> QED BY <1>1, <1>2

\* The invariant holds in every behaviour.
LEMMA Invariant == Spec => []IInv
  BY InitInv, NextInv, PTL DEF Spec

-----------------------------------------------------------------------------
(* What is started and what is kept.                                       *)

\* entrypoint.sh, startRestoredDatabase and ResumeCompletedRestores start only
\* what a finished createdb or restoredb, or an undo that was cut off, left.
THEOREM NoUnfinishedStart == Spec => []UnfinishedNotStarted
<1>1. IInv => UnfinishedNotStarted
  BY DEF IInv, Safe, UnfinishedNotStarted, Starting, Resumable, OwnedBy, OwnerInv, EntryInv, StartInv, Startable
<1> QED
  BY <1>1, Invariant, PTL

\* runRestore and adoptRestored: restored data that was started is on record as
\* restored for as long as the directory carries the operation's marker.
THEOREM StartedIsRecorded == Spec => []MarkedServedIsRecorded
<1>1. IInv => MarkedServedIsRecorded
  BY DEF IInv, Safe, MarkedServedIsRecorded, OwnerInv, OwnedBy, Served
<1> QED
  BY <1>1, Invariant, PTL

\* Only an operation's own new directory, or one that it may reclaim, goes.
LEMMA ServedStep ==
    ASSUME IInv, Next, Served
    PROVE  Served'
<1> USE AbsentAssumption DEF IInv, Safe, Served
<1>0. dir \in Directories /\ dir # Absent /\ dir.served
  BY DEF TypeOK
<1>1. CASE UNCHANGED dir
  BY <1>1
<1>2. ASSUME dir' \in {[dir EXCEPT !.data = x] : x \in {"partial", "whole"}} \cup
                      {[dir EXCEPT !.marker = x] : x \in Markers} \cup {[dir EXCEPT !.served = TRUE]}
      PROVE  Served'
  <2>1. dir' \in Directories /\ dir'.served
    BY <1>0, <1>2, Zenon DEF Directories
  <2> QED
    BY <2>1
<1>3. CASE EntryGoesOn
  <2>1. dir.data # "none"
    BY <1>0 DEF DirInv
  <2>2. component \in {"SERVER", "HA"} /\ bootstrap \in {"new", "recovery"}
    BY ConstantsAssumption DEF TypeOK
  <2>3. registered
    BY <1>0, <1>3, <2>1, <2>2 DEF EntryGoesOn, EntryHolds
  <2> QED
    BY <1>1, <1>3, <2>3 DEF EntryGoesOn
<1>4. CASE Createdb \/ EntryCreated
  BY <1>1, <1>2, <1>4, Zenon DEF Createdb, EntryCreated
<1>5. CASE EntryUnmarks \/ ClearOwned \/ Judge \/ Unmark
  BY <1>1, <1>2, <1>5 DEF EntryUnmarks, ClearOwned, Judge, Unmark, FaultyWrite, Markers
<1>6. CASE EntryStarts \/ ResumeStarts \/ Start
  BY <1>1, <1>2, <1>6 DEF EntryStarts, ResumeStarts, Start
<1>7. CASE AdoptMarks
  BY <1>1, <1>2, <1>7 DEF AdoptMarks, FaultyWrite, Markers, CurInv, OperationPlaces
<1>8. CASE RenameAside
  BY <1>0, <1>8 DEF RenameAside, ReclaimInv, OwnerInv, OwnedBy
<1>9. CASE Mkdir \/ MarkOwned \/ Undo \/ UndoRest \/ Created \/ Restoredb
  BY <1>0, <1>1, <1>9 DEF Mkdir, MarkOwned, Undo, UndoRest, Created, Restoredb, MakeInv
<1> QED
  BY <1>1, <1>3, <1>4, <1>5, <1>6, <1>7, <1>8, <1>9, Zenon
  DEF Next, Entrypoint, Manager, Operation, Requested, Crash, Boot, EntryWaits, ManagerStarts, SettleKept, Request,
      Fails, Begin, AdoptRecords, RemoveTomb, Unregister, Guard, CreateOrStart, Register, RecordRestored, Completes

\* reclaimIncomplete, the wrong-target guard and the undo: a database that was ever
\* started is not removed, moved aside or made anew.
THEOREM ServedIsKept == Spec => ServedDataKept
<1>1. IInv /\ [Next]_vars => [Served => Served']_vars
  <2>1. CASE Next
    BY <2>1, ServedStep
  <2>2. CASE UNCHANGED vars
    BY <2>2
  <2> QED
    BY <2>1, <2>2
<1> QED
  BY <1>1, Invariant, PTL DEF Spec, ServedDataKept

\* A refused directory is the entrypoint's, or is of an operation that is over
\* and restored it.
LEMMA RefusedFacts ==
    ASSUME IInv, UnfinishedDatabase = "refused"
    PROVE  /\ Marked
           /\ \A id \in Ids : OwnedBy(id) => ops[id].restored
           /\ pc \in OperationPlaces => ~OwnedBy(cur)
<1> USE DEF IInv, Safe
<1>1. /\ Marked
      /\ \A id \in Ids : OwnedBy(id) => /\ Ended(id) \notin {"open", "Completed"}
                                        /\ Ended(id) = "Failed" => ops[id].restored
  BY DEF UnfinishedDatabase
<1>2. ASSUME NEW id \in Ids, OwnedBy(id)
      PROVE  Ended(id) \in {"open", "Completed", "Failed"}
  <2>1. ops[id].state \in {"open", "Completed", "Failed"} /\ end[id] \in {"none", "Completed", "Failed"}
    BY <1>2 DEF TypeOK, OpRecords, OwnerInv
  <2> QED
    BY <2>1 DEF Ended
<1>3. pc \in OperationPlaces => cur \in Ids /\ Ended(cur) = "open"
  BY DEF CurInv, EndInv, Ended, OperationPlaces
<1> QED
  BY <1>1, <1>2, <1>3

\* No step of the manager or of an operation changes the data of a refused directory.
LEMMA RefusedStep ==
    ASSUME IInv, Next, ManagerServes, UnfinishedDatabase = "refused"
    PROVE  dir' # Absent /\ dir'.data = dir.data
<1> USE AbsentAssumption DEF IInv, Safe
<1>0. /\ dir \in Directories /\ dir # Absent /\ dir.marker # NoMarker
      /\ \A id \in Ids : OwnedBy(id) => ops[id].restored
      /\ pc \in OperationPlaces => ~OwnedBy(cur)
  BY RefusedFacts DEF TypeOK, Marked
<1>1. CASE UNCHANGED dir
  BY <1>0, <1>1
<1>2. ASSUME dir' \in {[dir EXCEPT !.marker = x] : x \in Markers} \cup {[dir EXCEPT !.served = TRUE]}
      PROVE  dir' # Absent /\ dir'.data = dir.data
  <2>1. dir' \in Directories /\ dir'.data = dir.data
    BY <1>0, <1>2, Zenon DEF Directories
  <2> QED
    BY <2>1
<1>3. CASE EntryGoesOn \/ EntryCreated \/ EntryUnmarks \/ EntryStarts
  BY <1>3 DEF ManagerServes, EntryPlaces, EntryGoesOn, EntryCreated, EntryUnmarks, EntryStarts
<1>4. CASE ClearOwned \/ Judge \/ Unmark
  BY <1>1, <1>2, <1>4 DEF ClearOwned, Judge, Unmark, FaultyWrite, Markers
<1>5. CASE ResumeStarts \/ Start
  BY <1>1, <1>2, <1>5 DEF ResumeStarts, Start
<1>6. CASE AdoptMarks
  BY <1>1, <1>2, <1>6 DEF AdoptMarks, FaultyWrite, Markers, CurInv, OperationPlaces
<1>7. CASE RenameAside
  BY <1>0, <1>7 DEF RenameAside, ReclaimInv
<1>8. CASE Createdb \/ Created \/ Restoredb \/ Undo
  <2>1. pc \notin {"createdb", "creating", "restoredb", "restoring", "undo"}
    BY <1>0 DEF MakeInv, OperationPlaces
  <2> QED
    BY <1>8, <2>1, Zenon DEF ManagerServes, EntryPlaces, Createdb, Created, Restoredb, Undo
<1>9. CASE Mkdir \/ MarkOwned \/ UndoRest
  BY <1>0, <1>1, <1>9 DEF Mkdir, MarkOwned, UndoRest, MakeInv, Marked
<1> QED
  BY <1>1, <1>3, <1>4, <1>5, <1>6, <1>7, <1>8, <1>9, Zenon
  DEF Next, Entrypoint, Manager, Operation, Requested, Crash, Boot, EntryWaits, ManagerStarts, SettleKept, Request,
      Fails, Begin, AdoptRecords, RemoveTomb, Unregister, Guard, CreateOrStart, Register, RecordRestored, Completes

\* reclaimIncomplete refuses no directory that the role answer calls waiting.
LEMMA WaitingStep ==
    ASSUME IInv, Next, UnfinishedDatabase = "waiting", pc = "reclaim", pc' = "fail"
    PROVE  faults' > faults
<1> USE DEF IInv, Safe
<1>1. PICK id \in Ids : OwnedBy(id) /\ (Ended(id) = "Completed" \/ (Ended(id) = "Failed" /\ ~ops[id].restored))
  BY DEF UnfinishedDatabase
<1>2. ops[id].state = "Completed" \/ (ops[id].state = "Failed" /\ ~ops[id].restored)
  BY <1>1 DEF EndInv, Ended
<1>3. ASSUME Fault("fail") \/ Fault("down") PROVE faults' > faults
  BY <1>3, ConstantsAssumption DEF Fault, TypeOK
<1>4. CASE Crash
  BY <1>3, <1>4 DEF Crash
<1>5. CASE RemoveTomb
  BY <1>3, <1>5 DEF RemoveTomb, Ok
<1>6. CASE Judge
  BY <1>1, <1>2, <1>3, <1>6 DEF Judge, AfterReclaim, FaultyWrite, OwnedBy, Ok
<1> QED
  BY <1>4, <1>5, <1>6, Zenon
  DEF Next, Entrypoint, Manager, Operation, Requested, Boot, EntryWaits, EntryGoesOn, EntryCreated, EntryUnmarks,
      EntryStarts, ManagerStarts, ResumeStarts, ClearOwned, SettleKept, Request, Fails, Begin, AdoptRecords,
      AdoptMarks, Unregister, RenameAside, Guard, CreateOrStart, Mkdir, MarkOwned, Register, Restoredb, Undo,
      UndoRest, RecordRestored, Createdb, Created, Unmark, Start, Completes

\* unfinishedDatabase and reclaimIncomplete: what the role answer calls refused is
\* kept by every operation, and what it calls waiting is refused by none.
THEOREM ReportIsTrue == Spec => ReportIsKept
<1> DEFINE Kept ==
      /\ ManagerServes /\ UnfinishedDatabase = "refused" => dir' # Absent /\ dir'.data = dir.data
      /\ UnfinishedDatabase = "waiting" /\ pc = "reclaim" /\ pc' = "fail" => faults' > faults
<1>1. IInv /\ [Next]_vars => [Kept]_vars
  <2>1. CASE Next
    BY <2>1, RefusedStep, WaitingStep
  <2>2. CASE UNCHANGED vars
    BY <2>2
  <2> QED
    BY <2>1, <2>2
<1> QED
  BY <1>1, Invariant, PTL DEF Spec, ReportIsKept
=============================================================================
