---------------------------- MODULE BackupStaging ----------------------------
(***************************************************************************)
(* Backups on one member: the claim of a staging directory, backupdb, the  *)
(* upload and the removal of the staging (internal/instancemanager/        *)
(* staging.go, stagingwriter.go, upload.go, and the backup handler and     *)
(* runBackup of server.go), for the requests that name one destination.    *)
(*                                                                         *)
(* A request is its idempotency key, and its operation is known by that    *)
(* key (OperationStore: there is at most one).  cub_server writes the file *)
(* of backupdb: it may open it after the command was cancelled, and keep   *)
(* it open after the operation has failed.                                 *)
(***************************************************************************)
EXTENDS Naturals, FiniteSets

CONSTANTS
    Keys,          \* requests, and the operations and directories they get
    Files,         \* number of files a backup has
    Databases,     \* databases the requests may name
    MaxFailures,   \* bound: directories that a removal could not remove
    MaxSpoiled,    \* bound: records that become unreadable
    MaxCrashes,    \* bound: crashes of the container
    None

ASSUME FilesAssumption == Files \in Nat \ {0}
ASSUME BoundsAssumption == {MaxFailures, MaxSpoiled, MaxCrashes} \subseteq Nat
ASSUME KeysAssumption == None \notin Keys /\ IsFiniteSet(Keys)

VARIABLES
    database,    \* the database each request names
    record,      \* the state each operation has on record
    unreadable,  \* operations whose record cannot be read
    pc,          \* what each request or operation does
    mu,          \* the request that holds stagingMu
    entries,     \* the directories in the destination
    content,     \* whose writers wrote into each directory
    path,        \* the directory each operation stages in
    writer,      \* cub_server's file of each backup: "none", "opening", "writing", "late"
    bucket,      \* how many objects of each backup were uploaded and verified
    taken,       \* history: whose files went into each upload
    manifest,    \* backups whose manifest.json was uploaded
    failures,    \* history: directories that could not be removed
    crashes      \* how often the container crashed

vars == <<database, record, unreadable, pc, mu, entries, content, path, writer, bucket, taken, manifest,
          failures, crashes>>
disk == <<entries, content, path, failures>>
store == <<bucket, taken, manifest>>

OpenStates == {"Pending", "RunningBackup", "Uploading"}
Open(k) == record[k] \in OpenStates
Held(k) == writer[k] \in {"writing", "late"}

Init ==
    /\ database \in [Keys -> Databases]
    /\ record = [k \in Keys |-> "none"]
    /\ unreadable = {}
    /\ pc = [k \in Keys |-> "none"]
    /\ mu = None
    /\ entries = {}
    /\ content = [k \in Keys |-> {}]
    /\ path = [k \in Keys |-> None]
    /\ writer = [k \in Keys |-> "none"]
    /\ bucket = [k \in Keys |-> 0]
    /\ taken = [k \in Keys |-> {}]
    /\ manifest = {}
    /\ failures = 0
    /\ crashes = 0

Goto(k, label) == pc' = [pc EXCEPT ![k] = label]

\* The directories ks are removed, but for those in left.
Removed(ks, left) ==
    /\ failures + Cardinality(left) <= MaxFailures
    /\ failures' = failures + Cardinality(left)
    /\ content' = [k \in Keys |-> IF k \in ks \ left THEN {} ELSE content[k]]

RemoveAll(ks) ==
    \E left \in SUBSET ks : Removed(ks, left) /\ entries' = (entries \ ks) \cup left

-----------------------------------------------------------------------------
(* recordBackup: the request, under stagingMu.                             *)

\* Mutant of stagingOwnerLive: the record alone is looked at.
stagingOwnerLiveByRecord(k) == k \in unreadable \/ Open(k)

stagingOwnerLive(k) == k \in unreadable \/ Open(k) \/ Held(k)

liveStagingOwners == {k \in entries : stagingOwnerLive(k)}

\* Keys are interchangeable: the next one is used after those before it.
NextKey(k) == record[k] = "none" => k = CHOOSE j \in Keys : record[j] = "none"

\* A request, sent for the first time or again, of a member that admits it.
Request(k) ==
    /\ pc[k] = "none"
    /\ NextKey(k)
    /\ mu = None
    /\ mu' = k
    /\ Goto(k, "checking")
    /\ UNCHANGED <<record, unreadable, disk, writer, store, crashes>>

\* The request is answered.
Answered(k) == Goto(k, "none") /\ mu' = None

\* A live owner of the destination refuses the request: one whose record cannot
\* be read, or one that is not known to be the request's own operation.
Refused(k) == \E j \in liveStagingOwners : j \in unreadable \/ j # k \/ ~Open(j)

\* FindOrCreate: the key is on record, or something keeps it from being recorded.
NotCreated(k) ==
    \/ record[k] # "none"
    \/ unreadable # {}
    \/ \E j \in Keys : Open(j) /\ database[j] = database[k]

\* The destination's owners are looked at, then the operation is found or recorded.
CheckOwners(k) ==
    /\ pc[k] = "checking"
    /\ IF Refused(k) \/ NotCreated(k)
       THEN Answered(k) /\ UNCHANGED record
       ELSE /\ record' = [record EXCEPT ![k] = "Pending"]
            /\ Goto(k, "judging")
            /\ UNCHANGED mu
    /\ UNCHANGED <<unreadable, disk, writer, store, crashes>>

\* claimBackupStaging: reclaimDestination looks at the owners once more, and
\* anything that cannot be made or read ends the claim.
Judge(k) ==
    /\ pc[k] = "judging"
    /\ \/ liveStagingOwners = {} /\ Goto(k, "claiming")
       \/ Goto(k, "unclaimed")
    /\ UNCHANGED <<record, unreadable, mu, disk, writer, store, crashes>>

\* Mutant of Claim: a directory that is there is used again.
ClaimReuses(k) ==
    /\ pc[k] = "claiming"
    /\ \E d \in entries \cup {k} :
         /\ d = k => entries = {}
         /\ entries' = entries \cup {d}
         /\ path' = [path EXCEPT ![k] = d]
    /\ Goto(k, "claimed")
    /\ UNCHANGED <<record, unreadable, mu, content, failures, writer, store, crashes>>

\* Mutant of Claim: what abandoned operations left stays.
ClaimKeeps(k) ==
    /\ pc[k] = "claiming"
    /\ entries' = entries \cup {k}
    /\ path' = [path EXCEPT ![k] = k]
    /\ Goto(k, "claimed")
    /\ UNCHANGED <<record, unreadable, mu, content, failures, writer, store, crashes>>

\* Abandoned entries are removed and the operation's own directory is made, or
\* cannot be made.
Claim(k) ==
    /\ pc[k] = "claiming"
    /\ \E left \in SUBSET entries :
         /\ Removed(entries, left)
         /\ \/ entries' = left \cup {k} /\ path' = [path EXCEPT ![k] = k] /\ Goto(k, "claimed")
            \/ entries' = left /\ path' = path /\ Goto(k, "unclaimed")
    /\ UNCHANGED <<record, unreadable, mu, writer, store, crashes>>

\* The directory is recorded, and runBackup begins.
Recorded(k) ==
    /\ pc[k] = "claimed"
    /\ \/ /\ Goto(k, "starting") /\ mu' = None
          /\ UNCHANGED <<entries, content, failures>>
       \/ /\ Goto(k, "unclaimed")
          /\ RemoveAll({path[k]})
          /\ UNCHANGED mu
    /\ UNCHANGED <<record, unreadable, path, writer, store, crashes>>


\* The claim failed: so does the operation.
Unclaimed(k) ==
    /\ pc[k] = "unclaimed"
    /\ record' = [record EXCEPT ![k] = "Failed"]
    /\ Answered(k)
    /\ UNCHANGED <<unreadable, disk, writer, store, crashes>>

-----------------------------------------------------------------------------
(* runBackup.                                                              *)

Fails(k) == Goto(k, "failing")

\* Running is recorded, and the engine version and the role allow the backup.
StartBackup(k) ==
    /\ pc[k] = "starting"
    /\ \/ /\ record' = [record EXCEPT ![k] = "RunningBackup"]
          /\ entries' = entries \cup {path[k]}    \* createBackupStaging
          /\ writer' = [writer EXCEPT ![k] = "opening"]
          /\ Goto(k, "backing")
       \/ /\ record' \in {record, [record EXCEPT ![k] = "RunningBackup"]}
          /\ Fails(k)
          /\ UNCHANGED <<entries, writer>>
    /\ UNCHANGED <<unreadable, mu, content, path, failures, store, crashes>>

\* cub_server opens its file: there is none to open in a directory that is gone.
WriterOpens(k) ==
    /\ writer[k] = "opening"
    /\ \/ /\ path[k] \in entries
          /\ writer' = [writer EXCEPT ![k] = IF pc[k] = "backing" THEN "writing" ELSE "late"]
          /\ content' = [content EXCEPT ![path[k]] = @ \cup {k}]
       \/ writer' = [writer EXCEPT ![k] = "none"] /\ content' = content
    /\ UNCHANGED <<record, unreadable, pc, mu, entries, path, failures, store, crashes>>

\* It closes the file of a backup that was cancelled.
WriterCloses(k) ==
    /\ Held(k)
    /\ pc[k] # "backing"
    /\ writer' = [writer EXCEPT ![k] = "none"]
    /\ UNCHANGED <<record, unreadable, pc, mu, disk, store, crashes>>

\* backupdb returns: its file is written and closed, or it failed or was
\* cancelled at any point.
BackupReturns(k) ==
    /\ pc[k] = "backing"
    /\ \/ /\ writer[k] = "writing"
          /\ writer' = [writer EXCEPT ![k] = "none"]
          /\ Goto(k, "backed")
       \/ Fails(k) /\ writer' = writer
    /\ UNCHANGED <<record, unreadable, mu, disk, store, crashes>>

\* The role is read again, and Uploading is recorded.
StartUpload(k) ==
    /\ pc[k] = "backed"
    /\ \/ record' = [record EXCEPT ![k] = "Uploading"] /\ Goto(k, "uploading")
       \/ record' = record /\ Fails(k)
    /\ UNCHANGED <<unreadable, mu, disk, writer, store, crashes>>

\* UploadBackup: one file is hashed, put and its size verified, or it fails.
UploadFile(k) ==
    /\ pc[k] = "uploading"
    /\ bucket[k] < Files
    /\ taken' = [taken EXCEPT ![k] = @ \cup content[path[k]]]
    /\ \/ bucket' = [bucket EXCEPT ![k] = @ + 1] /\ pc' = pc
       \/ bucket' = bucket /\ Fails(k)
    /\ UNCHANGED <<record, unreadable, mu, disk, writer, manifest, crashes>>

\* Mutant of UploadManifest: the manifest goes first.
UploadManifestFirst(k) ==
    /\ pc[k] = "uploading"
    /\ manifest' = manifest \cup {k}
    /\ IF bucket[k] = Files THEN Goto(k, "uploaded") ELSE pc' = pc
    /\ UNCHANGED <<record, unreadable, mu, disk, writer, bucket, taken, crashes>>

\* manifest.json is put last; its answer may be lost.
UploadManifest(k) ==
    /\ pc[k] = "uploading"
    /\ bucket[k] = Files
    /\ \/ manifest' = manifest \cup {k} /\ Goto(k, "uploaded")
       \/ manifest' \in {manifest, manifest \cup {k}} /\ Fails(k)
    /\ UNCHANGED <<record, unreadable, mu, disk, writer, bucket, taken, crashes>>

\* awaitStagingWriters: nothing holds a file in it, or the bound has passed and
\* something does or the holders could not be told.
AwaitStagingWriters(k) ==
    /\ pc[k] = "failing"
    /\ \/ ~Held(k) /\ Goto(k, "clearing")
       \/ Goto(k, "keeping")
    /\ UNCHANGED <<record, unreadable, mu, disk, writer, store, crashes>>

\* removeBackupStaging, under stagingMu.
RemoveBackupStaging(k) ==
    /\ pc[k] \in {"clearing", "uploaded"}
    /\ mu = None
    /\ RemoveAll({path[k]})
    /\ Goto(k, IF pc[k] = "clearing" THEN "keeping" ELSE "completing")
    /\ UNCHANGED <<record, unreadable, mu, path, writer, store, crashes>>

\* The end is recorded (Settle).
Settle(k) ==
    /\ pc[k] \in {"keeping", "completing"}
    /\ record' = [record EXCEPT ![k] = IF pc[k] = "keeping" THEN "Failed" ELSE "Completed"]
    /\ Goto(k, "none")
    /\ UNCHANGED <<unreadable, mu, disk, writer, store, crashes>>

-----------------------------------------------------------------------------
(* The container crashes and starts again: the store fails what was open,  *)
(* and reclaimBackupStaging removes what is abandoned.                     *)

Crash ==
    /\ crashes < MaxCrashes
    /\ crashes' = crashes + 1
    /\ record' = [k \in Keys |-> IF Open(k) /\ k \notin unreadable THEN "Failed" ELSE record[k]]
    /\ pc' = [k \in Keys |-> "none"]
    /\ mu' = None
    /\ writer' = [k \in Keys |-> "none"]
    /\ IF entries \cap unreadable = {} THEN RemoveAll(entries) ELSE UNCHANGED <<entries, content, failures>>
    /\ UNCHANGED <<unreadable, path, store>>

\* The record of an operation that has ended becomes unreadable.
Spoil(k) ==
    /\ Cardinality(unreadable) < MaxSpoiled
    /\ record[k] # "none"
    /\ pc[k] = "none"
    /\ unreadable' = unreadable \cup {k}
    /\ UNCHANGED <<record, pc, mu, disk, writer, store, crashes>>

Operation(k) ==
    \/ CheckOwners(k) \/ Judge(k) \/ Claim(k) \/ Recorded(k) \/ Unclaimed(k)
    \/ StartBackup(k) \/ BackupReturns(k) \/ StartUpload(k) \/ UploadFile(k) \/ UploadManifest(k)
    \/ AwaitStagingWriters(k) \/ RemoveBackupStaging(k) \/ Settle(k)

Next ==
    /\ \/ \E k \in Keys : Request(k) \/ Operation(k) \/ WriterOpens(k) \/ WriterCloses(k) \/ Spoil(k)
       \/ Crash
    /\ UNCHANGED database

Spec == Init /\ [][Next]_vars

\* stagingMu is handed over, contexts end, and the wait for the writer is bounded.
FairSpec == Spec /\ \A k \in Keys : SF_vars(Operation(k) /\ UNCHANGED database)

-----------------------------------------------------------------------------
(* Properties.                                                             *)

TypeOK ==
    /\ database \in [Keys -> Databases]
    /\ record \in [Keys -> OpenStates \cup {"none", "Completed", "Failed"}]
    /\ unreadable \subseteq Keys
    /\ pc \in [Keys -> {"none", "checking", "judging", "claiming", "claimed", "unclaimed", "starting", "backing", "backed",
                        "uploading", "uploaded", "failing", "clearing", "keeping", "completing"}]
    /\ mu \in Keys \cup {None}
    /\ entries \subseteq Keys
    /\ content \in [Keys -> SUBSET Keys]
    /\ path \in [Keys -> Keys \cup {None}]
    /\ writer \in [Keys -> {"none", "opening", "writing", "late"}]
    /\ bucket \in [Keys -> 0..Files]
    /\ taken \in [Keys -> SUBSET Keys]
    /\ manifest \subseteq Keys
    /\ failures \in 0..MaxFailures
    /\ crashes \in 0..MaxCrashes

\* staging.go: an operation never uploads a file that another one wrote, also
\* when a writer outlives its operation.
OwnFilesOnly == \A k \in Keys : taken[k] \subseteq {k}

\* reclaimDestination, awaitStagingWriters: the staging of an operation that runs
\* is removed by that operation only, and no directory is removed while the file
\* that backupdb opened in it is being written.
StagingInUseKept ==
    [][\A k \in entries \ entries' :
         /\ Open(k) => pc'[k] # pc[k]
         /\ writer[k] # "writing" \/ crashes' # crashes]_vars

\* upload.go: a manifest means that every object of its backup is there, and a
\* backup is Completed only with a manifest.
UploadIsWhole ==
    \A k \in Keys : /\ k \in manifest => bucket[k] = Files
                    /\ record[k] = "Completed" => k \in manifest

\* claimBackupStaging: a destination holds one directory, and one more for each
\* that could not be removed: failed and cut-off attempts do not fill the volume.
DestinationBound == Cardinality(entries) <= 1 + failures

=============================================================================
