------------------------- MODULE BackupStagingProofs -------------------------
(***************************************************************************)
(* The safety of backups on one member, for any set of requests, any       *)
(* number of files and any number of failed removals and crashes.          *)
(***************************************************************************)
EXTENDS BackupStaging, FiniteSetTheorems, TLAPS

\* Where a request holds stagingMu, where an operation has a directory of its
\* own, and where that directory is there.
Locked == {"checking", "judging", "claiming", "claimed", "unclaimed"}
Staged == {"claimed", "starting", "backing", "backed", "uploading", "uploaded", "failing", "clearing"}
Staging == Staged \cup {"keeping", "completing"}

\* One request at a time is between Request and its answer.
MutexInv(k) == mu = k <=> pc[k] \in Locked

\* An operation is open as long as something works on it, and one whose record
\* cannot be read has ended.
OpenInv(k) ==
    /\ Open(k) <=> pc[k] \notin {"none", "checking"}
    /\ k \in unreadable => record[k] \in {"Completed", "Failed"}

\* An operation stages in a directory of its own, which stays until it removes it.
PathInv(k) ==
    /\ pc[k] \in Staging \/ writer[k] # "none" => path[k] = k
    /\ pc[k] \in Staged => k \in entries

\* The file of backupdb is open from backupdb on; it is closed when backupdb
\* succeeded, and not being written when the directory is cleared.
WriterInv(k) ==
    /\ pc[k] \in {"judging", "claiming", "claimed", "unclaimed", "starting",
                  "backed", "uploading", "uploaded", "completing"} => writer[k] = "none"
    /\ record[k] = "none" => writer[k] = "none"
    /\ pc[k] = "clearing" => writer[k] # "writing"

KeyInv(k) == MutexInv(k) /\ OpenInv(k) /\ PathInv(k) /\ WriterInv(k)

\* What reclaimDestination judged stays true until the directories are removed:
\* none is of an operation that runs, or being written.
JudgedInv ==
    \A k \in Keys : pc[k] = "claiming" => \A i \in entries : ~Open(i) /\ writer[i] # "writing"

\* Nothing is in a directory but what its own operation wrote.
ContentInv == \A k \in Keys : content[k] \subseteq {k}

\* An operation is through with its upload only with a manifest.
UploadInv == \A k \in Keys : pc[k] \in {"uploaded", "completing"} => k \in manifest

\* The invariants of the control, and all of them together: the inductive invariant.
ControlInv == (\A k \in Keys : KeyInv(k)) /\ JudgedInv
IInv == TypeOK /\ ControlInv /\ ContentInv /\ UploadInv /\ OwnFilesOnly /\ UploadIsWhole /\ DestinationBound

\* The directories that a removal left count as failures of it.
LEMMA RemovedFacts ==
    ASSUME TypeOK, ContentInv, NEW ks \in SUBSET Keys, NEW left \in SUBSET ks, Removed(ks, left)
    PROVE  /\ Cardinality(left) \in Nat
           /\ failures' = failures + Cardinality(left)
           /\ failures' \in 0..MaxFailures
           /\ content' \in [Keys -> SUBSET Keys]
           /\ ContentInv'
<1>1. IsFiniteSet(left)
  BY KeysAssumption, FS_Subset
<1>2. Cardinality(left) \in Nat
  BY <1>1, FS_CardinalityType
<1>3. failures' \in 0..MaxFailures
  BY <1>2, BoundsAssumption DEF Removed, TypeOK
<1>4. \A k \in Keys : content'[k] \in {{}, content[k]}
  BY DEF Removed
<1>5. content' \in [Keys -> SUBSET Keys]
  BY DEF Removed, TypeOK
<1>6. ContentInv'
  BY <1>4 DEF ContentInv
<1> QED
  BY <1>2, <1>3, <1>5, <1>6 DEF Removed

\* RemoveAll keeps the bound of the destination, and every other directory.
LEMMA RemoveAllFacts ==
    ASSUME TypeOK, ContentInv, DestinationBound, NEW ks \in SUBSET Keys, RemoveAll(ks)
    PROVE  /\ entries' \subseteq entries \cup ks
           /\ entries \ ks \subseteq entries'
           /\ failures' \in 0..MaxFailures
           /\ content' \in [Keys -> SUBSET Keys]
           /\ ContentInv'
           /\ DestinationBound'
<1>1. PICK left \in SUBSET ks : Removed(ks, left) /\ entries' = (entries \ ks) \cup left
  BY DEF RemoveAll
<1>2. /\ Cardinality(left) \in Nat
      /\ failures' = failures + Cardinality(left)
      /\ failures' \in 0..MaxFailures
      /\ content' \in [Keys -> SUBSET Keys]
      /\ ContentInv'
  BY <1>1, RemovedFacts, Zenon
<1>3. IsFiniteSet(entries) /\ IsFiniteSet(left) /\ IsFiniteSet(entries \ ks)
  BY KeysAssumption, FS_Subset DEF TypeOK
<1>4. /\ Cardinality(entries) \in Nat
      /\ Cardinality(entries \ ks) \in Nat
      /\ Cardinality(entries \ ks) <= Cardinality(entries)
  BY <1>3, FS_Subset, FS_CardinalityType
<1>5. Cardinality(entries') \in Nat /\ Cardinality(entries') <= Cardinality(entries \ ks) + Cardinality(left)
  <2> DEFINE rest == entries \ ks
  <2>1. Cardinality(rest \cup left) = Cardinality(rest) + Cardinality(left) - Cardinality(rest \cap left)
    BY <1>3, FS_Union
  <2>2. Cardinality(rest \cap left) \in Nat
    BY <1>3, FS_Intersection, FS_CardinalityType
  <2>3. Cardinality(entries') \in Nat
    BY <1>1, <1>3, FS_Union, FS_CardinalityType, Zenon
  <2> QED
    BY <1>1, <1>2, <1>4, <2>1, <2>2, <2>3
<1>6. DestinationBound'
  <2>1. failures \in Nat /\ failures' \in Nat
    BY <1>2, BoundsAssumption DEF TypeOK
  <2> QED
    BY <1>2, <1>4, <1>5, <2>1 DEF DestinationBound
<1> QED
  BY <1>1, <1>2, <1>6

\* No backup has staged anything at first.
LEMMA InitIInv == Init => IInv
<1> SUFFICES ASSUME Init PROVE IInv
  OBVIOUS
<1>1. TypeOK
  BY BoundsAssumption, FilesAssumption DEF Init, TypeOK
<1>2. \A k \in Keys : KeyInv(k)
  BY KeysAssumption DEF Init, KeyInv, MutexInv, OpenInv, PathInv, WriterInv, Open, OpenStates, Locked, Staged, Staging
<1>3. JudgedInv /\ ContentInv /\ UploadInv /\ OwnFilesOnly /\ UploadIsWhole
  BY DEF Init, JudgedInv, ContentInv, UploadInv, OwnFilesOnly, UploadIsWhole
<1>4. DestinationBound
  BY FS_EmptySet DEF Init, DestinationBound
<1> QED
  BY <1>1, <1>2, <1>3, <1>4 DEF IInv, ControlInv

\* The invariants of what is on disk: a step that leaves it alone keeps them.
DiskInv == ContentInv /\ OwnFilesOnly /\ DestinationBound

\* A step that leaves the directories, what is in them and the uploads alone.
LEMMA SameDisk == ASSUME DiskInv, UNCHANGED <<entries, content, failures, taken>> PROVE DiskInv'
  BY DEF DiskInv, ContentInv, OwnFilesOnly, DestinationBound

-----------------------------------------------------------------------------
(* A step of one request or operation.                                     *)

\* The step is of k: it leaves the others alone, and what is in their directories.
Only(k) ==
    /\ \A j \in Keys \ {k} :
         /\ pc'[j] = pc[j] /\ record'[j] = record[j] /\ writer'[j] = writer[j] /\ path'[j] = path[j]
         /\ j \in entries' <=> j \in entries
    /\ mu' = mu \/ {mu, mu'} = {k, None}
    /\ unreadable' = unreadable

\* While an operation runs in its directory or a request holds stagingMu, no other
\* one is between its judgement and its claim.
LEMMA NobodyClaims ==
    ASSUME ControlInv, NEW k \in Keys, pc[k] \in Locked \/ (k \in entries /\ (Open(k) \/ writer[k] = "writing")),
           NEW j \in Keys \ {k}
    PROVE  pc[j] # "claiming"
<1>1. CASE pc[k] \in Locked
  <2>1. mu = k /\ mu # j
    BY <1>1 DEF ControlInv, KeyInv, MutexInv
  <2> QED
    BY <2>1 DEF ControlInv, KeyInv, MutexInv, Locked
<1>2. CASE k \in entries /\ (Open(k) \/ writer[k] = "writing")
  BY <1>2 DEF ControlInv, JudgedInv
<1> QED
  BY <1>1, <1>2

\* What such a step has to show of k.
LEMMA OthersKeepTheirs ==
    ASSUME TypeOK, TypeOK', ControlInv, NEW k \in Keys, Only(k), KeyInv(k)', pc'[k] # "claiming",
           k \in entries' /\ (Open(k)' \/ writer'[k] = "writing")
             => pc[k] \in Locked \/ (k \in entries /\ (Open(k) \/ writer[k] = "writing"))
    PROVE  ControlInv'
<1>1. ASSUME NEW j \in Keys \ {k} PROVE KeyInv(j)'
  <2>1. mu' = j <=> mu = j
    BY KeysAssumption DEF Only
  <2>2. KeyInv(j)
    BY DEF ControlInv
  <2> QED
    BY <2>1, <2>2 DEF Only, KeyInv, MutexInv, OpenInv, PathInv, WriterInv, Open
<1>2. ASSUME NEW j \in Keys, pc'[j] = "claiming", NEW i \in entries'
      PROVE  ~Open(i)' /\ writer'[i] # "writing"
  <2>1. j # k /\ pc[j] = "claiming"
    BY <1>2 DEF Only
  <2>2. CASE i = k
    BY <2>1, <2>2, NobodyClaims
  <2>3. CASE i # k
    BY <2>1, <2>3 DEF Only, TypeOK, ControlInv, JudgedInv, Open
  <2> QED
    BY <2>2, <2>3
<1> QED
  BY <1>1, <1>2 DEF ControlInv, JudgedInv

-----------------------------------------------------------------------------
(* recordBackup.                                                           *)

\* A request takes stagingMu.
LEMMA RequestStep ==
    ASSUME IInv, NEW k \in Keys, Request(k), UNCHANGED database
    PROVE  IInv'
<1> USE DEF Request, Goto, disk, store
<1>0. TypeOK /\ ControlInv /\ KeyInv(k)
  BY DEF IInv, ControlInv
<1>1. TypeOK'
  BY <1>0 DEF TypeOK
<1>2. Only(k)
  BY <1>0 DEF TypeOK, Only
<1>3. ControlInv'
  <2>1. KeyInv(k)'
    BY <1>0, KeysAssumption DEF TypeOK, KeyInv, MutexInv, OpenInv, PathInv, WriterInv, Open, OpenStates,
       Locked, Staged, Staging
  <2>2. /\ pc'[k] # "claiming"
        /\ k \in entries' /\ (Open(k)' \/ writer'[k] = "writing")
             => pc[k] \in Locked \/ (k \in entries /\ (Open(k) \/ writer[k] = "writing"))
    BY <1>0 DEF TypeOK, KeyInv, OpenInv, PathInv, Open, OpenStates, Locked
  <2> QED
    BY <1>0, <1>1, <1>2, <2>1, <2>2, OthersKeepTheirs
<1>4. UploadInv' /\ UploadIsWhole'
  BY DEF IInv, TypeOK, UploadInv, UploadIsWhole
<1>5. DiskInv'
  BY SameDisk DEF IInv, DiskInv
<1> QED
  BY <1>1, <1>3, <1>4, <1>5 DEF IInv, DiskInv

\* recordBackup: refused by a live owner of the destination, or recorded.
LEMMA CheckOwnersStep ==
    ASSUME IInv, NEW k \in Keys, CheckOwners(k), UNCHANGED database
    PROVE  IInv'
<1> USE DEF CheckOwners, Answered, Goto, disk, store
<1>0. TypeOK /\ ControlInv /\ KeyInv(k)
  BY DEF IInv, ControlInv
<1>1. TypeOK'
  BY <1>0 DEF TypeOK, OpenStates
<1>2. Only(k)
  BY <1>0 DEF TypeOK, Only, KeyInv, MutexInv, Locked
<1>3. ControlInv'
  <2>1. KeyInv(k)'
    BY <1>0, KeysAssumption DEF TypeOK, KeyInv, MutexInv, OpenInv, PathInv, WriterInv, Open, OpenStates,
       Locked, Staged, Staging, NotCreated
  <2>2. /\ pc'[k] # "claiming"
        /\ k \in entries' /\ (Open(k)' \/ writer'[k] = "writing")
             => pc[k] \in Locked \/ (k \in entries /\ (Open(k) \/ writer[k] = "writing"))
    BY <1>0 DEF TypeOK, KeyInv, OpenInv, PathInv, Open, OpenStates, Locked
  <2> QED
    BY <1>0, <1>1, <1>2, <2>1, <2>2, OthersKeepTheirs
<1>4. UploadInv' /\ UploadIsWhole'
  BY DEF IInv, TypeOK, UploadInv, UploadIsWhole
<1>5. DiskInv'
  BY SameDisk DEF IInv, DiskInv
<1> QED
  BY <1>1, <1>3, <1>4, <1>5 DEF IInv, DiskInv

\* reclaimDestination looks at every directory before any is removed.
LEMMA JudgeStep ==
    ASSUME IInv, NEW k \in Keys, Judge(k), UNCHANGED database
    PROVE  IInv'
<1> USE DEF Judge, Goto, disk, store
<1>0. TypeOK /\ ControlInv /\ KeyInv(k)
  BY DEF IInv, ControlInv
<1>1. TypeOK'
  BY <1>0 DEF TypeOK
<1>2. Only(k)
  BY <1>0 DEF TypeOK, Only
<1>3. ControlInv'
  <2>1. KeyInv(k)'
    BY <1>0, KeysAssumption DEF TypeOK, KeyInv, MutexInv, OpenInv, PathInv, WriterInv, Open, OpenStates,
       Locked, Staged, Staging
  <2>2. CASE pc'[k] # "claiming"
    BY <1>0, <1>1, <1>2, <2>1, <2>2, OthersKeepTheirs DEF Locked
  <2>3. CASE pc'[k] = "claiming"
    <3>1. liveStagingOwners = {}
      BY <1>0, <2>3 DEF TypeOK
    <3>2. JudgedInv'
      BY <3>1 DEF JudgedInv, liveStagingOwners, stagingOwnerLive, Held, Open
    <3>3. ASSUME NEW j \in Keys \ {k} PROVE KeyInv(j)'
      <4>1. KeyInv(j) /\ (mu' = j <=> mu = j)
        BY <1>0 DEF ControlInv
      <4> QED
        BY <1>2, <4>1 DEF Only, KeyInv, MutexInv, OpenInv, PathInv, WriterInv, Open
    <3> QED
      BY <2>1, <3>2, <3>3 DEF ControlInv
  <2> QED
    BY <2>2, <2>3
<1>4. UploadInv' /\ UploadIsWhole'
  BY DEF IInv, TypeOK, UploadInv, UploadIsWhole
<1>5. DiskInv'
  BY SameDisk DEF IInv, DiskInv
<1> QED
  BY <1>1, <1>3, <1>4, <1>5 DEF IInv, DiskInv

\* Claim removes only what was judged to be abandoned.
LEMMA ClaimStep ==
    ASSUME IInv, NEW k \in Keys, Claim(k), UNCHANGED database
    PROVE  IInv'
<1>0. TypeOK /\ ControlInv /\ KeyInv(k) /\ ContentInv
  BY DEF IInv, ControlInv
<1>1. PICK left \in SUBSET entries :
        /\ Removed(entries, left)
        /\ \/ entries' = left \cup {k} /\ path' = [path EXCEPT ![k] = k] /\ pc' = [pc EXCEPT ![k] = "claimed"]
           \/ entries' = left /\ path' = path /\ pc' = [pc EXCEPT ![k] = "unclaimed"]
  BY DEF Claim, Goto
<1>2. /\ Cardinality(left) \in Nat
      /\ failures' = failures + Cardinality(left)
      /\ failures' \in 0..MaxFailures
      /\ content' \in [Keys -> SUBSET Keys]
      /\ ContentInv'
  BY <1>0, <1>1, RemovedFacts, Zenon DEF TypeOK
<1>3. pc[k] = "claiming" /\ UNCHANGED <<record, unreadable, mu, writer, bucket, taken, manifest, crashes>>
  BY DEF Claim, store
<1>4. TypeOK'
  BY <1>0, <1>1, <1>2, <1>3 DEF TypeOK
<1>5. ControlInv'
  <2>1. KeyInv(k)'
    BY <1>0, <1>1, <1>3 DEF TypeOK, KeyInv, MutexInv, OpenInv, PathInv, WriterInv, Open, OpenStates,
       Locked, Staged, Staging
  <2>2. ASSUME NEW j \in Keys \ {k} PROVE KeyInv(j)'
    <3>1. KeyInv(j) /\ pc'[j] = pc[j] /\ path'[j] = path[j]
      BY <1>0, <1>1 DEF TypeOK, ControlInv
    <3>2. pc[j] \notin Staged
      BY <1>0, <1>3, <3>1 DEF ControlInv, JudgedInv, KeyInv, MutexInv, OpenInv, PathInv, Staged, Locked
    <3> QED
      BY <1>3, <3>1, <3>2 DEF KeyInv, MutexInv, OpenInv, PathInv, WriterInv, Open
  <2>3. \A j \in Keys : pc'[j] # "claiming"
    BY <1>0, <1>1, <1>3, NobodyClaims DEF TypeOK, Locked
  <2> QED
    BY <2>1, <2>2, <2>3 DEF ControlInv, JudgedInv
<1>6. UploadInv' /\ UploadIsWhole' /\ OwnFilesOnly'
  BY <1>1, <1>3 DEF IInv, TypeOK, UploadInv, UploadIsWhole, OwnFilesOnly
<1>7. DestinationBound'
  <2>1. IsFiniteSet(left) /\ failures \in Nat
    BY <1>0, KeysAssumption, BoundsAssumption, FS_Subset DEF TypeOK
  <2>2. Cardinality(left \cup {k}) = Cardinality(left) \/ Cardinality(left \cup {k}) = Cardinality(left) + 1
    BY <2>1, FS_AddElement
  <2>3. Cardinality(entries') \in Nat /\ Cardinality(entries') <= 1 + Cardinality(left)
    <3>1. CASE entries' = left \cup {k}
      BY <1>2, <2>2, <3>1
    <3>2. CASE entries' = left
      BY <1>2, <3>2
    <3> QED
      BY <1>1, <3>1, <3>2
  <2> QED
    BY <1>2, <2>1, <2>3 DEF DestinationBound
<1> QED
  BY <1>2, <1>4, <1>5, <1>6, <1>7 DEF IInv

\* The operation's own directory goes again when it could not be recorded.
LEMMA RecordedStep ==
    ASSUME IInv, NEW k \in Keys, Recorded(k), UNCHANGED database
    PROVE  IInv'
<1> USE DEF Goto, store
<1>0. TypeOK /\ ControlInv /\ KeyInv(k) /\ ContentInv /\ DestinationBound /\ pc[k] = "claimed"
  BY DEF IInv, ControlInv, Recorded
<1>1. path[k] = k /\ k \in entries
  BY <1>0 DEF KeyInv, PathInv, Staged, Staging
<1>2. /\ entries' \subseteq entries
      /\ entries \ {k} \subseteq entries'
      /\ pc'[k] = "starting" => entries' = entries
      /\ failures' \in 0..MaxFailures
      /\ content' \in [Keys -> SUBSET Keys]
      /\ ContentInv'
      /\ DestinationBound'
  <2>1. CASE RemoveAll({path[k]}) /\ Goto(k, "unclaimed")
    BY <1>0, <1>1, <2>1, RemoveAllFacts DEF TypeOK
  <2>2. CASE UNCHANGED <<entries, content, failures>>
    BY <1>0, <2>2 DEF TypeOK, ContentInv, DestinationBound
  <2> QED
    BY <2>1, <2>2 DEF Recorded
<1>3. /\ \/ pc' = [pc EXCEPT ![k] = "starting"] /\ mu' = None
         \/ pc' = [pc EXCEPT ![k] = "unclaimed"] /\ mu' = mu
      /\ UNCHANGED <<record, unreadable, path, writer, bucket, taken, manifest, crashes>>
  BY DEF Recorded
<1>4. TypeOK'
  BY <1>0, <1>2, <1>3 DEF TypeOK
<1>5. Only(k)
  BY <1>0, <1>2, <1>3 DEF TypeOK, Only, KeyInv, MutexInv, Locked
<1>6. ControlInv'
  <2>1. KeyInv(k)' /\ pc'[k] # "claiming"
    <3>1. /\ \/ pc'[k] = "starting" /\ mu' # k /\ k \in entries'
             \/ pc'[k] = "unclaimed" /\ mu' = mu
          /\ record' = record /\ unreadable' = unreadable /\ path' = path /\ writer' = writer
      <4>1. DOMAIN pc = Keys
        BY <1>0 DEF TypeOK
      <4> QED
        BY <1>1, <1>2, <1>3, <4>1, KeysAssumption
    <3> QED
      BY <1>0, <1>1, <3>1 DEF KeyInv, MutexInv, OpenInv, PathInv, WriterInv, Open, Locked, Staged, Staging
  <2> QED
    BY <1>0, <1>4, <1>5, <2>1, OthersKeepTheirs DEF Locked
<1>7. UploadInv' /\ UploadIsWhole' /\ OwnFilesOnly'
  BY <1>3 DEF IInv, TypeOK, UploadInv, UploadIsWhole, OwnFilesOnly
<1> QED
  BY <1>2, <1>4, <1>6, <1>7 DEF IInv

\* The claim failed, and so does the operation.
LEMMA UnclaimedStep ==
    ASSUME IInv, NEW k \in Keys, Unclaimed(k), UNCHANGED database
    PROVE  IInv'
<1> USE DEF Unclaimed, Answered, Goto, disk, store
<1>0. TypeOK /\ ControlInv /\ KeyInv(k)
  BY DEF IInv, ControlInv
<1>1. TypeOK'
  BY <1>0 DEF TypeOK, OpenStates
<1>2. Only(k)
  BY <1>0 DEF TypeOK, Only, KeyInv, MutexInv, Locked
<1>3. ControlInv'
  <2>1. KeyInv(k)'
    BY <1>0, KeysAssumption DEF TypeOK, KeyInv, MutexInv, OpenInv, PathInv, WriterInv, Open, OpenStates,
       Locked, Staged, Staging
  <2>2. /\ pc'[k] # "claiming"
        /\ k \in entries' /\ (Open(k)' \/ writer'[k] = "writing")
             => pc[k] \in Locked \/ (k \in entries /\ (Open(k) \/ writer[k] = "writing"))
    BY <1>0 DEF TypeOK, KeyInv, OpenInv, PathInv, Open, OpenStates, Locked
  <2> QED
    BY <1>0, <1>1, <1>2, <2>1, <2>2, OthersKeepTheirs
<1>4. UploadInv' /\ UploadIsWhole'
  BY DEF IInv, TypeOK, UploadInv, UploadIsWhole
<1>5. DiskInv'
  BY SameDisk DEF IInv, DiskInv
<1> QED
  BY <1>1, <1>3, <1>4, <1>5 DEF IInv, DiskInv

-----------------------------------------------------------------------------
(* runBackup.                                                              *)

\* The directory that createBackupStaging makes is there already.
LEMMA StartBackupStep ==
    ASSUME IInv, NEW k \in Keys, StartBackup(k), UNCHANGED database
    PROVE  IInv'
<1> USE DEF StartBackup, Fails, Goto, store
<1>0. TypeOK /\ ControlInv /\ KeyInv(k)
  BY DEF IInv, ControlInv
<1>1. path[k] = k /\ k \in entries
  BY <1>0 DEF KeyInv, PathInv, Staged, Staging
<1>2. entries' = entries
  BY <1>1
<1>3. TypeOK'
  <2>1. record' \in [Keys -> OpenStates \cup {"none", "Completed", "Failed"}]
    BY <1>0 DEF TypeOK, OpenStates
  <2>2. CASE pc' = [pc EXCEPT ![k] = "backing"] /\ writer' = [writer EXCEPT ![k] = "opening"]
    BY <1>0, <1>2, <2>1, <2>2 DEF TypeOK
  <2>3. CASE pc' = [pc EXCEPT ![k] = "failing"] /\ writer' = writer
    BY <1>0, <1>2, <2>1, <2>3 DEF TypeOK
  <2> QED
    BY <2>2, <2>3
<1>4. Only(k)
  <2>1. \A j \in Keys \ {k} : pc'[j] = pc[j] /\ record'[j] = record[j] /\ writer'[j] = writer[j]
    BY <1>0 DEF TypeOK
  <2> QED
    BY <1>2, <2>1 DEF Only
<1>5. ControlInv'
  <2>1. KeyInv(k)' /\ pc'[k] # "claiming"
    <3>1. /\ pc[k] = "starting" /\ mu' = mu /\ path' = path /\ unreadable' = unreadable
          /\ pc'[k] \in {"backing", "failing"}
          /\ record'[k] \in {record[k], "RunningBackup"}
      BY <1>0 DEF TypeOK
    <3> QED
      BY <1>0, <1>1, <1>2, <3>1 DEF KeyInv, MutexInv, OpenInv, PathInv, WriterInv, Open, OpenStates,
         Locked, Staged, Staging
  <2>2. Open(k)
    BY <1>0 DEF KeyInv, OpenInv
  <2> QED
    BY <1>0, <1>1, <1>3, <1>4, <2>1, <2>2, OthersKeepTheirs
<1>6. UploadInv' /\ UploadIsWhole'
  <2>1. \A j \in Keys : pc'[j] \in {pc[j], "backing", "failing"} /\ record'[j] \in {record[j], "RunningBackup"}
    BY <1>0 DEF TypeOK
  <2> QED
    BY <2>1 DEF IInv, UploadInv, UploadIsWhole
<1>7. DiskInv'
  BY <1>2, SameDisk DEF IInv, DiskInv
<1> QED
  BY <1>3, <1>5, <1>6, <1>7 DEF IInv, DiskInv

\* cub_server writes into the directory of its own operation.
LEMMA WriterOpensStep ==
    ASSUME IInv, NEW k \in Keys, WriterOpens(k), UNCHANGED database
    PROVE  IInv'
<1> USE DEF WriterOpens, store
<1>0. TypeOK /\ ControlInv /\ KeyInv(k)
  BY DEF IInv, ControlInv
<1>1. path[k] = k
  BY <1>0 DEF KeyInv, PathInv
<1>2. TypeOK'
  <2>1. content' \in [Keys -> SUBSET Keys]
    BY <1>0, <1>1 DEF TypeOK
  <2>2. writer' \in [Keys -> {"none", "opening", "writing", "late"}]
    BY <1>0 DEF TypeOK
  <2> QED
    BY <1>0, <2>1, <2>2 DEF TypeOK
<1>3. Only(k)
  BY <1>0 DEF TypeOK, Only
<1>4. ControlInv'
  <2>1. KeyInv(k)' /\ pc'[k] # "claiming"
    BY <1>0, <1>1, KeysAssumption DEF TypeOK, KeyInv, MutexInv, OpenInv, PathInv, WriterInv,
       Open, OpenStates, Locked, Staged, Staging
  <2>2. writer'[k] = "writing" => k \in entries /\ Open(k)
    BY <1>0, <1>1 DEF TypeOK, KeyInv, OpenInv
  <2> QED
    BY <1>0, <1>2, <1>3, <2>1, <2>2, OthersKeepTheirs DEF Open
<1>5. ContentInv'
  <2>1. \A j \in Keys : content'[j] \subseteq content[j] \cup {j}
    BY <1>0, <1>1 DEF TypeOK
  <2> QED
    BY <2>1 DEF IInv, ContentInv
<1>6. UploadInv' /\ UploadIsWhole' /\ OwnFilesOnly' /\ DestinationBound'
  BY DEF IInv, UploadInv, UploadIsWhole, OwnFilesOnly, DestinationBound
<1> QED
  BY <1>2, <1>4, <1>5, <1>6 DEF IInv

\* cub_server closes the file of a cancelled backup.
LEMMA WriterClosesStep ==
    ASSUME IInv, NEW k \in Keys, WriterCloses(k), UNCHANGED database
    PROVE  IInv'
<1> USE DEF WriterCloses, Held, Goto, disk, store
<1>0. TypeOK /\ ControlInv /\ KeyInv(k)
  BY DEF IInv, ControlInv
<1>1. TypeOK'
  BY <1>0 DEF TypeOK
<1>2. Only(k)
  BY <1>0 DEF TypeOK, Only
<1>3. ControlInv'
  <2>1. KeyInv(k)'
    BY <1>0, KeysAssumption DEF TypeOK, KeyInv, MutexInv, OpenInv, PathInv, WriterInv, Open, OpenStates,
       Locked, Staged, Staging
  <2>2. /\ pc'[k] # "claiming"
        /\ k \in entries' /\ (Open(k)' \/ writer'[k] = "writing")
             => pc[k] \in Locked \/ (k \in entries /\ (Open(k) \/ writer[k] = "writing"))
    BY <1>0 DEF TypeOK, KeyInv, OpenInv, PathInv, WriterInv, Open, OpenStates, Locked
  <2> QED
    BY <1>0, <1>1, <1>2, <2>1, <2>2, OthersKeepTheirs
<1>4. UploadInv' /\ UploadIsWhole'
  BY DEF IInv, TypeOK, UploadInv, UploadIsWhole
<1>5. DiskInv'
  BY SameDisk, Zenon DEF IInv, DiskInv
<1> QED
  BY <1>1, <1>3, <1>4, <1>5 DEF IInv, DiskInv

\* backupdb returns, cub_server perhaps still at work when it failed.
LEMMA BackupReturnsStep ==
    ASSUME IInv, NEW k \in Keys, BackupReturns(k), UNCHANGED database
    PROVE  IInv'
<1> USE DEF BackupReturns, Fails, Goto, disk, store
<1>0. TypeOK /\ ControlInv /\ KeyInv(k)
  BY DEF IInv, ControlInv
<1>1. TypeOK'
  <2>1. CASE pc' = [pc EXCEPT ![k] = "backed"] /\ writer' = [writer EXCEPT ![k] = "none"]
    BY <1>0, <2>1 DEF TypeOK
  <2>2. CASE pc' = [pc EXCEPT ![k] = "failing"] /\ writer' = writer
    BY <1>0, <2>2 DEF TypeOK
  <2> QED
    BY <2>1, <2>2
<1>2. Only(k)
  BY <1>0 DEF TypeOK, Only
<1>3. ControlInv'
  <2>1. KeyInv(k)'
    <3>1. /\ pc[k] = "backing" /\ mu' = mu /\ path' = path /\ entries' = entries
          /\ record' = record /\ unreadable' = unreadable
          /\ \/ pc'[k] = "backed" /\ writer[k] = "writing" /\ writer'[k] = "none"
             \/ pc'[k] = "failing" /\ writer' = writer
      BY <1>0 DEF TypeOK
    <3> QED
      BY <1>0, <3>1 DEF KeyInv, MutexInv, OpenInv, PathInv, WriterInv, Open, OpenStates,
         Locked, Staged, Staging
  <2>2. /\ pc'[k] # "claiming"
        /\ k \in entries' /\ (Open(k)' \/ writer'[k] = "writing")
             => pc[k] \in Locked \/ (k \in entries /\ (Open(k) \/ writer[k] = "writing"))
    BY <1>0 DEF TypeOK, KeyInv, OpenInv, PathInv, Open, OpenStates, Locked
  <2> QED
    BY <1>0, <1>1, <1>2, <2>1, <2>2, OthersKeepTheirs
<1>4. UploadInv' /\ UploadIsWhole'
  BY DEF IInv, TypeOK, UploadInv, UploadIsWhole
<1>5. DiskInv'
  BY SameDisk DEF IInv, DiskInv
<1> QED
  BY <1>1, <1>3, <1>4, <1>5 DEF IInv, DiskInv

\* Uploading is recorded.
LEMMA StartUploadStep ==
    ASSUME IInv, NEW k \in Keys, StartUpload(k), UNCHANGED database
    PROVE  IInv'
<1> USE DEF StartUpload, Fails, Goto, disk, store
<1>0. TypeOK /\ ControlInv /\ KeyInv(k)
  BY DEF IInv, ControlInv
<1>1. TypeOK'
  <2>1. record' \in [Keys -> OpenStates \cup {"none", "Completed", "Failed"}]
    BY <1>0 DEF TypeOK, OpenStates
  <2>2. CASE pc' = [pc EXCEPT ![k] = "uploading"]
    BY <1>0, <2>1, <2>2 DEF TypeOK
  <2>3. CASE pc' = [pc EXCEPT ![k] = "failing"]
    BY <1>0, <2>1, <2>3 DEF TypeOK
  <2> QED
    BY <2>2, <2>3
<1>2. Only(k)
  BY <1>0 DEF TypeOK, Only
<1>3. ControlInv'
  <2>1. KeyInv(k)'
    <3>1. /\ pc[k] = "backed" /\ mu' = mu /\ path' = path /\ entries' = entries
          /\ writer' = writer /\ unreadable' = unreadable
          /\ pc'[k] \in {"uploading", "failing"}
          /\ record'[k] \in {record[k], "Uploading"}
      BY <1>0 DEF TypeOK
    <3> QED
      BY <1>0, <3>1 DEF KeyInv, MutexInv, OpenInv, PathInv, WriterInv, Open, OpenStates,
         Locked, Staged, Staging
  <2>2. /\ pc'[k] # "claiming"
        /\ k \in entries' /\ (Open(k)' \/ writer'[k] = "writing")
             => pc[k] \in Locked \/ (k \in entries /\ (Open(k) \/ writer[k] = "writing"))
    BY <1>0 DEF TypeOK, KeyInv, OpenInv, PathInv, Open, OpenStates, Locked
  <2> QED
    BY <1>0, <1>1, <1>2, <2>1, <2>2, OthersKeepTheirs
<1>4. UploadInv' /\ UploadIsWhole'
  <2>1. \A j \in Keys : pc'[j] \in {pc[j], "uploading", "failing"} /\ record'[j] \in {record[j], "Uploading"}
    BY <1>0 DEF TypeOK
  <2> QED
    BY <2>1 DEF IInv, UploadInv, UploadIsWhole
<1>5. DiskInv'
  BY SameDisk DEF IInv, DiskInv
<1> QED
  BY <1>1, <1>3, <1>4, <1>5 DEF IInv, DiskInv

\* What is uploaded is from the operation's own directory.
LEMMA UploadFileStep ==
    ASSUME IInv, NEW k \in Keys, UploadFile(k), UNCHANGED database
    PROVE  IInv'
<1>0. TypeOK /\ ControlInv /\ KeyInv(k) /\ bucket[k] < Files
  BY DEF IInv, ControlInv, UploadFile
<1>a. bucket[k] \in 0..Files /\ bucket[k] + 1 \in 0..Files
  <2>1. bucket[k] \in 0..Files
    BY <1>0 DEF TypeOK
  <2> QED
    BY <1>0, <2>1, FilesAssumption
<1> USE DEF UploadFile, Fails, Goto, disk, store
<1>1. TypeOK'
  <2>1. path[k] = k
    BY <1>0, Zenon DEF KeyInv, PathInv, Staged, Staging
  <2>2. content[path[k]] \subseteq Keys
    BY <1>0, <2>1 DEF TypeOK
  <2>3. taken' \in [Keys -> SUBSET Keys]
    BY <1>0, <2>2 DEF TypeOK
  <2>4. bucket' \in [Keys -> 0..Files]
    BY <1>0, <1>a DEF TypeOK
  <2> QED
    BY <1>0, <2>3, <2>4 DEF TypeOK
<1>2. Only(k)
  BY <1>0 DEF TypeOK, Only
<1>3. ControlInv'
  <2>1. KeyInv(k)'
    BY <1>0, KeysAssumption DEF TypeOK, KeyInv, MutexInv, OpenInv, PathInv, WriterInv, Open, OpenStates,
       Locked, Staged, Staging
  <2>2. /\ pc'[k] # "claiming"
        /\ k \in entries' /\ (Open(k)' \/ writer'[k] = "writing")
             => pc[k] \in Locked \/ (k \in entries /\ (Open(k) \/ writer[k] = "writing"))
    BY <1>0 DEF TypeOK, KeyInv, OpenInv, PathInv, Open, OpenStates, Locked
  <2> QED
    BY <1>0, <1>1, <1>2, <2>1, <2>2, OthersKeepTheirs
<1>4. UploadInv' /\ UploadIsWhole'
  <2>1. k \notin manifest
    <3>1. bucket[k] # Files
      BY <1>0, <1>a, FilesAssumption
    <3> QED
      BY <3>1 DEF IInv, UploadIsWhole
  <2>2. \A j \in Keys \ {k} : bucket'[j] = bucket[j] /\ pc'[j] = pc[j]
    BY <1>0 DEF TypeOK
  <2>3. pc'[k] \in {"uploading", "failing"} /\ record' = record /\ manifest' = manifest
    BY <1>0 DEF TypeOK
  <2> QED
    BY <2>1, <2>2, <2>3 DEF IInv, UploadInv, UploadIsWhole
<1>5. DiskInv'
  <2>1. path[k] = k /\ content[k] \subseteq {k}
    BY <1>0 DEF KeyInv, PathInv, Staged, Staging, IInv, ContentInv
  <2>2. \A j \in Keys : taken'[j] \subseteq taken[j] \cup {j}
    BY <1>0, <2>1 DEF TypeOK
  <2> QED
    BY <2>2 DEF IInv, DiskInv, ContentInv, OwnFilesOnly, DestinationBound
<1> QED
  BY <1>1, <1>3, <1>4, <1>5 DEF IInv, DiskInv

\* The manifest is uploaded last.
LEMMA UploadManifestStep ==
    ASSUME IInv, NEW k \in Keys, UploadManifest(k), UNCHANGED database
    PROVE  IInv'
<1> USE DEF UploadManifest, Fails, Goto, disk, store
<1>0. TypeOK /\ ControlInv /\ KeyInv(k)
  BY DEF IInv, ControlInv
<1>1. TypeOK'
  <2>1. manifest' \subseteq Keys
    BY <1>0 DEF TypeOK
  <2>2. CASE pc' = [pc EXCEPT ![k] = "uploaded"]
    BY <1>0, <2>1, <2>2 DEF TypeOK
  <2>3. CASE pc' = [pc EXCEPT ![k] = "failing"]
    BY <1>0, <2>1, <2>3 DEF TypeOK
  <2> QED
    BY <2>2, <2>3
<1>2. Only(k)
  BY <1>0 DEF TypeOK, Only
<1>3. ControlInv'
  <2>1. KeyInv(k)'
    BY <1>0, KeysAssumption DEF TypeOK, KeyInv, MutexInv, OpenInv, PathInv, WriterInv, Open, OpenStates,
       Locked, Staged, Staging
  <2>2. /\ pc'[k] # "claiming"
        /\ k \in entries' /\ (Open(k)' \/ writer'[k] = "writing")
             => pc[k] \in Locked \/ (k \in entries /\ (Open(k) \/ writer[k] = "writing"))
    BY <1>0 DEF TypeOK, KeyInv, OpenInv, PathInv, Open, OpenStates, Locked
  <2> QED
    BY <1>0, <1>1, <1>2, <2>1, <2>2, OthersKeepTheirs
<1>4. UploadInv' /\ UploadIsWhole'
  BY DEF IInv, TypeOK, UploadInv, UploadIsWhole
<1>5. DiskInv'
  BY SameDisk DEF IInv, DiskInv
<1> QED
  BY <1>1, <1>3, <1>4, <1>5 DEF IInv, DiskInv

\* awaitStagingWriters: the staging of a failed backup is kept while a file in it is held.
LEMMA AwaitStagingWritersStep ==
    ASSUME IInv, NEW k \in Keys, AwaitStagingWriters(k), UNCHANGED database
    PROVE  IInv'
<1> USE DEF AwaitStagingWriters, Goto, disk, store
<1>0. TypeOK /\ ControlInv /\ KeyInv(k)
  BY DEF IInv, ControlInv
<1>1. TypeOK'
  BY <1>0 DEF TypeOK
<1>2. Only(k)
  BY <1>0 DEF TypeOK, Only
<1>3. ControlInv'
  <2>1. KeyInv(k)'
    <3>1. /\ pc[k] = "failing" /\ mu' = mu /\ path' = path /\ entries' = entries
          /\ record' = record /\ writer' = writer /\ unreadable' = unreadable
          /\ \/ pc'[k] = "clearing" /\ ~Held(k)
             \/ pc'[k] = "keeping"
      BY <1>0 DEF TypeOK
    <3> QED
      BY <1>0, <3>1 DEF KeyInv, MutexInv, OpenInv, PathInv, WriterInv, Open, OpenStates,
         Locked, Staged, Staging, Held
  <2>2. /\ pc'[k] # "claiming"
        /\ k \in entries' /\ (Open(k)' \/ writer'[k] = "writing")
             => pc[k] \in Locked \/ (k \in entries /\ (Open(k) \/ writer[k] = "writing"))
    BY <1>0 DEF TypeOK, KeyInv, OpenInv, PathInv, Open, OpenStates, Locked
  <2> QED
    BY <1>0, <1>1, <1>2, <2>1, <2>2, OthersKeepTheirs
<1>4. UploadInv' /\ UploadIsWhole'
  BY DEF IInv, TypeOK, UploadInv, UploadIsWhole
<1>5. DiskInv'
  BY SameDisk DEF IInv, DiskInv
<1> QED
  BY <1>1, <1>3, <1>4, <1>5 DEF IInv, DiskInv

\* removeBackupStaging: an operation removes the directory it staged in.
LEMMA RemoveBackupStagingStep ==
    ASSUME IInv, NEW k \in Keys, RemoveBackupStaging(k), UNCHANGED database
    PROVE  IInv'
<1> USE DEF RemoveBackupStaging, Goto, store
<1>0. TypeOK /\ ControlInv /\ KeyInv(k) /\ ContentInv /\ DestinationBound
  BY DEF IInv, ControlInv
<1>1. path[k] = k /\ k \in entries
  BY <1>0 DEF KeyInv, PathInv, Staged, Staging
<1>2. /\ entries' \subseteq entries
      /\ entries \ {k} \subseteq entries'
      /\ failures' \in 0..MaxFailures
      /\ content' \in [Keys -> SUBSET Keys]
      /\ ContentInv'
      /\ DestinationBound'
  BY <1>0, <1>1, RemoveAllFacts
<1>3. TypeOK'
  BY <1>0, <1>2 DEF TypeOK
<1>4. Only(k)
  BY <1>0, <1>2 DEF TypeOK, Only
<1>5. ControlInv'
  <2>1. KeyInv(k)' /\ pc'[k] # "claiming"
    BY <1>0, <1>1, KeysAssumption DEF TypeOK, KeyInv, MutexInv, OpenInv, PathInv, WriterInv,
       Open, OpenStates, Locked, Staged, Staging
  <2>2. Open(k)
    BY <1>0 DEF KeyInv, OpenInv
  <2> QED
    BY <1>0, <1>1, <1>3, <1>4, <2>1, <2>2, OthersKeepTheirs
<1>6. UploadInv' /\ UploadIsWhole' /\ OwnFilesOnly'
  BY <1>0, Zenon DEF IInv, TypeOK, UploadInv, UploadIsWhole, OwnFilesOnly
<1> QED
  BY <1>2, <1>3, <1>5, <1>6 DEF IInv

\* The end of the operation is recorded.
LEMMA SettleStep ==
    ASSUME IInv, NEW k \in Keys, Settle(k), UNCHANGED database
    PROVE  IInv'
<1> USE DEF Settle, Goto, disk, store
<1>0. TypeOK /\ ControlInv /\ KeyInv(k)
  BY DEF IInv, ControlInv
<1>1. TypeOK'
  BY <1>0 DEF TypeOK, OpenStates
<1>2. Only(k)
  BY <1>0 DEF TypeOK, Only
<1>3. ControlInv'
  <2>1. KeyInv(k)'
    BY <1>0, KeysAssumption DEF TypeOK, KeyInv, MutexInv, OpenInv, PathInv, WriterInv, Open, OpenStates,
       Locked, Staged, Staging
  <2>2. /\ pc'[k] # "claiming"
        /\ k \in entries' /\ (Open(k)' \/ writer'[k] = "writing")
             => pc[k] \in Locked \/ (k \in entries /\ (Open(k) \/ writer[k] = "writing"))
    BY <1>0 DEF TypeOK, KeyInv, OpenInv, PathInv, Open, OpenStates, Locked
  <2> QED
    BY <1>0, <1>1, <1>2, <2>1, <2>2, OthersKeepTheirs
<1>4. UploadInv' /\ UploadIsWhole'
  BY DEF IInv, TypeOK, UploadInv, UploadIsWhole
<1>5. DiskInv'
  BY SameDisk DEF IInv, DiskInv
<1> QED
  BY <1>1, <1>3, <1>4, <1>5 DEF IInv, DiskInv
-----------------------------------------------------------------------------
(* The container starts again, and a record becomes unreadable.            *)

\* The container crashes and starts again: reclaimBackupStaging removes what is abandoned.
LEMMA CrashStep ==
    ASSUME IInv, Crash, UNCHANGED database
    PROVE  IInv'
<1>0. TypeOK /\ ControlInv /\ ContentInv /\ DestinationBound
  BY DEF IInv
<1>1. /\ entries' \subseteq entries
      /\ failures' \in 0..MaxFailures
      /\ content' \in [Keys -> SUBSET Keys]
      /\ ContentInv'
      /\ DestinationBound'
  <2>1. CASE RemoveAll(entries)
    BY <1>0, <2>1, RemoveAllFacts DEF TypeOK
  <2>2. CASE UNCHANGED <<entries, content, failures>>
    BY <1>0, <2>2 DEF TypeOK, ContentInv, DestinationBound
  <2> QED
    BY <2>1, <2>2 DEF Crash
<1>2. /\ record' = [k \in Keys |-> IF Open(k) /\ k \notin unreadable THEN "Failed" ELSE record[k]]
      /\ pc' = [k \in Keys |-> "none"]
      /\ writer' = [k \in Keys |-> "none"]
      /\ mu' = None
      /\ crashes < MaxCrashes /\ crashes' = crashes + 1
      /\ UNCHANGED <<unreadable, path, bucket, taken, manifest>>
  BY DEF Crash, store
<1>3. TypeOK'
  <2>1. crashes' \in 0..MaxCrashes
    BY <1>0, <1>2, BoundsAssumption DEF TypeOK
  <2>2. record' \in [Keys -> OpenStates \cup {"none", "Completed", "Failed"}]
    BY <1>0, <1>2 DEF TypeOK
  <2> QED
    BY <1>0, <1>1, <1>2, <2>1, <2>2 DEF TypeOK
<1>4. ASSUME NEW k \in Keys PROVE KeyInv(k)'
  <2>1. OpenInv(k)
    BY <1>0 DEF ControlInv, KeyInv
  <2>2. record'[k] = (IF Open(k) /\ k \notin unreadable THEN "Failed" ELSE record[k])
    BY <1>2
  <2>3. pc'[k] = "none" /\ writer'[k] = "none" /\ mu' # k /\ unreadable' = unreadable
    BY <1>2, KeysAssumption
  <2>4. OpenInv(k)'
    BY <2>1, <2>2, <2>3 DEF OpenInv, Open, OpenStates
  <2> QED
    BY <2>3, <2>4 DEF KeyInv, MutexInv, PathInv, WriterInv, Locked, Staged, Staging
<1>5. ControlInv'
  BY <1>2, <1>4 DEF ControlInv, JudgedInv
<1>6. UploadInv' /\ UploadIsWhole' /\ OwnFilesOnly'
  BY <1>2 DEF IInv, UploadInv, UploadIsWhole, OwnFilesOnly
<1> QED
  BY <1>1, <1>3, <1>5, <1>6 DEF IInv

\* The record of an operation becomes unreadable.
LEMMA SpoilStep ==
    ASSUME IInv, NEW k \in Keys, Spoil(k), UNCHANGED database
    PROVE  IInv'
<1> USE DEF Spoil, disk, store
<1>0. TypeOK /\ ControlInv /\ KeyInv(k)
  BY DEF IInv, ControlInv
<1>1. TypeOK'
  BY <1>0 DEF TypeOK
<1>2. record[k] \in {"Completed", "Failed"}
  BY <1>0 DEF TypeOK, KeyInv, OpenInv, Open
<1>3. ASSUME NEW j \in Keys PROVE KeyInv(j)'
  BY <1>0, <1>2 DEF ControlInv, KeyInv, MutexInv, OpenInv, PathInv, WriterInv, Open
<1>4. JudgedInv'
  BY <1>0 DEF ControlInv, JudgedInv, Open
<1>5. UploadInv' /\ UploadIsWhole'
  BY DEF IInv, UploadInv, UploadIsWhole
<1>6. DiskInv'
  BY SameDisk DEF IInv, DiskInv
<1> QED
  BY <1>1, <1>3, <1>4, <1>5, <1>6 DEF IInv, ControlInv, DiskInv

-----------------------------------------------------------------------------
(* The theorems.                                                           *)

\* Every step keeps the invariant.
LEMMA NextIInv == IInv /\ [Next]_vars => IInv'
<1> SUFFICES ASSUME IInv, [Next]_vars PROVE IInv'
  OBVIOUS
<1>1. CASE UNCHANGED vars
  <2>1. UNCHANGED <<database, record, unreadable, pc, mu, entries, content, path, failures, writer,
                    bucket, taken, manifest, crashes>>
    BY <1>1 DEF vars, disk, store
  <2>2. TypeOK' /\ ContentInv' /\ UploadInv' /\ OwnFilesOnly' /\ UploadIsWhole' /\ DestinationBound'
    BY <2>1 DEF IInv, TypeOK, ContentInv, UploadInv, OwnFilesOnly, UploadIsWhole, DestinationBound
  <2>3. JudgedInv'
    BY <2>1 DEF IInv, ControlInv, JudgedInv, Open
  <2>4. ASSUME NEW k \in Keys PROVE KeyInv(k)'
    BY <2>1 DEF IInv, ControlInv, KeyInv, MutexInv, OpenInv, PathInv, WriterInv, Open
  <2> QED
    BY <2>2, <2>3, <2>4 DEF IInv, ControlInv
<1>2. CASE Next
  <2>1. UNCHANGED database
    BY <1>2 DEF Next
  <2>2. CASE Crash
    BY <2>1, <2>2, CrashStep
  <2>3. ASSUME NEW k \in Keys, Request(k) \/ WriterOpens(k) \/ WriterCloses(k) \/ Spoil(k) PROVE IInv'
    BY <2>1, <2>3, RequestStep, WriterOpensStep, WriterClosesStep, SpoilStep
  <2>4. ASSUME NEW k \in Keys, Operation(k) PROVE IInv'
    BY <2>1, <2>4, CheckOwnersStep, JudgeStep, ClaimStep, RecordedStep, UnclaimedStep, StartBackupStep,
       BackupReturnsStep, StartUploadStep, UploadFileStep, UploadManifestStep, AwaitStagingWritersStep,
       RemoveBackupStagingStep, SettleStep DEF Operation
  <2> QED
    BY <1>2, <2>2, <2>3, <2>4 DEF Next
<1> QED
  BY <1>1, <1>2

\* The invariant holds in every reachable state.
LEMMA Inductive == Spec => []IInv
  BY InitIInv, NextIInv, PTL DEF Spec

\* UploadBackup: whatever crashes, fails or is written late, an operation only
\* uploads files that it wrote itself.
THEOREM OwnFiles == Spec => []OwnFilesOnly
<1>1. IInv => OwnFilesOnly
  BY DEF IInv
<1> QED
  BY <1>1, Inductive, PTL

\* UploadBackup and Settle: a manifest stands for a whole backup, and a Completed
\* operation has one.
THEOREM WholeUpload == Spec => []UploadIsWhole
<1>1. IInv => UploadIsWhole
  BY DEF IInv
<1> QED
  BY <1>1, Inductive, PTL

\* claimBackupStaging: what a destination holds grows by failed removals only.
THEOREM BoundedDestination == Spec => []DestinationBound
<1>1. IInv => DestinationBound
  BY DEF IInv
<1> QED
  BY <1>1, Inductive, PTL

\* The body of StagingInUseKept, for one directory.
KeptUnlessOwn(k) == (Open(k) => pc'[k] # pc[k]) /\ (writer[k] # "writing" \/ crashes' # crashes)

\* Who removes a directory: its own operation, the claim of one that judged it to
\* be abandoned, or the start of the container.
LEMMA RemovedByWhom ==
    ASSUME IInv, Next, NEW i \in entries \ entries'
    PROVE  KeptUnlessOwn(i)
<1>0. TypeOK /\ ControlInv /\ i \in Keys
  BY DEF IInv, TypeOK
<1>1. CASE Crash
  <2>1. crashes' # crashes /\ pc'[i] = "none"
    <3>1. crashes \in Nat
      BY <1>0, BoundsAssumption DEF TypeOK
    <3>2. crashes' = crashes + 1 /\ pc' = [k \in Keys |-> "none"]
      BY <1>1 DEF Crash
    <3> QED
      BY <1>0, <3>1, <3>2
  <2>2. Open(i) => pc[i] # "none"
    BY <1>0 DEF ControlInv, KeyInv, OpenInv
  <2> QED
    BY <2>1, <2>2 DEF KeptUnlessOwn
<1>2. ASSUME NEW k \in Keys, Claim(k) PROVE KeptUnlessOwn(i)
  BY <1>0, <1>2 DEF Claim, ControlInv, JudgedInv, KeptUnlessOwn
<1>3. ASSUME NEW k \in Keys, Recorded(k) \/ RemoveBackupStaging(k) PROVE KeptUnlessOwn(i)
  <2>1. KeyInv(k)
    BY <1>0 DEF ControlInv
  <2>2. pc[k] \in {"claimed", "clearing", "uploaded"} /\ path[k] = k /\ writer[k] # "writing"
    BY <1>3, <2>1 DEF Recorded, RemoveBackupStaging, KeyInv, PathInv, WriterInv, Staged, Staging
  <2>3. i = k
    BY <1>3, <2>2 DEF Recorded, RemoveBackupStaging, RemoveAll
  <2>4. pc'[k] # pc[k]
    BY <1>0, <1>3, <2>2 DEF Recorded, RemoveBackupStaging, Goto, TypeOK
  <2> QED
    BY <2>2, <2>3, <2>4 DEF KeptUnlessOwn
<1>4. ASSUME NEW k \in Keys, StartBackup(k) PROVE FALSE
  BY <1>4 DEF StartBackup
<1>5. ASSUME NEW k \in Keys, WriterOpens(k) PROVE FALSE
  BY <1>5 DEF WriterOpens
<1>6. ASSUME NEW k \in Keys,
             \/ Request(k) \/ CheckOwners(k) \/ Judge(k) \/ Unclaimed(k) \/ WriterCloses(k) \/ BackupReturns(k)
             \/ StartUpload(k) \/ UploadFile(k) \/ UploadManifest(k) \/ AwaitStagingWriters(k) \/ Settle(k) \/ Spoil(k)
      PROVE  FALSE
  <2>1. UNCHANGED disk
    BY <1>6, Zenon DEF Request, CheckOwners, Judge, Unclaimed, WriterCloses, BackupReturns, StartUpload, UploadFile,
       UploadManifest, AwaitStagingWriters, Settle, Spoil
  <2> QED
    BY <2>1 DEF disk
<1> QED
  BY <1>1, <1>2, <1>3, <1>4, <1>5, <1>6 DEF Next, Operation

\* reclaimDestination, awaitStagingWriters and removeBackupStaging: no directory
\* is removed under an operation that runs by another one, nor under a file that
\* is being written.
THEOREM InUseKept == Spec => StagingInUseKept
<1>1. IInv /\ [Next]_vars
        => [\A k \in entries \ entries' :
              /\ Open(k) => pc'[k] # pc[k]
              /\ writer[k] # "writing" \/ crashes' # crashes]_vars
  BY RemovedByWhom, Zenon DEF KeptUnlessOwn
<1> QED
  BY <1>1, Inductive, PTL DEF Spec, StagingInUseKept
=============================================================================
