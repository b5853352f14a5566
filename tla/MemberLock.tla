------------------------------ MODULE MemberLock ------------------------------
(***************************************************************************)
(* The member lock: of all containers that ever have a member's data       *)
(* volume mounted at a time, as when the old one of a force-deleted Pod    *)
(* outlives the start of its replacement, one may run CUBRID on it         *)
(* (take_member_lock of build/instance-manager/entrypoint.sh,              *)
(* internal/instancemanager/volumelock.go and volumelock_linux.go).        *)
(*                                                                         *)
(* A container that ends may be followed by another one in its place.  One *)
(* of an earlier image takes no member lock; it was started before the     *)
(* others, and its CUBRID may only end.  A lock file may be replaced while *)
(* nobody holds its lock.                                                  *)
(***************************************************************************)
EXTENDS Naturals

CONSTANTS
    Containers,   \* containers of the member
    Legacy        \* those of an image that takes no member lock

ASSUME LegacyAssumption == Legacy \subseteq Containers

VARIABLES
    stage,    \* how far each container is: "off", "waiting", "probing" or "owner"
    stale,    \* containers whose lock file is not the one at its path any more
    live      \* containers whose CUBRID processes run, and hold their locks on the volume

lockVars == <<stage, stale, live>>

LockInit ==
    /\ stage = [c \in Containers |-> "off"]
    /\ stale = {}
    /\ live \in SUBSET Legacy

\* The containers that hold the lock of the file they have opened.
Holding == {c \in Containers : stage[c] \in {"probing", "owner"}}
Owners == {c \in Containers : stage[c] = "owner"}

EnterStage(c, to) == stage' = [stage EXCEPT ![c] = to]

\* take_member_lock opens the file, and keeps it open.
OpenLock(c) ==
    /\ c \notin Legacy
    /\ stage[c] = "off"
    /\ EnterStage(c, "waiting")
    /\ UNCHANGED <<stale, live>>

\* Nobody holds the lock of the file that c has opened.
NotHeld(c) == \A d \in Holding : (d \in stale) # (c \in stale)

\* Mutant of AcquireMemberLock: the lock of a file that was replaced counts.
AcquireMemberLockUnchecked(c) ==
    /\ stage[c] = "waiting" /\ NotHeld(c)
    /\ EnterStage(c, "probing")
    /\ UNCHANGED <<stale, live>>

\* AcquireMemberLock: it takes the lock, and finds that the file is still the
\* one that another container would open.
AcquireMemberLock(c) ==
    /\ stage[c] = "waiting" /\ NotHeld(c)
    /\ c \notin stale
    /\ EnterStage(c, "probing")
    /\ UNCHANGED <<stale, live>>

\* WaitVolumeFree: no process holds a CUBRID lock on the volume.
WaitVolumeFree(c) ==
    /\ stage[c] = "probing"
    /\ live = {}
    /\ EnterStage(c, "owner")
    /\ UNCHANGED <<stale, live>>

StartServer(c) ==
    /\ c \in Owners
    /\ live' = live \cup {c}
    /\ UNCHANGED <<stage, stale>>

\* CUBRID is stopped, or dies.
StopServer(c) ==
    /\ live' = live \ {c}
    /\ UNCHANGED <<stage, stale>>

\* The container ends, as when its lock file was replaced: the kernel kills what
\* runs in it and drops its locks.
EndContainer(c) ==
    /\ EnterStage(c, "off")
    /\ stale' = stale \ {c}
    /\ live' = live \ {c}

ReplaceLockFile ==
    /\ Holding \subseteq stale
    /\ stale' = {c \in Containers : stage[c] # "off"}
    /\ UNCHANGED <<stage, live>>

LockStep(c) ==
    \/ OpenLock(c) \/ AcquireMemberLock(c) \/ WaitVolumeFree(c)
    \/ StartServer(c) \/ StopServer(c) \/ EndContainer(c)

LockNext == ReplaceLockFile \/ \E c \in Containers : LockStep(c)

LockSpec == LockInit /\ [][LockNext]_lockVars

\* AcquireMemberLock and WaitVolumeFree: two containers never own the volume at
\* a time, and while one does, no other runs CUBRID on it, whatever image it is of.
OneOwner == \A c \in Owners : \A d \in Owners \cup live : c = d
=============================================================================
