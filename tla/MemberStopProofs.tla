-------------------------- MODULE MemberStopProofs --------------------------
(***************************************************************************)
(* The member lock lets one container at a time run CUBRID on the volume,  *)
(* for any set of containers, and a container that starts and stops as     *)
(* MemberStop says keeps to it and stays stopped once it was stopped.      *)
(***************************************************************************)
EXTENDS MemberStop, TLAPS

LockStages == {"off", "waiting", "probing", "owner"}

\* The inductive invariant of the lock.  A holder's file is the one at the path,
\* so that a second container finds it held; CUBRID runs in an owner or is left
\* from an earlier image; and an owner has seen the latter end.
LockInv ==
    /\ stage \in [Containers -> LockStages]
    /\ stale \subseteq Containers /\ live \subseteq Containers
    /\ \A c \in Holding : c \notin stale
    /\ \A c, d \in Holding : c = d
    /\ \A c \in live : c \in Owners \/ c \in Legacy
    /\ \A c \in Legacy : stage[c] = "off"
    /\ \A c \in Owners : \A d \in live : d \notin Legacy

\* At first nobody holds the lock.
LEMMA LockInvInit == LockInit => LockInv
  BY LegacyAssumption DEF LockInit, LockInv, LockStages, Holding, Owners

\* Every step of a container and the replacement of the file keep the invariant.
LEMMA LockInvStep == LockInv /\ [LockNext]_lockVars => LockInv'
<1> SUFFICES ASSUME LockInv, [LockNext]_lockVars PROVE LockInv'
  OBVIOUS
<1> USE LegacyAssumption
<1>1. CASE UNCHANGED lockVars
  BY <1>1 DEF LockInv, lockVars, Holding, Owners
<1>2. CASE ReplaceLockFile
  BY <1>2 DEF LockInv, ReplaceLockFile, Holding, Owners
<1>3. ASSUME NEW c \in Containers, LockStep(c) PROVE LockInv'
  <2>1. CASE OpenLock(c)
    BY <2>1 DEF LockInv, OpenLock, EnterStage, LockStages, Holding, Owners
  <2>2. CASE AcquireMemberLock(c)
    BY <2>2 DEF LockInv, AcquireMemberLock, NotHeld, EnterStage, LockStages, Holding, Owners
  <2>3. CASE WaitVolumeFree(c)
    BY <2>3 DEF LockInv, WaitVolumeFree, EnterStage, LockStages, Holding
  <2>4. CASE StartServer(c)
    BY <2>4 DEF LockInv, StartServer, Holding, Owners
  <2>5. CASE StopServer(c)
    BY <2>5 DEF LockInv, StopServer, Holding, Owners
  <2>6. CASE EndContainer(c)
    BY <2>6 DEF LockInv, EndContainer, EnterStage, LockStages, Holding, Owners
  <2> QED BY <1>3, <2>1, <2>2, <2>3, <2>4, <2>5, <2>6 DEF LockStep
<1> QED BY <1>1, <1>2, <1>3 DEF LockNext

\* Two owners would both hold the lock.
LEMMA LockInvOwner == LockInv => OneOwner
  BY DEF LockInv, OneOwner, Owners, Holding

\* AcquireMemberLock and WaitVolumeFree: for every set of containers, whatever
\* images they are of, at most one owns the volume, and no other runs CUBRID then.
THEOREM OneContainerOwns == LockSpec => []OneOwner
<1>1. LockSpec => []LockInv
  BY LockInvInit, LockInvStep, PTL DEF LockSpec
<1> QED BY <1>1, LockInvOwner, PTL

-----------------------------------------------------------------------------
(* The container of MemberStop.                                            *)

\* Beyond take_member_lock the container owns the volume until it exits, and
\* before that it has no manager and no operation that could start CUBRID.
OwnerInv ==
    /\ entry = "locking" \/ ~Alive \/ stage[This] = "owner"
    /\ entry = "locking" => manager = "off" /\ \A o \in Ops : op[o] = "none"

ContainerInv == LockInv /\ OwnerInv

\* The container begins without the lock.
LEMMA ContainerInvInit == Init => ContainerInv
  BY LockInvInit DEF Init, ContainerInv, OwnerInv

\* CUBRID comes to run in an owner, or it does not run any more.
LEMMA RunsIsLockStep ==
  ASSUME NEW is \in BOOLEAN, Runs(is), is => This \in Owners
  PROVE  LockNext
<1>1. StartServer(This) \/ StopServer(This)
  BY DEF Runs, StartServer, StopServer
<1> QED BY <1>1, ThisAssumption DEF LockNext, LockStep

\* The entrypoint's steps.
LEMMA EntrypointStep ==
  ASSUME ContainerInv, Entrypoint
  PROVE  [LockNext]_lockVars /\ OwnerInv'
<1> USE ThisAssumption DEF ContainerInv, OwnerInv, Alive, Steps, shell, server
<1>1. CASE OpenMemberLock
  BY <1>1 DEF OpenMemberLock, LockNext, LockStep
<1>2. CASE TakeMemberLock
  BY <1>2 DEF TakeMemberLock, lockVars
<1>3. CASE Decide \/ CreateEnds
  BY <1>3 DEF Decide, CreateEnds, lockVars
<1>4. CASE StartCheck \/ StartBegins
  BY <1>4 DEF StartCheck, StartBegins, lockVars
<1>5. CASE StartEnds
  <2>1. This \in Owners
    BY <1>5 DEF StartEnds, Owners
  <2>2. [LockNext]_lockVars
    BY <1>5, <2>1, RunsIsLockStep, Zenon DEF StartEnds
  <2>3. stage' = stage
    BY <1>5 DEF StartEnds, Runs, lockVars
  <2> QED BY <1>5, <2>2, <2>3, Zenon DEF StartEnds
<1>6. CASE FinalCheck \/ FinalStopEnds \/ Leave
  BY <1>6 DEF FinalCheck, FinalStopEnds, Leave, lockVars
<1>7. CASE Launch \/ RecordPid \/ ManagerGone
  BY <1>7 DEF Launch, RecordPid, ManagerGone, lockVars
<1>8. CASE Trap \/ TrapEnds
  BY <1>8 DEF Trap, TrapEnds, lockVars
<1> QED BY <1>1, <1>2, <1>3, <1>4, <1>5, <1>6, <1>7, <1>8 DEF Entrypoint

\* The shutdown commands, which only ever stop CUBRID.
LEMMA CommandStep ==
  ASSUME ContainerInv, NEW c \in Commands, Command(c)
  PROVE  [LockNext]_lockVars /\ OwnerInv'
<1> USE DEF ContainerInv, OwnerInv, Alive, shell, server
<1>1. CASE RecordStopRequest(c) \/ RequestShutdown(c) \/ ManagerLost(c)
  BY <1>1 DEF RecordStopRequest, RequestShutdown, ManagerLost, lockVars
<1>2. CASE StopEnters(c) \/ StopLocks(c) \/ StopAwaits(c)
  BY <1>2 DEF StopEnters, StopLocks, StopAwaits, lockVars
<1>3. CASE StopItself(c) \/ StopShutsDown(c)
  <2>1. Runs(FALSE) \/ UNCHANGED lockVars
    BY <1>3, Zenon DEF StopItself, StopShutsDown, Shutdown
  <2>2. [LockNext]_lockVars
    BY <2>1, RunsIsLockStep, Zenon
  <2>3. stage' = stage
    BY <2>1 DEF Runs, lockVars
  <2> QED BY <1>3, <2>2, <2>3, Zenon DEF StopItself, StopShutsDown
<1> QED BY <1>1, <1>2, <1>3 DEF Command

\* A manager that ends may leave a start behind, but only in an owner.
LEMMA ManagerEndsStep ==
  ASSUME ContainerInv, Alive, manager # "off", ManagerEnds
  PROVE  [LockNext]_lockVars /\ stage' = stage
<1>1. This \in Owners
  BY ThisAssumption DEF ContainerInv, OwnerInv, Owners
<1>2. Runs(TRUE) \/ UNCHANGED lockVars
  BY Zenon DEF ManagerEnds
<1>3. [LockNext]_lockVars
  BY <1>1, <1>2, RunsIsLockStep, Zenon
<1> QED BY <1>2, <1>3 DEF Runs, lockVars

\* A step of the manager.
LEMMA ManagerStep ==
  ASSUME ContainerInv, Manager \/ ManagerCrashes
  PROVE  [LockNext]_lockVars /\ OwnerInv'
<1> USE DEF ContainerInv, OwnerInv, Alive, shell, server
<1>1. CASE ManagerListens \/ LookForRecord \/ AdmitResume
  BY <1>1 DEF ManagerListens, LookForRecord, AdmitResume, lockVars
<1>2. CASE ResumeActivates \/ ResumeStarts \/ ResumeEnds
  BY <1>2 DEF ResumeActivates, ResumeStarts, ResumeEnds, lockVars
<1>3. CASE ResumeStartEnds
  <2>1. This \in Owners
    BY <1>3, ThisAssumption DEF ResumeStartEnds, Owners
  <2>2. [LockNext]_lockVars
    BY <1>3, <2>1, RunsIsLockStep, Zenon DEF ResumeStartEnds
  <2>3. stage' = stage
    BY <1>3 DEF ResumeStartEnds, Runs, lockVars
  <2> QED BY <1>3, <2>2, <2>3 DEF ResumeStartEnds
<1>4. CASE ManagerTerminates
  <2>1. [LockNext]_lockVars /\ stage' = stage
    BY <1>4, ManagerEndsStep DEF ManagerTerminates
  <2> QED BY <1>4, <2>1 DEF ManagerTerminates
<1>5. CASE ManagerCrashes
  <2>1. [LockNext]_lockVars /\ stage' = stage
    BY <1>5, ManagerEndsStep DEF ManagerCrashes
  <2> QED BY <1>5, <2>1 DEF ManagerCrashes
<1> QED BY <1>1, <1>2, <1>3, <1>4, <1>5 DEF Manager

\* The operations, of which those that started are of an owner's manager.
LEMMA OperationStep ==
  ASSUME ContainerInv, NEW o \in Ops, Admit(o) \/ Operation(o)
  PROVE  [LockNext]_lockVars /\ OwnerInv'
<1> USE DEF ContainerInv, OwnerInv, Alive, shell, server
<1>1. CASE Admit(o)
  <2>1. entry # "locking"
    BY <1>1 DEF Admit, Listening
  <2> QED BY <1>1, <2>1 DEF Admit, lockVars
<1>2. CASE Activate(o) \/ OpStarts(o) \/ OpEnds(o)
  <2>1. entry # "locking"
    BY <1>2 DEF Activate, OpStarts, OpEnds
  <2> QED BY <1>2, <2>1 DEF Activate, OpStarts, OpEnds, lockVars
<1>3. CASE OpStartEnds(o)
  <2>1. entry # "locking" /\ This \in Owners
    BY <1>3, ThisAssumption DEF OpStartEnds, Owners
  <2>2. [LockNext]_lockVars
    BY <1>3, <2>1, RunsIsLockStep, Zenon DEF OpStartEnds
  <2>3. stage' = stage
    BY <1>3 DEF OpStartEnds, Runs, lockVars
  <2> QED BY <1>3, <2>1, <2>2, <2>3 DEF OpStartEnds
<1> QED BY <1>1, <1>2, <1>3 DEF Operation

\* A step of the watchdog.
LEMMA WatchdogStep ==
  ASSUME ContainerInv, ServerDies \/ Watchdog \/ GraceEnds
  PROVE  [LockNext]_lockVars /\ OwnerInv'
<1> USE DEF ContainerInv, OwnerInv, Alive, shell, server
<1>1. CASE ServerDies
  <2>1. [LockNext]_lockVars
    BY <1>1, RunsIsLockStep, Zenon DEF ServerDies
  <2> QED BY <1>1, <2>1 DEF ServerDies, Runs
<1>2. CASE WatchdogLooks \/ GraceEnds
  BY <1>2 DEF WatchdogLooks, GraceEnds, lockVars
<1>3. CASE WatchdogDecides
  <2>1. [LockNext]_lockVars /\ stage' = stage
    BY <1>3, ManagerEndsStep DEF WatchdogDecides, lockVars
  <2> QED BY <1>3, <2>1 DEF WatchdogDecides
<1> QED BY <1>1, <1>2, <1>3 DEF Watchdog

\* The kubelet, the kernel, the wait for the volume and the other containers.
LEMMA SurroundingsStep ==
  ASSUME ContainerInv,
         PreStop \/ Terminate \/ Kill \/ WaitForVolume \/ ContainerGone \/ Others
  PROVE  [LockNext]_lockVars /\ OwnerInv'
<1> USE ThisAssumption DEF ContainerInv, OwnerInv, Alive, shell, server
<1>1. CASE PreStop \/ Terminate \/ Kill
  BY <1>1 DEF PreStop, Terminate, Kill, lockVars
<1>2. CASE WaitForVolume
  BY <1>2 DEF WaitForVolume, LockNext, LockStep
<1>3. CASE ContainerGone
  BY <1>3 DEF ContainerGone, LockNext, LockStep
<1>4. CASE Others
  <2>1. LockNext
    BY <1>4 DEF Others, LockNext
  <2>2. stage'[This] = stage[This]
    <3>1. CASE ReplaceLockFile
      BY <3>1 DEF ReplaceLockFile
    <3>2. ASSUME NEW c \in Containers \ {This}, LockStep(c) PROVE stage'[This] = stage[This]
      BY <3>2
      DEF LockStep, OpenLock, AcquireMemberLock, WaitVolumeFree, StartServer, StopServer, EndContainer, EnterStage,
          LockInv
    <3> QED BY <1>4, <3>1, <3>2 DEF Others
  <2> QED BY <1>4, <2>1, <2>2 DEF Others
<1> QED BY <1>1, <1>2, <1>3, <1>4

\* Every step keeps the invariant and is a step of the lock, or none.
LEMMA ContainerInvStep == ContainerInv /\ [Next]_vars => ContainerInv' /\ [LockNext]_lockVars
<1> SUFFICES ASSUME ContainerInv, [Next]_vars PROVE ContainerInv' /\ [LockNext]_lockVars
  OBVIOUS
<1>1. [LockNext]_lockVars /\ OwnerInv'
  <2>1. CASE UNCHANGED vars
    BY <2>1 DEF vars, lockVars, ContainerInv, OwnerInv, Alive
  <2> QED BY <2>1, EntrypointStep, CommandStep, ManagerStep, OperationStep, WatchdogStep,
             SurroundingsStep DEF Next
<1>2. LockInv'
  BY <1>1, LockInvStep DEF ContainerInv
<1> QED BY <1>1, <1>2 DEF ContainerInv

\* take_member_lock: whatever the container's start, stops, operations, watchdog
\* and end do, it runs CUBRID only as an owner of the volume.
THEOREM ContainerTakesLockFirst == Spec => TakesLockFirst
<1>1. Init => LockInit
  BY DEF Init
<1>2. Spec => [][LockNext]_lockVars
  BY ContainerInvInit, ContainerInvStep, PTL DEF Spec
<1> QED BY <1>1, <1>2, PTL DEF TakesLockFirst, LockSpec, Spec

\* Therefore no other container runs CUBRID while this one, or any other, owns
\* the volume.
THEOREM VolumeHasOneOwner == Spec => []OneOwner
  BY ContainerTakesLockFirst, OneContainerOwns, PTL DEF TakesLockFirst

-----------------------------------------------------------------------------
(* The stop.                                                               *)

\* The states of a shutdown command, of the manager and of an operation.
StopTypeOK ==
    /\ command \in [Commands -> {"none", "recording", "asking", "entering", "queued", "awaiting", "stopping",
                                 "unsure", "self", "ok", "failed"}]
    /\ manager \in {"off", "started", "listening", "reclaiming", "resuming", "cleared", "startcmd", "serving", "ended"}
    /\ op \in [Ops -> {"none", "backing", "working", "cleared", "startcmd", "failing"}]
    /\ terminating \in BOOLEAN /\ started \in BOOLEAN /\ stopFile \in BOOLEAN
    /\ stopping \in BOOLEAN /\ stopped \in BOOLEAN /\ trouble \in BOOLEAN

\* The manager starts nothing any more, because it knows of the stop or will
\* read of it before it resumes anything.
Still ==
    /\ \A o \in Ops : op[o] = "none"
    /\ ~Resuming
    /\ manager \in {"reclaiming", "serving"} => stopping
    /\ manager \in {"off", "started", "listening"} => stopFile

\* A command past its record has left it; one whose stop Server.Stop runs has
\* announced it; one that stops CUBRID finds the manager still; and one that
\* succeeded after the last check has left CUBRID stopped.
CommandInv ==
    \A c \in Commands :
        /\ command[c] \notin {"none", "recording"} /\ ~trouble => stopFile
        /\ command[c] \in {"failed", "unsure"} => trouble
        /\ command[c] \in {"queued", "awaiting", "stopping", "unsure"} => stopping
        /\ command[c] \in {"self", "stopping", "ok"} /\ ~trouble => Still
        /\ command[c] = "ok" /\ ~trouble /\ (manager # "off" \/ entry = "launching") => ~running

\* The manager serves when it has operations, and has stopped when a command succeeded.
ServerInv ==
    /\ (\E o \in Ops : op[o] # "none") => manager = "serving"
    /\ stopped => \E c \in Commands : command[c] = "ok"

\* What the entrypoint has started, and whether the manager was launched.
ShellInv ==
    /\ entry \in {"locking", "deciding", "creating", "starting", "cleared", "startcmd", "after", "finalstop",
                  "leaving", "launching"} => manager = "off"
    /\ entry \in {"launched", "waiting"} => manager # "off"
    /\ entry \in {"locking", "deciding", "creating", "starting", "cleared", "startcmd"} => ~running
    /\ entry \in {"cleared", "startcmd"} => started
    /\ entry = "after" /\ ~started => ~running
    /\ entry = "finalstop" /\ command["final"] = "ok" /\ ~trouble => ~running
    /\ entry = "leaving" /\ ~trouble => ~running
    /\ entry = "exited" /\ ~trouble => manager \in {"off", "ended"}

\* Each of the entrypoint's commands runs once, and a termination that is handled
\* after the last check has stopped CUBRID.
SignalInv ==
    /\ signal \in {"none", "pending"} => command["trap"] = "none"
    /\ entry \in {"locking", "deciding", "creating", "starting", "cleared", "startcmd", "after"}
           => command["final"] = "none"
    /\ entry \in {"launching", "launched", "waiting"} /\ terminating => signal \in {"trapping", "handled"}
    /\ signal = "handled" /\ ~trouble => command["trap"] = "ok"

\* The inductive invariant of the stop.
StopInv == StopTypeOK /\ CommandInv /\ ServerInv /\ ShellInv /\ SignalInv /\ LeftStopped

\* Steps of the other containers, of the lock and of the watchdog's looks, and
\* the end of CUBRID by itself.
LEMMA RestStops ==
    ASSUME StopInv, running' => running,
           UNCHANGED <<entry, signal, terminating, started, stopFile, command, manager, stopping, stopped, op, trouble>>
    PROVE  StopInv'
<1> USE DEF StopInv
<1>1. StopTypeOK' /\ ServerInv' /\ SignalInv'
  BY DEF StopTypeOK, ServerInv, SignalInv
<1>2. CommandInv'
  BY DEF CommandInv, Still, Resuming
<1>3. ShellInv' /\ LeftStopped'
  BY DEF ShellInv, LeftStopped
<1> QED BY <1>1, <1>2, <1>3

\* Those steps leave CUBRID of this container alone, or end it.
LEMMA OthersStop ==
    ASSUME StopInv, OpenMemberLock \/ WaitForVolume \/ Others \/ ServerDies \/ WatchdogLooks \/ GraceEnds
    PROVE  StopInv'
<1>1. UNCHANGED <<entry, signal, terminating, started, stopFile, command, manager, stopping, stopped, op, trouble>>
  BY Zenon DEF OpenMemberLock, WaitForVolume, Others, ServerDies, WatchdogLooks, GraceEnds, shell, server
<1>2. running' => running
  <2>1. CASE Others
    BY <2>1
    DEF Others, running, ReplaceLockFile, LockStep, OpenLock, AcquireMemberLock, WaitVolumeFree, StartServer,
        StopServer, EndContainer
  <2>2. CASE OpenMemberLock \/ WaitForVolume
    BY <2>2 DEF OpenMemberLock, WaitForVolume, OpenLock, AcquireMemberLock, WaitVolumeFree, running
  <2>3. CASE ServerDies \/ WatchdogLooks \/ GraceEnds
    BY <2>3, Zenon DEF ServerDies, WatchdogLooks, GraceEnds, running, lockVars
  <2> QED BY <2>1, <2>2, <2>3
<1> QED BY <1>1, <1>2, RestStops

\* The entrypoint takes the member lock.
LEMMA TakeMemberLockStops ==
    ASSUME StopInv, TakeMemberLock
    PROVE  StopInv'
<1> USE DEF StopInv, TakeMemberLock, Alive, Steps, shell, server, lockVars, Runs, running, Commands
<1>1. StopTypeOK'
  BY DEF StopTypeOK
<1>2. CommandInv' /\ ServerInv'
  BY DEF CommandInv, ServerInv, Still, Resuming
<1>3. ShellInv' /\ SignalInv' /\ LeftStopped'
  BY DEF ShellInv, SignalInv, LeftStopped
<1> QED BY <1>1, <1>2, <1>3

\* It decides what there is to do before the manager.
LEMMA DecideStops ==
    ASSUME StopInv, Decide
    PROVE  StopInv'
<1> USE DEF StopInv, Decide, Alive, Steps, shell, server, lockVars, Runs, running, Commands
<1>1. StopTypeOK'
  BY DEF StopTypeOK
<1>2. CommandInv' /\ ServerInv'
  BY DEF CommandInv, ServerInv, Still, Resuming
<1>3. ShellInv' /\ SignalInv' /\ LeftStopped'
  BY DEF ShellInv, SignalInv, LeftStopped
<1> QED BY <1>1, <1>2, <1>3

\* Its createdb ends.
LEMMA CreateEndsStops ==
    ASSUME StopInv, CreateEnds
    PROVE  StopInv'
<1> USE DEF StopInv, CreateEnds, Alive, Steps, shell, server, lockVars, Runs, running, Commands
<1>1. StopTypeOK'
  BY DEF StopTypeOK
<1>2. CommandInv' /\ ServerInv'
  BY DEF CommandInv, ServerInv, Still, Resuming
<1>3. ShellInv' /\ SignalInv' /\ LeftStopped'
  BY DEF ShellInv, SignalInv, LeftStopped
<1> QED BY <1>1, <1>2, <1>3

\* Its start looks for a recorded stop.
LEMMA StartCheckStops ==
    ASSUME StopInv, StartCheck
    PROVE  StopInv'
<1> USE DEF StopInv, StartCheck, StopRecorded, Alive, Steps, shell, server, lockVars, Runs, running, Commands
<1>1. StopTypeOK'
  BY DEF StopTypeOK
<1>2. CommandInv' /\ ServerInv'
  BY DEF CommandInv, ServerInv, Still, Resuming
<1>3. ShellInv' /\ SignalInv' /\ LeftStopped'
  BY Zenon DEF ShellInv, SignalInv, LeftStopped
<1> QED BY <1>1, <1>2, <1>3

\* It starts CUBRID, with started set before.
LEMMA StartBeginsStops ==
    ASSUME StopInv, StartBegins
    PROVE  StopInv'
<1> USE DEF StopInv, StartBegins, Alive, Steps, shell, server, lockVars, Runs, running, Commands
<1>1. StopTypeOK'
  BY DEF StopTypeOK
<1>2. CommandInv' /\ ServerInv'
  BY DEF CommandInv, ServerInv, Still, Resuming
<1>3. ShellInv' /\ SignalInv' /\ LeftStopped'
  BY DEF ShellInv, SignalInv, LeftStopped
<1> QED BY <1>1, <1>2, <1>3

\* The start ends.
LEMMA StartEndsStops ==
    ASSUME StopInv, StartEnds
    PROVE  StopInv'
<1> USE DEF StopInv, StartEnds, Alive, Steps, shell, server, lockVars, Runs, running, Commands
<1>1. StopTypeOK'
  BY DEF StopTypeOK
<1>2. CommandInv' /\ ServerInv'
  BY DEF CommandInv, ServerInv, ShellInv, Still, Resuming
<1>3. ShellInv' /\ SignalInv' /\ LeftStopped'
  BY DEF ShellInv, SignalInv, LeftStopped
<1> QED BY <1>1, <1>2, <1>3

\* The last check before the manager is launched.
LEMMA FinalCheckStops ==
    ASSUME StopInv, FinalCheck
    PROVE  StopInv'
<1> USE DEF StopInv, FinalCheck, StopRecorded, Alive, Steps, shell, server, lockVars, Runs, running, Commands
<1>1. StopTypeOK'
  BY DEF StopTypeOK
<1>2. CommandInv' /\ ServerInv'
  BY DEF StopTypeOK, CommandInv, ServerInv, SignalInv, Still, Resuming
<1>3. ShellInv' /\ SignalInv' /\ LeftStopped'
  BY DEF StopTypeOK, ShellInv, SignalInv, LeftStopped
<1> QED BY <1>1, <1>2, <1>3

\* The stop that this check asked for ends.
LEMMA FinalStopEndsStops ==
    ASSUME StopInv, FinalStopEnds
    PROVE  StopInv'
<1> USE DEF StopInv, FinalStopEnds, Alive, Steps, shell, server, lockVars, Runs, running, Commands
<1>1. StopTypeOK'
  BY DEF StopTypeOK
<1>2. CommandInv' /\ ServerInv'
  BY DEF CommandInv, ServerInv, Still, Resuming
<1>3. ShellInv' /\ SignalInv' /\ LeftStopped'
  BY DEF CommandInv, ShellInv, SignalInv, LeftStopped
<1> QED BY <1>1, <1>2, <1>3

\* The entrypoint exits without a manager.
LEMMA LeaveStops ==
    ASSUME StopInv, Leave
    PROVE  StopInv'
<1> USE DEF StopInv, Leave, Alive, Steps, shell, server, lockVars, Runs, running, Commands
<1>1. StopTypeOK'
  BY DEF StopTypeOK
<1>2. CommandInv' /\ ServerInv'
  BY DEF CommandInv, ServerInv, Still, Resuming
<1>3. ShellInv' /\ SignalInv' /\ LeftStopped'
  BY DEF ShellInv, SignalInv, LeftStopped
<1> QED BY <1>1, <1>2, <1>3

\* It launches the manager.
LEMMA LaunchStops ==
    ASSUME StopInv, Launch
    PROVE  StopInv'
<1> USE DEF StopInv, Launch, Alive, Steps, shell, server, lockVars, Runs, running, Commands
<1>1. StopTypeOK'
  BY DEF StopTypeOK
<1>2. CommandInv' /\ ServerInv'
  BY DEF CommandInv, ServerInv, ShellInv, Still, Resuming
<1>3. ShellInv' /\ SignalInv' /\ LeftStopped'
  BY DEF ShellInv, SignalInv, LeftStopped
<1> QED BY <1>1, <1>2, <1>3

\* It records the manager's process.
LEMMA RecordPidStops ==
    ASSUME StopInv, RecordPid
    PROVE  StopInv'
<1> USE DEF StopInv, RecordPid, Alive, Steps, shell, server, lockVars, Runs, running, Commands
<1>1. StopTypeOK'
  BY DEF StopTypeOK
<1>2. CommandInv' /\ ServerInv'
  BY DEF CommandInv, ServerInv, Still, Resuming
<1>3. ShellInv' /\ SignalInv' /\ LeftStopped'
  BY DEF ShellInv, SignalInv, LeftStopped
<1> QED BY <1>1, <1>2, <1>3

\* Its wait ends with the manager.
LEMMA ManagerGoneStops ==
    ASSUME StopInv, ManagerGone
    PROVE  StopInv'
<1> USE DEF StopInv, ManagerGone, Alive, Steps, shell, server, lockVars, Runs, running, Commands
<1>1. StopTypeOK'
  BY DEF StopTypeOK
<1>2. CommandInv' /\ ServerInv'
  BY DEF CommandInv, ServerInv, Still, Resuming
<1>3. ShellInv' /\ SignalInv' /\ LeftStopped'
  BY DEF CommandInv, ShellInv, SignalInv, LeftStopped
<1> QED BY <1>1, <1>2, <1>3

\* The trap of a termination begins.
LEMMA TrapStops ==
    ASSUME StopInv, Trap
    PROVE  StopInv'
<1> USE DEF StopInv, Trap, Alive, Steps, shell, server, lockVars, Runs, running, Commands
<1>1. StopTypeOK'
  BY DEF StopTypeOK
<1>2. /\ command["trap"] = "none" /\ command'["trap"] = "recording"
      /\ \A d \in Commands \ {"trap"} : command'[d] = command[d]
  BY DEF StopTypeOK, SignalInv
<1>3. UNCHANGED <<entry, stopFile, manager, stopping, stopped, op, trouble, live>>
  OBVIOUS
<1>4. CommandInv'
  <2>1. (Still => Still') /\ (running' => running)
    BY <1>3 DEF Still, Resuming
  <2> QED BY <1>2, <1>3, <2>1 DEF CommandInv
<1>5. ServerInv'
  BY <1>2, <1>3 DEF ServerInv
<1>6. ShellInv'
  BY <1>2, <1>3 DEF ShellInv
<1>7. SignalInv'
  BY <1>2, <1>3 DEF SignalInv
<1>8. LeftStopped'
  BY <1>2, <1>3 DEF LeftStopped
<1> QED BY <1>1, <1>4, <1>5, <1>6, <1>7, <1>8

\* The trap's command has ended.
LEMMA TrapEndsStops ==
    ASSUME StopInv, TrapEnds
    PROVE  StopInv'
<1> USE DEF StopInv, TrapEnds, Alive, Steps, shell, server, lockVars, Runs, running, Commands
<1>1. StopTypeOK'
  BY DEF StopTypeOK
<1>2. CommandInv' /\ ServerInv'
  BY DEF CommandInv, ServerInv, Still, Resuming
<1>3. ShellInv' /\ SignalInv' /\ LeftStopped'
  BY DEF CommandInv, ShellInv, SignalInv, LeftStopped
<1> QED BY <1>1, <1>2, <1>3

\* The manager listens.
LEMMA ManagerListensStops ==
    ASSUME StopInv, ManagerListens
    PROVE  StopInv'
<1> USE DEF StopInv, ManagerListens, Alive, Steps, shell, server, lockVars, Runs, running, Commands
<1>1. StopTypeOK'
  BY DEF StopTypeOK
<1>2. CommandInv' /\ ServerInv'
  BY DEF CommandInv, ServerInv, Still, Resuming
<1>3. ShellInv' /\ SignalInv' /\ LeftStopped'
  BY DEF ShellInv, SignalInv, LeftStopped
<1> QED BY <1>1, <1>2, <1>3

\* It looks for a recorded stop before it resumes.
LEMMA LookForRecordStops ==
    ASSUME StopInv, LookForRecord
    PROVE  StopInv'
<1> USE DEF StopInv, LookForRecord, honorRecordedStop, Alive, Steps, shell, server, lockVars, Runs, running, Commands
<1>1. StopTypeOK'
  BY DEF StopTypeOK
<1>2. CommandInv' /\ ServerInv'
  BY Zenon DEF CommandInv, ServerInv, Still, Resuming
<1>3. ShellInv' /\ SignalInv' /\ LeftStopped'
  BY DEF ShellInv, SignalInv, LeftStopped
<1> QED BY <1>1, <1>2, <1>3

\* It admits the resume.
LEMMA AdmitResumeStops ==
    ASSUME StopInv, AdmitResume
    PROVE  StopInv'
<1> USE DEF StopInv, AdmitResume, Alive, Steps, shell, server, lockVars, Runs, running, Commands
<1>1. StopTypeOK'
  BY DEF StopTypeOK
<1>2. CommandInv' /\ ServerInv'
  BY DEF CommandInv, ServerInv, Still, Resuming
<1>3. ShellInv' /\ SignalInv' /\ LeftStopped'
  BY DEF ShellInv, SignalInv, LeftStopped
<1> QED BY <1>1, <1>2, <1>3

\* The resume may activate when no stop is known.
LEMMA ResumeActivatesStops ==
    ASSUME StopInv, ResumeActivates
    PROVE  StopInv'
<1> USE DEF StopInv, ResumeActivates, honorRecordedStop, MayActivate, Alive, Steps, shell, server, lockVars, Runs,
            running, Commands
<1>1. StopTypeOK'
  BY DEF StopTypeOK
<1>2. CommandInv' /\ ServerInv'
  BY Zenon DEF CommandInv, ServerInv, Still, Resuming
<1>3. ShellInv' /\ SignalInv' /\ LeftStopped'
  BY DEF ShellInv, SignalInv, LeftStopped
<1> QED BY <1>1, <1>2, <1>3

\* The resume's start of CUBRID begins.
LEMMA ResumeStartsStops ==
    ASSUME StopInv, ResumeStarts
    PROVE  StopInv'
<1> USE DEF StopInv, ResumeStarts, Alive, Steps, shell, server, lockVars, Runs, running, Commands
<1>1. StopTypeOK'
  BY DEF StopTypeOK
<1>2. CommandInv' /\ ServerInv'
  BY DEF CommandInv, ServerInv, Still, Resuming
<1>3. ShellInv' /\ SignalInv' /\ LeftStopped'
  BY DEF ShellInv, SignalInv, LeftStopped
<1> QED BY <1>1, <1>2, <1>3

\* The resume's start of CUBRID ends.
LEMMA ResumeStartEndsStops ==
    ASSUME StopInv, ResumeStartEnds
    PROVE  StopInv'
<1> USE DEF StopInv, ResumeStartEnds, Alive, Steps, shell, server, lockVars, Runs, running, Commands
<1>1. StopTypeOK'
  BY DEF StopTypeOK
<1>2. CommandInv' /\ ServerInv'
  BY DEF CommandInv, ServerInv, Still, Resuming
<1>3. ShellInv' /\ SignalInv' /\ LeftStopped'
  BY DEF ShellInv, SignalInv, LeftStopped
<1> QED BY <1>1, <1>2, <1>3

\* The resume ends.
LEMMA ResumeEndsStops ==
    ASSUME StopInv, ResumeEnds
    PROVE  StopInv'
<1> USE DEF StopInv, ResumeEnds, Alive, Steps, shell, server, lockVars, Runs, running, Commands
<1>1. StopTypeOK'
  BY DEF StopTypeOK
<1>2. CommandInv' /\ ServerInv'
  BY DEF CommandInv, ServerInv, Still, Resuming
<1>3. ShellInv' /\ SignalInv' /\ LeftStopped'
  BY DEF ShellInv, SignalInv, LeftStopped
<1> QED BY <1>1, <1>2, <1>3

\* The manager ends after a termination.
LEMMA ManagerTerminatesStops ==
    ASSUME StopInv, ManagerTerminates
    PROVE  StopInv'
<1> USE DEF StopInv, ManagerTerminates, ManagerEnds, Alive, Steps, shell, server, lockVars, Runs, running, Commands
<1>1. StopTypeOK'
  BY DEF StopTypeOK
<1>2. CommandInv' /\ ServerInv'
  BY DEF CommandInv, ServerInv, Still, Resuming
<1>3. ShellInv' /\ SignalInv' /\ LeftStopped'
  BY DEF ShellInv, SignalInv, LeftStopped
<1> QED BY <1>1, <1>2, <1>3

\* The manager ends by itself.
LEMMA ManagerCrashesStops ==
    ASSUME StopInv, ManagerCrashes
    PROVE  StopInv'
<1> USE DEF StopInv, ManagerCrashes, ManagerEnds, Goes, Alive, Steps, shell, server, lockVars, Runs, running, Commands
<1>1. StopTypeOK'
  BY DEF StopTypeOK
<1>2. CommandInv' /\ ServerInv'
  BY DEF CommandInv, ServerInv
<1>3. ShellInv' /\ SignalInv' /\ LeftStopped'
  BY DEF ShellInv, SignalInv, LeftStopped
<1> QED BY <1>1, <1>2, <1>3

\* The watchdog ends the manager.
LEMMA WatchdogDecidesStops ==
    ASSUME StopInv, WatchdogDecides
    PROVE  StopInv'
<1>1. /\ UNCHANGED <<entry, signal, terminating, started, stopFile, command, stopping, stopped, trouble>>
      /\ manager = "serving"
  BY DEF WatchdogDecides, shell, server
<1>2. ~StopIntended => ~\E o \in Ops : op[o] = "startcmd"
  BY DEF StopIntended
<1>3. live' = live
  BY <1>1, <1>2, Zenon DEF WatchdogDecides, ManagerEnds, lockVars
<1>4. CASE UNCHANGED <<manager, op>>
  BY <1>1, <1>3, <1>4, RestStops DEF running
<1>5. CASE manager' = "ended" /\ op' = [o \in Ops |-> "none"]
  <2>1. Still'
    BY <1>5 DEF Still, Resuming
  <2>2. StopTypeOK'
    BY <1>1, <1>5 DEF StopInv, StopTypeOK
  <2>3. CommandInv'
    BY <1>1, <1>3, <2>1 DEF StopInv, CommandInv, running
  <2>4. ServerInv'
    BY <1>1, <1>5 DEF StopInv, ServerInv
  <2>5. ShellInv'
    BY <1>1, <1>3, <1>5 DEF StopInv, ShellInv, running
  <2>6. SignalInv' /\ LeftStopped'
    BY <1>1, <1>3 DEF StopInv, SignalInv, LeftStopped, running
  <2> QED BY <2>2, <2>3, <2>4, <2>5, <2>6 DEF StopInv
<1> QED BY <1>4, <1>5, Zenon DEF WatchdogDecides, ManagerEnds, server

\* The hook's command begins.
LEMMA PreStopStops ==
    ASSUME StopInv, PreStop
    PROVE  StopInv'
<1> USE DEF StopInv, PreStop, Alive, Steps, shell, server, lockVars, Runs, running, Commands
<1>1. StopTypeOK'
  BY DEF StopTypeOK
<1>2. /\ command["hook"] = "none" /\ command'["hook"] = "recording"
      /\ \A d \in Commands \ {"hook"} : command'[d] = command[d]
  BY DEF StopTypeOK
<1>3. UNCHANGED <<entry, stopFile, manager, stopping, stopped, op, trouble, live>>
  OBVIOUS
<1>4. CommandInv'
  <2>1. (Still => Still') /\ (running' => running)
    BY <1>3 DEF Still, Resuming
  <2> QED BY <1>2, <1>3, <2>1 DEF CommandInv
<1>5. ServerInv'
  BY <1>2, <1>3 DEF ServerInv
<1>6. ShellInv'
  BY <1>2, <1>3 DEF ShellInv
<1>7. SignalInv'
  BY <1>2, <1>3 DEF SignalInv
<1>8. LeftStopped'
  BY <1>2, <1>3 DEF LeftStopped
<1> QED BY <1>1, <1>4, <1>5, <1>6, <1>7, <1>8

\* The container is asked to end.
LEMMA TerminateStops ==
    ASSUME StopInv, Terminate
    PROVE  StopInv'
<1> USE DEF StopInv, Terminate, Alive, Steps, shell, server, lockVars, Runs, running, Commands
<1>1. StopTypeOK'
  BY DEF StopTypeOK
<1>2. CommandInv' /\ ServerInv'
  BY DEF CommandInv, ServerInv, Still, Resuming
<1>3. ShellInv' /\ SignalInv' /\ LeftStopped'
  BY DEF ShellInv, SignalInv, LeftStopped
<1> QED BY <1>1, <1>2, <1>3

\* It is killed.
LEMMA KillStops ==
    ASSUME StopInv, Kill
    PROVE  StopInv'
<1> USE DEF StopInv, Kill, Goes, Alive, Steps, shell, server, lockVars, Runs, running, Commands
<1>1. StopTypeOK'
  BY DEF StopTypeOK
<1>2. CommandInv' /\ ServerInv'
  BY DEF CommandInv, ServerInv
<1>3. ShellInv' /\ SignalInv' /\ LeftStopped'
  BY DEF ShellInv, SignalInv, LeftStopped
<1> QED BY <1>1, <1>2, <1>3

\* It has gone.
LEMMA ContainerGoneStops ==
    ASSUME StopInv, ContainerGone
    PROVE  StopInv'
<1> USE DEF StopInv, ContainerGone, EndContainer, Alive, Steps, shell, server, lockVars, Runs, running, Commands
<1>1. StopTypeOK'
  BY Zenon DEF StopTypeOK
<1>2. CommandInv' /\ ServerInv'
  BY DEF CommandInv, ServerInv
<1>3. ShellInv' /\ SignalInv' /\ LeftStopped'
  BY DEF ShellInv, SignalInv, LeftStopped
<1> QED BY <1>1, <1>2, <1>3

\* An operation is admitted when no stop is announced.
LEMMA AdmitStops ==
    ASSUME StopInv, NEW o \in Ops, Admit(o)
    PROVE  StopInv'
<1> USE DEF StopInv, Admit, Alive, Steps, shell, server, lockVars, Runs, running, Commands
<1>1. StopTypeOK'
  BY DEF StopTypeOK
<1>2. CommandInv' /\ ServerInv'
  BY DEF CommandInv, ServerInv, Still, Listening, Starting
<1>3. ShellInv' /\ SignalInv' /\ LeftStopped'
  BY DEF ShellInv, SignalInv, LeftStopped
<1> QED BY <1>1, <1>2, <1>3

\* An operation may activate when no stop is known.
LEMMA ActivateStops ==
    ASSUME StopInv, NEW o \in Ops, Activate(o)
    PROVE  StopInv'
<1> USE DEF StopInv, Activate, honorRecordedStop, MayActivate, Alive, Steps, shell, server, lockVars, Runs,
            running, Commands
<1>1. StopTypeOK'
  BY DEF StopTypeOK
<1>2. CommandInv' /\ ServerInv'
  BY Zenon DEF CommandInv, ServerInv, Still
<1>3. ShellInv' /\ SignalInv' /\ LeftStopped'
  BY DEF ShellInv, SignalInv, LeftStopped
<1> QED BY <1>1, <1>2, <1>3

\* An operation's start of CUBRID begins.
LEMMA OpStartsStops ==
    ASSUME StopInv, NEW o \in Ops, OpStarts(o)
    PROVE  StopInv'
<1> USE DEF StopInv, OpStarts, Alive, Steps, shell, server, lockVars, Runs, running, Commands
<1>1. StopTypeOK'
  BY DEF StopTypeOK
<1>2. CommandInv' /\ ServerInv'
  BY DEF CommandInv, ServerInv, Still
<1>3. ShellInv' /\ SignalInv' /\ LeftStopped'
  BY DEF ShellInv, SignalInv, LeftStopped
<1> QED BY <1>1, <1>2, <1>3

\* An operation's start of CUBRID ends.
LEMMA OpStartEndsStops ==
    ASSUME StopInv, NEW o \in Ops, OpStartEnds(o)
    PROVE  StopInv'
<1> USE DEF StopInv, OpStartEnds, Alive, Steps, shell, server, lockVars, Runs, running, Commands
<1>1. StopTypeOK'
  BY DEF StopTypeOK
<1>2. CommandInv' /\ ServerInv'
  BY DEF CommandInv, ServerInv, Still
<1>3. ShellInv' /\ SignalInv' /\ LeftStopped'
  BY DEF ServerInv, ShellInv, SignalInv, LeftStopped
<1> QED BY <1>1, <1>2, <1>3

\* An operation ends.
LEMMA OpEndsStops ==
    ASSUME StopInv, NEW o \in Ops, OpEnds(o)
    PROVE  StopInv'
<1> USE DEF StopInv, OpEnds, Alive, Steps, shell, server, lockVars, Runs, running, Commands
<1>1. StopTypeOK'
  BY DEF StopTypeOK
<1>2. CommandInv' /\ ServerInv'
  BY DEF CommandInv, ServerInv, Still
<1>3. ShellInv' /\ SignalInv' /\ LeftStopped'
  BY DEF ShellInv, SignalInv, LeftStopped
<1> QED BY <1>1, <1>2, <1>3

\* A shutdown command comes to its next state, which must be one it may be in.
LEMMA CommandMoves ==
    ASSUME StopInv, NEW c \in Commands, command[c] \notin {"none", "ok", "failed"},
           NEW to \in {"asking", "entering", "queued", "awaiting", "stopping", "unsure", "self", "ok", "failed"},
           command' = [command EXCEPT ![c] = to],
           UNCHANGED <<entry, signal, terminating, started, manager, op>>,
           stopFile' \in BOOLEAN, stopping' \in BOOLEAN, trouble' \in BOOLEAN, stopped' \in BOOLEAN,
           stopFile => stopFile', stopping => stopping', trouble => trouble', running' => running,
           stopped' => stopped \/ to = "ok",
           ~trouble' => stopFile',
           to \in {"failed", "unsure"} => trouble',
           to \in {"queued", "awaiting", "stopping", "unsure"} => stopping',
           to \in {"self", "stopping", "ok"} /\ ~trouble' => Still',
           to = "ok" /\ ~trouble' => ~running'
    PROVE  StopInv'
<1> USE DEF StopInv
<1>1. command'[c] = to /\ \A d \in Commands \ {c} : command'[d] = command[d]
  BY DEF StopTypeOK
<1>2. StopTypeOK'
  BY DEF StopTypeOK
<1>3. \A d \in Commands : command[d] = "ok" => command'[d] = "ok"
  BY <1>1
<1>4. ServerInv'
  BY <1>1, <1>3 DEF ServerInv
<1>5. Still => Still'
  BY DEF Still, Resuming
<1>6. CommandInv'
  <2> SUFFICES ASSUME NEW d \in Commands
               PROVE  /\ command'[d] \notin {"none", "recording"} /\ ~trouble' => stopFile'
                      /\ command'[d] \in {"failed", "unsure"} => trouble'
                      /\ command'[d] \in {"queued", "awaiting", "stopping", "unsure"} => stopping'
                      /\ command'[d] \in {"self", "stopping", "ok"} /\ ~trouble' => Still'
                      /\ command'[d] = "ok" /\ ~trouble' /\ (manager' # "off" \/ entry' = "launching") => ~running'
    BY DEF CommandInv
  <2>1. CASE d = c
    BY <1>1, <2>1
  <2>2. CASE d # c
    BY <1>1, <1>5, <2>2 DEF CommandInv
  <2> QED BY <2>1, <2>2
<1>7. ShellInv'
  <2>1. command["final"] # command'["final"] => c = "final"
    BY <1>1 DEF Commands
  <2> QED BY <1>1, <2>1 DEF ShellInv
<1>8. SignalInv'
  <2>1. \A d \in {"trap", "final"} : command[d] # command'[d] => c = d
    BY <1>1 DEF Commands
  <2> QED BY <1>1, <1>3, <2>1 DEF SignalInv
<1>9. LeftStopped'
  <2>1. command["hook"] # command'["hook"] => c = "hook"
    BY <1>1 DEF Commands
  <2> QED BY <1>1, <2>1 DEF LeftStopped
<1> QED BY <1>2, <1>4, <1>6, <1>7, <1>8, <1>9

\* Each step of a shutdown command is such a move.
LEMMA CommandStops ==
    ASSUME StopInv, NEW c \in Commands, Command(c)
    PROVE  StopInv'
<1> USE DEF shell, server
<1>0. StopTypeOK /\ CommandInv /\ ServerInv
  BY DEF StopInv
<1>1. CASE RecordStopRequest(c)
  <2>1. /\ command[c] = "recording" /\ command' = [command EXCEPT ![c] = "asking"]
        /\ UNCHANGED <<entry, signal, terminating, started, manager, stopping, stopped, op, live>>
        /\ \/ stopFile' = TRUE /\ trouble' = trouble
           \/ stopFile' = stopFile /\ trouble' = TRUE
    BY <1>1 DEF RecordStopRequest, Goes, lockVars
  <2> QED BY <1>0, <2>1, CommandMoves, Zenon DEF StopTypeOK, running
<1>2. CASE RequestShutdown(c) \/ ManagerLost(c)
  <2>1. /\ command[c] \in {"asking", "entering", "queued", "awaiting", "stopping", "unsure"}
        /\ UNCHANGED <<entry, signal, terminating, started, stopFile, manager, stopping, stopped, op, trouble, live>>
        /\ \/ command' = [command EXCEPT ![c] = "entering"]
           \/ command' = [command EXCEPT ![c] = "self"] /\ ~Listening
    BY <1>2 DEF RequestShutdown, ManagerLost, lockVars
  <2>2. ~trouble => stopFile
    BY <1>0, <2>1 DEF CommandInv
  <2>3. ~Listening /\ ~trouble => Still'
    BY <1>0, <2>1, <2>2 DEF Still, Listening, Resuming, ServerInv
  <2>4. CASE command' = [command EXCEPT ![c] = "entering"]
    BY <1>0, <2>1, <2>2, <2>4, CommandMoves, Zenon DEF StopTypeOK, running
  <2>5. CASE command' = [command EXCEPT ![c] = "self"] /\ ~Listening
    BY <1>0, <2>1, <2>2, <2>3, <2>5, CommandMoves, Zenon DEF StopTypeOK, running
  <2> QED BY <2>1, <2>4, <2>5
<1>3. CASE StopEnters(c)
  <2>1. /\ command[c] = "entering" /\ command' = [command EXCEPT ![c] = "queued"] /\ stopping' = TRUE
        /\ UNCHANGED <<entry, signal, terminating, started, stopFile, manager, stopped, op, trouble, live>>
    BY <1>3 DEF StopEnters, lockVars
  <2>2. ~trouble => stopFile
    BY <1>0, <2>1 DEF CommandInv
  <2> QED BY <1>0, <2>1, <2>2, CommandMoves, Zenon DEF StopTypeOK, running
<1>4. CASE StopLocks(c)
  <2>1. /\ command[c] = "queued" /\ Listening
        /\ command' = [command EXCEPT ![c] = IF stopped THEN "ok" ELSE "awaiting"]
        /\ UNCHANGED <<entry, signal, terminating, started, stopFile, manager, stopping, stopped, op, trouble, live>>
    BY <1>4 DEF StopLocks, lockVars
  <2>2. (~trouble => stopFile) /\ stopping
    BY <1>0, <2>1 DEF CommandInv
  <2>3. CASE stopped
    <3>1. ~trouble => Still /\ ~running
      BY <1>0, <2>1, <2>3 DEF ServerInv, CommandInv, Listening
    <3>2. ~trouble => Still' /\ ~running'
      BY <2>1, <3>1 DEF Still, Resuming, running
    <3> QED BY <1>0, <2>1, <2>2, <2>3, <3>2, CommandMoves, Zenon DEF StopTypeOK, running
  <2>4. CASE ~stopped
    BY <1>0, <2>1, <2>2, <2>4, CommandMoves, Zenon DEF StopTypeOK, running
  <2> QED BY <2>3, <2>4
<1>5. CASE StopAwaits(c)
  <2>1. /\ command[c] = "awaiting" /\ Listening
        /\ \/ /\ Admitted = {} /\ ~Resuming /\ trouble' = trouble
              /\ command' = [command EXCEPT ![c] = "stopping"]
           \/ trouble' = TRUE /\ command' = [command EXCEPT ![c] = "unsure"]
        /\ UNCHANGED <<entry, signal, terminating, started, stopFile, manager, stopping, stopped, op, live>>
    BY <1>5 DEF StopAwaits, Goes, lockVars
  <2>2. (~trouble => stopFile) /\ stopping
    BY <1>0, <2>1 DEF CommandInv
  <2>3. Admitted = {} /\ ~Resuming /\ ~trouble => Still'
    BY <2>1, <2>2 DEF Still, Admitted, Resuming
  <2>4. CASE trouble' = TRUE /\ command' = [command EXCEPT ![c] = "unsure"]
    BY <1>0, <2>1, <2>2, <2>4, CommandMoves, Zenon DEF StopTypeOK, running
  <2>5. CASE Admitted = {} /\ ~Resuming /\ trouble' = trouble /\ command' = [command EXCEPT ![c] = "stopping"]
    BY <1>0, <2>1, <2>2, <2>3, <2>5, CommandMoves, Zenon DEF StopTypeOK, running
  <2> QED BY <2>1, <2>4, <2>5, Zenon
<1>6. CASE StopItself(c) \/ StopShutsDown(c)
  <2>1. /\ command[c] \in {"self", "stopping", "unsure"}
        /\ UNCHANGED <<entry, signal, terminating, started, stopFile, manager, stopping, op>>
        /\ \/ /\ command[c] # "unsure" /\ command' = [command EXCEPT ![c] = "ok"]
              /\ trouble' = trouble /\ ~running'
           \/ /\ command' = [command EXCEPT ![c] = "failed"]
              /\ (running' => running) /\ (trouble' = TRUE \/ (command[c] = "unsure" /\ trouble' = trouble))
    BY <1>6 DEF StopItself, StopShutsDown, Shutdown, Goes, Runs, running, lockVars
  <2>2. stopped' = stopped \/ stopped' = (command'[c] = "ok")
    BY <1>6, Zenon DEF StopItself, StopShutsDown
  <2>3. (~trouble => stopFile) /\ (command[c] = "unsure" => trouble)
    BY <1>0, <2>1 DEF CommandInv
  <2>4. CASE /\ command[c] # "unsure" /\ command' = [command EXCEPT ![c] = "ok"]
             /\ trouble' = trouble /\ ~running'
    <3>1. ~trouble => Still'
      BY <1>0, <2>1, <2>4 DEF CommandInv, Still, Resuming
    <3>2. stopped' \in BOOLEAN
      BY <1>0, <2>2, Zenon DEF StopTypeOK
    <3> QED BY <1>0, <2>1, <2>3, <2>4, <3>1, <3>2, CommandMoves, Zenon DEF StopTypeOK
  <2>5. CASE /\ command' = [command EXCEPT ![c] = "failed"]
             /\ (running' => running) /\ (trouble' = TRUE \/ (command[c] = "unsure" /\ trouble' = trouble))
    <3>1. trouble' = TRUE
      BY <1>0, <2>3, <2>5 DEF StopTypeOK
    <3>2. command'[c] = "failed"
      BY <1>0, <2>5 DEF StopTypeOK
    <3>3. stopped' \in BOOLEAN
      BY <1>0, <2>2, Zenon DEF StopTypeOK
    <3>4. stopped' => stopped
      BY <2>2, <3>2, Zenon
    <3> QED BY <1>0, <2>1, <2>5, <3>1, <3>3, <3>4, CommandMoves, Zenon DEF StopTypeOK
  <2> QED BY <2>1, <2>4, <2>5, Zenon
<1> QED BY <1>1, <1>2, <1>3, <1>4, <1>5, <1>6 DEF Command

\* Nothing runs and nothing was asked for at first.
LEMMA StopInvInit == Init => StopInv
<1> SUFFICES ASSUME Init PROVE StopInv
  OBVIOUS
<1>1. ~running
  BY ThisAssumption DEF Init, LockInit, running
<1>2. StopTypeOK /\ ServerInv /\ SignalInv
  BY Zenon DEF Init, StopTypeOK, ServerInv, SignalInv, Commands
<1>3. CommandInv /\ ShellInv /\ LeftStopped
  BY <1>1 DEF Init, CommandInv, ShellInv, LeftStopped
<1> QED BY <1>2, <1>3 DEF StopInv

\* Every step keeps the invariant.
LEMMA StopInvStep == StopInv /\ [Next]_vars => StopInv'
<1> SUFFICES ASSUME StopInv, [Next]_vars PROVE StopInv'
  OBVIOUS
<1>1. CASE UNCHANGED vars
  BY <1>1, RestStops DEF vars, lockVars, running
<1>2. CASE Entrypoint
  BY <1>2, OthersStop, TakeMemberLockStops, DecideStops, CreateEndsStops, StartCheckStops, StartBeginsStops,
     StartEndsStops, FinalCheckStops, FinalStopEndsStops, LeaveStops, LaunchStops, RecordPidStops, ManagerGoneStops,
     TrapStops, TrapEndsStops DEF Entrypoint
<1>3. CASE Manager \/ ManagerCrashes
  BY <1>3, ManagerListensStops, LookForRecordStops, AdmitResumeStops, ResumeActivatesStops, ResumeStartsStops,
     ResumeStartEndsStops, ResumeEndsStops, ManagerTerminatesStops, ManagerCrashesStops DEF Manager
<1>4. ASSUME NEW o \in Ops, Admit(o) \/ Operation(o) PROVE StopInv'
  BY <1>4, AdmitStops, ActivateStops, OpStartsStops, OpStartEndsStops, OpEndsStops DEF Operation
<1> QED
  BY <1>1, <1>2, <1>3, <1>4, CommandStops, OthersStop, WatchdogDecidesStops, PreStopStops, TerminateStops, KillStops,
     ContainerGoneStops DEF Next, Watchdog

\* RecordStopRequest, Server.Stop and ResumeAndServe: after a shutdown command
\* that succeeded, CUBRID does not run again in a container whose manager was
\* launched, whatever the entrypoint, the operations and other commands do, when
\* nothing failed.
THEOREM StoppedForGood == Spec => []StopIsFinal
<1>1. StopInv => StopIsFinal
  BY DEF StopInv, CommandInv, StopIsFinal
<1> QED BY <1>1, StopInvInit, StopInvStep, PTL DEF Spec

\* terminate and the entrypoint's last check: a container that was asked to end
\* exits with CUBRID stopped, when nothing failed.
THEOREM ExitsStopped == Spec => []LeftStopped
<1>1. StopInv => LeftStopped
  BY DEF StopInv
<1> QED BY <1>1, StopInvInit, StopInvStep, PTL DEF Spec
=============================================================================
