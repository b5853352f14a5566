----------------------------- MODULE MemberStop -----------------------------
(***************************************************************************)
(* The life of one container of a member, from the entrypoint's first      *)
(* command to its exit, and every way it is stopped: the preStop hook, a   *)
(* termination signal and the entrypoint's own last check.  Each of them   *)
(* runs "instance-manager shutdown", which records the stop in a file and  *)
(* then asks the manager, or stops CUBRID itself when no manager listens   *)
(* (cmd/instance-manager/main.go, internal/instancemanager/operations.go,  *)
(* build/instance-manager/entrypoint.sh).  A watchdog ends the manager, and *)
(* so the container, when CUBRID is gone without a request (watchdog.go).   *)
(*                                                                         *)
(* The entrypoint, the shutdown commands, the manager's own start, its     *)
(* operations and its Stop calls interleave freely.  A command that starts *)
(* or stops CUBRID takes effect when it returns, and one that was killed   *)
(* may have taken effect or not.                                           *)
(***************************************************************************)
EXTENDS MemberLock, FiniteSets

CONSTANTS
    This,     \* the container, one of those of the member
    Ops,      \* mutating operations the manager may run at a time
    Troubles  \* what may go wrong: see AllTroubles

AllTroubles == {"unrecorded",  \* the stop file cannot be written
                "stopFails",   \* a command that stops CUBRID fails
                "timeout",     \* a stop's wait for the operations runs out
                "crash",       \* the manager's process ends by itself
                "kill"}        \* the grace period ends before the container does

ASSUME ThisAssumption == This \in Containers \ Legacy
ASSUME TroublesAssumption == Troubles \subseteq AllTroubles

\* The processes that run "instance-manager shutdown".
Commands == {"hook", "trap", "final"}

VARIABLES
    entry,        \* what the entrypoint does
    signal,       \* the termination signal: "none", "pending", "trapping", "handled"
    terminating,  \* the entrypoint's flag of that name
    started,      \* the entrypoint's flag of that name
    imPid,        \* the entrypoint has recorded the manager's PID
    stopFile,     \* a stop is recorded
    command,      \* what each shutdown command does
    manager,      \* what the manager's main goroutine does
    told,         \* the manager has received a termination signal
    stopping,     \* Server.stopping; endOps has been called
    stopped,      \* Server.stopped
    op,           \* what each operation of the manager does
    armed,        \* Watchdog.armed
    missing,      \* Watchdog.missingSince: "no", "seen", or "over" when it is longer ago than Grace
    looked,       \* the watchdog has missed a process and comes to ask whether that is intended
    trouble       \* history: something went wrong

vars == <<entry, signal, terminating, started, imPid, stopFile, command, manager, told, stopping,
          stopped, op, armed, missing, looked, trouble, lockVars>>

shell  == <<entry, signal, terminating, started, imPid>>
watchdog == <<armed, missing, looked>>
server == <<manager, told, stopping, stopped, op>>

\* Where the manager accepts connections, and where it still starts up.
Listening == manager \in {"listening", "reclaiming", "resuming", "cleared", "startcmd", "serving"}
Starting  == manager \in {"listening", "reclaiming", "resuming", "cleared", "startcmd"}
Resuming  == manager \in {"resuming", "cleared", "startcmd"}

running == This \in live

\* CUBRID comes to run in this container, or not.
Runs(is) ==
    /\ live' = IF is THEN live \cup {This} ELSE live \ {This}
    /\ UNCHANGED <<stage, stale>>

\* The operations that s.ops counts.
Admitted == {o \in Ops : op[o] # "none"}

Init ==
    /\ entry = "locking"
    /\ signal = "none"
    /\ terminating = FALSE
    /\ started = FALSE
    /\ imPid = FALSE
    /\ stopFile = FALSE
    /\ command = [c \in Commands |-> "none"]
    /\ manager = "off"
    /\ told = FALSE
    /\ stopping = FALSE
    /\ stopped = FALSE
    /\ op = [o \in Ops |-> "none"]
    /\ armed = FALSE /\ missing = "no" /\ looked = FALSE
    /\ trouble = FALSE
    /\ LockInit

Goes(what) == what \in Troubles /\ trouble' = TRUE

-----------------------------------------------------------------------------
(* The entrypoint.  A pending signal is handled before its next command;   *)
(* a command that runs in the foreground returns first.                    *)

Alive == entry \notin {"exited", "gone"}
Steps == Alive /\ signal \notin {"pending", "trapping"}

StopRecorded == terminating \/ stopFile

\* take_member_lock opens the lock file; the wait then runs beside the shell.
OpenMemberLock ==
    /\ Steps
    /\ entry = "locking"
    /\ OpenLock(This)
    /\ UNCHANGED <<shell, stopFile, command, server, watchdog, trouble>>

WaitForVolume ==
    /\ Alive
    /\ entry = "locking"
    /\ AcquireMemberLock(This) \/ WaitVolumeFree(This)
    /\ UNCHANGED <<shell, stopFile, command, server, watchdog, trouble>>

\* Mutant of TakeMemberLock: what the wait returned is not looked at.
TakeMemberLockAnyway ==
    /\ Steps
    /\ entry = "locking"
    /\ \/ terminating /\ entry' = "exited"
       \/ ~terminating /\ (This \in stale \/ stage[This] = "owner") /\ entry' = "deciding"
    /\ UNCHANGED <<signal, terminating, started, imPid, stopFile, command, server, lockVars, watchdog, trouble>>

\* take_member_lock returns with the lock.  The container ends when it was
\* terminated, or when the file it opened was replaced.
TakeMemberLock ==
    /\ Steps
    /\ entry = "locking"
    /\ \/ (terminating \/ (This \in stale /\ NotHeld(This))) /\ entry' = "exited"
       \/ ~terminating /\ stage[This] = "owner" /\ entry' = "deciding"
    /\ UNCHANGED <<signal, terminating, started, imPid, stopFile, command, server, lockVars, watchdog, trouble>>

\* The main decision: nothing is started, a database is created first, or
\* start_cubrid comes to its check at once.
Decide ==
    /\ Steps
    /\ entry = "deciding"
    /\ entry' \in {"after", "creating", "starting"}
    /\ UNCHANGED <<signal, terminating, started, imPid, stopFile, command, server, lockVars, watchdog, trouble>>

\* createdb has returned; a failed one starts nothing.
CreateEnds ==
    /\ entry = "creating"
    /\ entry' \in {"after", "starting"}
    /\ UNCHANGED <<signal, terminating, started, imPid, stopFile, command, server, lockVars, watchdog, trouble>>

\* start_cubrid: stop_recorded, and the flag that something is started.
StartCheck ==
    /\ Steps
    /\ entry = "starting"
    /\ terminating' = StopRecorded
    /\ started' = (started \/ ~StopRecorded)
    /\ entry' = IF StopRecorded THEN "after" ELSE "cleared"
    /\ UNCHANGED <<signal, imPid, stopFile, command, server, lockVars, watchdog, trouble>>

StartBegins ==
    /\ Steps
    /\ entry = "cleared"
    /\ entry' = "startcmd"
    /\ UNCHANGED <<signal, terminating, started, imPid, stopFile, command, server, lockVars, watchdog, trouble>>

\* The start returns; one that failed ends the script (set -e).
StartEnds ==
    /\ entry = "startcmd"
    /\ \/ Runs(TRUE) /\ entry' = "after"
       \/ UNCHANGED lockVars /\ entry' = "leaving"
    /\ UNCHANGED <<signal, terminating, started, imPid, stopFile, command, server, watchdog, trouble>>

\* Mutant of FinalCheck: what was started since the last check is left running.
FinalCheckUnstopped ==
    /\ Steps
    /\ entry = "after"
    /\ terminating' = StopRecorded
    /\ entry' = IF StopRecorded THEN "exited" ELSE "launching"
    /\ UNCHANGED <<signal, started, imPid, stopFile, command, server, lockVars, watchdog, trouble>>

\* The last check before the manager is launched.
FinalCheck ==
    /\ Steps
    /\ entry = "after"
    /\ terminating' = StopRecorded
    /\ \/ /\ ~StopRecorded
          /\ entry' = "launching" /\ command' = command
       \/ /\ StopRecorded /\ started
          /\ entry' = "finalstop" /\ command' = [command EXCEPT !["final"] = "recording"]
       \/ /\ StopRecorded /\ ~started
          /\ entry' = "exited" /\ command' = command
    /\ UNCHANGED <<signal, started, imPid, stopFile, server, lockVars, watchdog, trouble>>

FinalStopEnds ==
    /\ entry = "finalstop"
    /\ command["final"] \in {"ok", "failed"}
    /\ entry' = "leaving"
    /\ UNCHANGED <<signal, terminating, started, imPid, stopFile, command, server, lockVars, watchdog, trouble>>

\* The script's exit, after the trap of a signal that is pending.
Leave ==
    /\ Steps
    /\ entry = "leaving"
    /\ entry' = "exited"
    /\ UNCHANGED <<signal, terminating, started, imPid, stopFile, command, server, lockVars, watchdog, trouble>>

Launch ==
    /\ Steps
    /\ entry = "launching"
    /\ entry' = "launched"
    /\ manager' = "started"
    /\ UNCHANGED <<signal, terminating, started, imPid, stopFile, command, told, stopping, stopped, op, lockVars, watchdog, trouble>>

\* Mutant of RecordPid: a termination handled before is not passed on.
RecordPidOnly ==
    /\ Steps
    /\ entry = "launched"
    /\ imPid' = TRUE
    /\ entry' = "waiting"
    /\ UNCHANGED <<signal, terminating, started, stopFile, command, server, lockVars, watchdog, trouble>>

\* im_pid is recorded, and a termination handled before that is passed on.
RecordPid ==
    /\ Steps
    /\ entry = "launched"
    /\ imPid' = TRUE
    /\ entry' = "waiting"
    /\ told' = (told \/ terminating)
    /\ UNCHANGED <<signal, terminating, started, stopFile, command, manager, stopping, stopped, op, lockVars, watchdog, trouble>>

\* wait returns when the manager has ended.
ManagerGone ==
    /\ Steps
    /\ entry = "waiting"
    /\ manager = "ended"
    /\ entry' = "exited"
    /\ UNCHANGED <<signal, terminating, started, imPid, stopFile, command, server, lockVars, watchdog, trouble>>

\* terminate: the trap runs the shutdown command, then signals the manager.
Trap ==
    /\ Alive
    /\ signal = "pending"
    /\ entry \notin {"creating", "startcmd", "finalstop"}
    /\ signal' = "trapping"
    /\ terminating' = TRUE
    /\ command' = [command EXCEPT !["trap"] = "recording"]
    /\ UNCHANGED <<entry, started, imPid, stopFile, server, lockVars, watchdog, trouble>>

TrapEnds ==
    /\ Alive
    /\ signal = "trapping"
    /\ command["trap"] \in {"ok", "failed"}
    /\ signal' = "handled"
    /\ told' = (told \/ imPid)
    /\ UNCHANGED <<entry, terminating, started, imPid, stopFile, command, manager, stopping, stopped, op, lockVars, watchdog, trouble>>

-----------------------------------------------------------------------------
(* "instance-manager shutdown".                                            *)

RecordStopRequest(c) ==
    /\ Alive
    /\ command[c] = "recording"
    /\ command' = [command EXCEPT ![c] = "asking"]
    /\ \/ stopFile' = TRUE /\ trouble' = trouble
       \/ stopFile' = stopFile /\ Goes("unrecorded")
    /\ UNCHANGED <<shell, server, lockVars, watchdog>>

\* RequestShutdown: the manager is asked, or nobody listens.
RequestShutdown(c) ==
    /\ Alive
    /\ command[c] = "asking"
    /\ \/ /\ Listening
          /\ command' = [command EXCEPT ![c] = "entering"]
       \/ /\ ~Listening
          /\ command' = [command EXCEPT ![c] = "self"]
    /\ UNCHANGED <<shell, stopFile, server, lockVars, watchdog, trouble>>

\* The manager ended before it answered: this process stops CUBRID itself.
ManagerLost(c) ==
    /\ Alive
    /\ command[c] \in {"entering", "queued", "awaiting", "stopping", "unsure"}
    /\ ~Listening
    /\ command' = [command EXCEPT ![c] = "self"]
    /\ UNCHANGED <<shell, stopFile, server, lockVars, watchdog, trouble>>

Shutdown(c, ok) ==
    \/ /\ ok
       /\ command' = [command EXCEPT ![c] = "ok"]
       /\ Runs(FALSE)
       /\ trouble' = trouble
    \/ /\ command' = [command EXCEPT ![c] = "failed"]
       /\ (Runs(FALSE) \/ UNCHANGED lockVars)
       /\ IF ok THEN Goes("stopFails") ELSE trouble' = trouble

\* Shutdown run by the command itself.
StopItself(c) ==
    /\ Alive
    /\ command[c] = "self"
    /\ Shutdown(c, TRUE)
    /\ UNCHANGED <<shell, stopFile, server, watchdog>>

-----------------------------------------------------------------------------
(* Server.Stop, one call per request.                                      *)

\* The stop is intended from here on: nothing is admitted, operations are cancelled.
StopEnters(c) ==
    /\ Listening
    /\ command[c] = "entering"
    /\ stopping' = TRUE
    /\ command' = [command EXCEPT ![c] = "queued"]
    /\ UNCHANGED <<shell, stopFile, manager, told, stopped, op, lockVars, watchdog, trouble>>

\* stopMu is taken; a stop that succeeded before is not run again.
StopLocks(c) ==
    /\ Listening
    /\ command[c] = "queued"
    /\ \A d \in Commands : command[d] \notin {"awaiting", "stopping", "unsure"}
    /\ command' = [command EXCEPT ![c] = IF stopped THEN "ok" ELSE "awaiting"]
    /\ UNCHANGED <<shell, stopFile, server, lockVars, watchdog, trouble>>

\* Mutant of StopAwaits: the shutdown does not wait for the operations.
StopAwaitsNothing(c) ==
    /\ Listening
    /\ command[c] = "awaiting"
    /\ command' = [command EXCEPT ![c] = "stopping"]
    /\ UNCHANGED <<shell, stopFile, server, lockVars, watchdog, trouble>>

\* awaitOperations: they have ended, or the wait runs out.
StopAwaits(c) ==
    /\ Listening
    /\ command[c] = "awaiting"
    /\ \/ /\ Admitted = {} /\ ~Resuming
          /\ command' = [command EXCEPT ![c] = "stopping"]
          /\ trouble' = trouble
       \/ /\ Goes("timeout")
          /\ command' = [command EXCEPT ![c] = "unsure"]
    /\ UNCHANGED <<shell, stopFile, server, lockVars, watchdog>>

StopShutsDown(c) ==
    /\ Listening
    /\ command[c] \in {"stopping", "unsure"}
    /\ Shutdown(c, command[c] = "stopping")
    /\ stopped' = (command'[c] = "ok")
    /\ UNCHANGED <<shell, stopFile, manager, told, stopping, op, watchdog>>

-----------------------------------------------------------------------------
(* The manager's own start: ResumeAndServe.                                *)

ManagerListens ==
    /\ Alive
    /\ manager = "started"
    /\ manager' = "listening"
    /\ UNCHANGED <<shell, stopFile, command, told, stopping, stopped, op, lockVars, watchdog, trouble>>

honorRecordedStop == stopping' = (stopping \/ stopFile)

\* After the listen: a recorded stop means that nothing is resumed.
LookForRecord ==
    /\ Alive
    /\ manager = "listening"
    /\ honorRecordedStop
    /\ manager' = IF stopFile THEN "serving" ELSE "reclaiming"
    /\ UNCHANGED <<shell, stopFile, command, told, stopped, op, lockVars, watchdog, trouble>>

\* admitResume, after the abandoned backup staging is reclaimed: a completed
\* restore is resumed, or there is none or the member is stopping.
AdmitResume ==
    /\ Alive
    /\ manager = "reclaiming"
    /\ \/ ~stopping /\ manager' = "resuming"
       \/ manager' = "serving"
    /\ UNCHANGED <<shell, stopFile, command, told, stopping, stopped, op, lockVars, watchdog, trouble>>

\* activate: nothing is started after a recorded or requested stop.
MayActivate == ~stopFile /\ ~stopping

\* The resume comes to a start of CUBRID, which is allowed or not.
ResumeActivates ==
    /\ Alive
    /\ manager = "resuming"
    /\ honorRecordedStop
    /\ manager' = IF MayActivate THEN "cleared" ELSE "resuming"
    /\ UNCHANGED <<shell, stopFile, command, told, stopped, op, lockVars, watchdog, trouble>>

\* The start runs; a cancelled context may keep it from beginning.
ResumeStarts ==
    /\ Alive
    /\ manager = "cleared"
    /\ manager' \in {"startcmd"} \cup IF stopping \/ told THEN {"resuming"} ELSE {}
    /\ UNCHANGED <<shell, stopFile, command, told, stopping, stopped, op, lockVars, watchdog, trouble>>

ResumeStartEnds ==
    /\ Alive
    /\ manager = "startcmd"
    /\ (Runs(TRUE) \/ UNCHANGED lockVars)
    /\ manager' = "resuming"
    /\ UNCHANGED <<shell, stopFile, command, told, stopping, stopped, op, watchdog, trouble>>

\* Every database was started, or could not be.
ResumeEnds ==
    /\ Alive
    /\ manager = "resuming"
    /\ manager' = "serving"
    /\ UNCHANGED <<shell, stopFile, command, told, stopping, stopped, op, lockVars, watchdog, trouble>>

\* The manager's process is gone, and its operations with it.  A start of CUBRID
\* that it leaves behind may still take effect.
ManagerEnds ==
    /\ manager' = "ended"
    /\ op' = [o \in Ops |-> "none"]
    /\ armed' = FALSE /\ missing' = "no" /\ looked' = FALSE
    /\ \/ UNCHANGED lockVars
       \/ /\ manager = "startcmd" \/ (\E o \in Ops : op[o] = "startcmd")
          /\ Runs(TRUE)

\* A termination signal ends a manager that serves, once the requests in
\* flight were answered or five seconds have passed; one that does not listen
\* yet ends at once or comes up first.
ManagerTerminates ==
    /\ Alive
    /\ told
    /\ manager \in {"started", "serving"}
    /\ ManagerEnds
    /\ UNCHANGED <<shell, stopFile, command, told, stopping, stopped, trouble>>

ManagerCrashes ==
    /\ Alive
    /\ manager \notin {"off", "ended"}
    /\ Goes("crash")
    /\ ManagerEnds
    /\ UNCHANGED <<shell, stopFile, command, told, stopping, stopped>>

-----------------------------------------------------------------------------
(* The manager's operations.                                               *)

\* admit, for a backup, and admitDisruptive, for a restore or a bootstrap,
\* which start CUBRID.
Admit(o) ==
    /\ Alive /\ Listening
    /\ op[o] = "none"
    /\ ~stopping /\ ~Starting
    /\ op' \in {[op EXCEPT ![o] = "backing"], [op EXCEPT ![o] = "working"]}
    /\ UNCHANGED <<shell, stopFile, command, manager, told, stopping, stopped, lockVars, watchdog, trouble>>

\* activate: the checks before a start of CUBRID.
Activate(o) ==
    /\ Alive /\ op[o] = "working"
    /\ honorRecordedStop
    /\ op' = [op EXCEPT ![o] = IF MayActivate THEN "cleared" ELSE "failing"]
    /\ UNCHANGED <<shell, stopFile, command, manager, told, stopped, lockVars, watchdog, trouble>>

OpStarts(o) ==
    /\ Alive /\ op[o] = "cleared"
    /\ \/ op' = [op EXCEPT ![o] = "startcmd"]
       \/ stopping /\ op' = [op EXCEPT ![o] = "failing"]
    /\ UNCHANGED <<shell, stopFile, command, manager, told, stopping, stopped, lockVars, watchdog, trouble>>

OpStartEnds(o) ==
    /\ Alive /\ op[o] = "startcmd"
    /\ (Runs(TRUE) \/ UNCHANGED lockVars)
    /\ op' \in {[op EXCEPT ![o] = "working"], [op EXCEPT ![o] = "failing"]}
    /\ UNCHANGED <<shell, stopFile, command, manager, told, stopping, stopped, watchdog, trouble>>

\* The operation's end is recorded, then s.ops.Done or endDisruptive.
OpEnds(o) ==
    /\ Alive /\ op[o] \in {"backing", "working", "failing"}
    /\ op' = [op EXCEPT ![o] = "none"]
    /\ UNCHANGED <<shell, stopFile, command, manager, told, stopping, stopped, lockVars, watchdog, trouble>>

-----------------------------------------------------------------------------
(* The watchdog, which runs beside what the manager serves.               *)

\* A CUBRID process the member needs ends by itself.
ServerDies ==
    /\ Alive
    /\ running /\ Runs(FALSE)
    /\ UNCHANGED <<shell, stopFile, command, server, watchdog, trouble>>

StopIntended == stopping \/ \E o \in Ops : op[o] \notin {"none", "backing"}

\* check reads the process list.
WatchdogLooks ==
    /\ Alive /\ manager = "serving" /\ ~looked
    /\ \/ running /\ armed' = TRUE /\ missing' = "no" /\ looked' = FALSE
       \/ ~running /\ armed /\ looked' = TRUE /\ UNCHANGED <<armed, missing>>
    /\ UNCHANGED <<shell, stopFile, command, server, lockVars, trouble>>

\* Mutant of WatchdogDecides: every look takes the time anew.
WatchdogDecidesAnew ==
    /\ Alive /\ manager = "serving" /\ looked
    /\ looked' = FALSE
    /\ missing' = IF StopIntended THEN "no" ELSE "seen"
    /\ UNCHANGED <<shell, stopFile, command, server, lockVars, trouble, armed>>

\* A process was missing at the look.  Only now check asks whether that is intended.
WatchdogDecides ==
    /\ Alive /\ manager = "serving" /\ looked
    /\ \/ /\ missing = "over" /\ ~StopIntended
          /\ ManagerEnds
          /\ UNCHANGED <<told, stopping, stopped>>
       \/ /\ missing # "over" \/ StopIntended
          /\ looked' = FALSE
          /\ missing' = IF StopIntended THEN "no" ELSE "seen"
          /\ UNCHANGED <<server, lockVars, armed>>
    /\ UNCHANGED <<shell, stopFile, command, trouble>>

\* The process has been missing for longer than Grace, by the time of the next look.
GraceEnds ==
    /\ Alive /\ missing = "seen" /\ ~looked
    /\ missing' = "over"
    /\ UNCHANGED <<shell, stopFile, command, server, lockVars, trouble, armed, looked>>

Watchdog == WatchdogLooks \/ WatchdogDecides

-----------------------------------------------------------------------------
(* The kubelet and the kernel.                                             *)

\* The preStop hook runs before the signal is sent.
PreStop ==
    /\ Alive
    /\ signal = "none" /\ command["hook"] = "none"
    /\ command' = [command EXCEPT !["hook"] = "recording"]
    /\ UNCHANGED <<shell, stopFile, server, lockVars, watchdog, trouble>>

\* The signal: after the hook, or without one.
Terminate ==
    /\ Alive
    /\ signal = "none" /\ command["hook"] \in {"none", "ok", "failed"}
    /\ signal' = "pending"
    /\ UNCHANGED <<entry, terminating, started, imPid, stopFile, command, server, lockVars, watchdog, trouble>>

\* The grace period ends while the hook or the entrypoint still runs.
Kill ==
    /\ Alive
    /\ signal # "none" \/ command["hook"] # "none"
    /\ Goes("kill")
    /\ entry' = "exited"
    /\ UNCHANGED <<signal, terminating, started, imPid, stopFile, command, server, lockVars, watchdog>>

\* What is left in the container is killed, its locks are dropped, and nothing
\* of its state remains.
ContainerGone ==
    /\ entry = "exited" /\ entry' = "gone"
    /\ EndContainer(This)
    /\ signal' = "none" /\ terminating' = FALSE /\ started' = FALSE /\ imPid' = FALSE
    /\ stopFile' = FALSE /\ trouble' = FALSE
    /\ command' = [c \in Commands |-> "none"]
    /\ manager' = "ended" /\ told' = FALSE /\ stopping' = FALSE /\ stopped' = FALSE
    /\ op' = [o \in Ops |-> "none"]
    /\ armed' = FALSE /\ missing' = "no" /\ looked' = FALSE

\* The other containers of the member.
Others ==
    /\ ReplaceLockFile \/ \E c \in Containers \ {This} : LockStep(c)
    /\ UNCHANGED <<shell, stopFile, command, server, watchdog, trouble>>

Entrypoint ==
    \/ OpenMemberLock \/ TakeMemberLock \/ Decide \/ CreateEnds \/ StartCheck \/ StartBegins \/ StartEnds
    \/ FinalCheck \/ FinalStopEnds \/ Leave \/ Launch \/ RecordPid \/ ManagerGone \/ Trap \/ TrapEnds

Command(c) ==
    \/ RecordStopRequest(c) \/ RequestShutdown(c) \/ ManagerLost(c) \/ StopItself(c)
    \/ StopEnters(c) \/ StopLocks(c) \/ StopAwaits(c) \/ StopShutsDown(c)

Manager ==
    \/ ManagerListens \/ LookForRecord \/ AdmitResume \/ ResumeActivates \/ ResumeStarts
    \/ ResumeStartEnds \/ ResumeEnds \/ ManagerTerminates

Operation(o) == Activate(o) \/ OpStarts(o) \/ OpStartEnds(o) \/ OpEnds(o)

Next ==
    \/ Entrypoint
    \/ \E c \in Commands : Command(c)
    \/ Manager
    \/ ManagerCrashes
    \/ \E o \in Ops : Admit(o) \/ Operation(o)
    \/ ServerDies \/ Watchdog \/ GraceEnds
    \/ PreStop \/ Terminate \/ Kill
    \/ WaitForVolume \/ ContainerGone \/ Others

Spec == Init /\ [][Next]_vars

\* Every process runs on; cubrid commands return, because their contexts end.
\* An operation and the resume have finitely many commands to run, so they end.
Fairness ==
    /\ WF_vars(Entrypoint)
    /\ \A c \in Commands : WF_vars(Command(c))
    /\ WF_vars(Manager) /\ SF_vars(ResumeEnds)
    /\ WF_vars(Watchdog) /\ SF_vars(GraceEnds)
    /\ \A o \in Ops : WF_vars(Operation(o)) /\ SF_vars(OpEnds(o))

FairSpec == Spec /\ Fairness

-----------------------------------------------------------------------------
(* Properties.                                                             *)

\* RecordStopRequest and ResumeAndServe: once a shutdown command has succeeded
\* and the manager was launched, CUBRID does not run again in this container.
StopIsFinal ==
    (\E c \in Commands : command[c] = "ok") /\ manager # "off" /\ ~trouble => ~running

\* terminate and the last check of the entrypoint: a container that was asked
\* to end leaves no CUBRID running for the kernel to kill.
LeftStopped ==
    entry = "exited" /\ ~trouble /\ (terminating \/ command["hook"] = "ok") => ~running

\* entrypoint.sh: a termination signal ends the container, wherever it is
\* handled and whatever fails.
TerminationEnds == (signal = "pending") ~> (entry = "exited")

\* take_member_lock: with respect to the lock the container is one of those of
\* MemberLock; it runs CUBRID only as the owner of the volume, to its end.
TakesLockFirst == LockSpec

\* Watchdog.check: a CUBRID process that was running and is gone comes back, is
\* found to be meant to be gone, or ends the manager and with it the container.
GoneIsNoticed == (armed /\ ~running) ~> (running \/ StopIntended \/ manager = "ended" \/ ~Alive)
=============================================================================
