---------------------------- MODULE TokenRotation ----------------------------
(***************************************************************************)
(* The token that the operator calls a cluster's members with, and its     *)
(* rotation (internal/controller/cubridcluster_controller.go).  It is kept *)
(* in a Secret; a member's container reads it when it starts and keeps it. *)
(* A rotation keeps the token before it in the Secret until every member   *)
(* accepts the new one.                                                    *)
(*                                                                         *)
(* A time is modelled by what it is compared for: the members whose        *)
(* container was started after the rotation time of the Secret.  Several   *)
(* operator processes may work at a time.                                  *)
(***************************************************************************)
EXTENDS Naturals

CONSTANTS
    Members,
    Operators,
    StaleKubelets,  \* a started container may get an older token than its member held
    MaxRequests,    \* bound: rotations that are asked for
    MaxTampers,     \* bound: losses of the Secret or of its token
    MaxFaults,      \* bound: crashes, lost calls and writes
    Absent          \* no Secret

ASSUME StaleAssumption == StaleKubelets \in BOOLEAN
ASSUME BoundsAssumption == MaxRequests \in Nat /\ MaxTampers \in Nat /\ MaxFaults \in Nat

NoToken == 0
Tokens == Nat \ {NoToken}

\* The Secret: its tokens, the last one being issued last, whether it has a
\* rotation time, the request handled last and the one reported as waiting.
Secrets == [current : Nat, previous : Nat, timed : BOOLEAN, handled : Nat, deferred : Nat]
ASSUME AbsentAssumption == Absent \notin Secrets

VARIABLES
    secret,    \* the stored Secret
    issued,    \* the tokens generated so far are 1..issued
    wanted,    \* the cluster's annotation rotateIMTokenAnnotation; 0 for none
    pc,        \* what each operator does
    copy,      \* the Secret each operator works on
    request,   \* the annotation as it read it
    asked,     \* the members that accepted the token of its copy
    stale,     \* the operators whose copy is older than the stored Secret
    held,      \* the token that each member's latest container holds
    running,   \* the members whose container runs
    after,     \* those whose latest start is after the Secret's rotation time
    locked,    \* history: those that held a token when a person removed it
    tampers, faults

operator == <<pc, copy, request, asked>>
container == <<held, running>>
vars == <<secret, issued, wanted, operator, stale, container, after, locked, tampers, faults>>

\* A new cluster, or one of an operator version without rotation times.
Init ==
    /\ \/ /\ secret = Absent
          /\ issued = 0
          /\ running = {}
       \/ /\ secret = [current |-> 1, previous |-> NoToken, timed |-> FALSE, handled |-> 0, deferred |-> 0]
          /\ issued = 1
          /\ running = Members
    /\ held = [m \in Members |-> issued]
    /\ wanted = 0
    /\ pc = [o \in Operators |-> "idle"]
    /\ copy = [o \in Operators |-> Absent]
    /\ request = [o \in Operators |-> 0]
    /\ asked = [o \in Operators |-> {}]
    /\ stale = {}
    /\ after = {}
    /\ locked = {}
    /\ tampers = 0
    /\ faults = 0

-----------------------------------------------------------------------------
(* A pass of the operator.                                                 *)

Goto(o, label) == pc' = [pc EXCEPT ![o] = label]

End(o) ==
    /\ Goto(o, "idle")
    /\ copy' = [copy EXCEPT ![o] = Absent]
    /\ request' = [request EXCEPT ![o] = 0]
    /\ asked' = [asked EXCEPT ![o] = {}]

Unmoved == UNCHANGED <<wanted, container, locked, tampers>>

\* A write that carries the version that was read.
Store(o, new) ==
    /\ secret' = new
    /\ stale' = {p \in Operators \ {o} : pc[p] # "idle"}

HasToken(s) == s # Absent /\ s.current # NoToken
Overlapping(s) == HasToken(s) /\ s.previous # NoToken

\* Mutants of Decide: an overlap without a rotation time is left alone, a request
\* that was reported as waiting is not carried out.
DecideTimed(s, wish) ==
    CASE ~HasToken(s) -> "generate"
      [] Overlapping(s) -> IF s.timed THEN "check" ELSE "idle"
      [] OTHER -> IF ~s.timed \/ wish \notin {0, s.handled} THEN "rotate" ELSE "idle"
DecideReported(s, wish) ==
    CASE ~HasToken(s) -> "generate"
      [] Overlapping(s) -> IF s.timed THEN "check" ELSE "stamp"
      [] OTHER -> IF ~s.timed \/ wish \notin {0, s.handled, s.deferred} THEN "rotate" ELSE "idle"

\* The mutate function decides what the pass does with the Secret it reads.
Decide(s, wish) ==
    CASE ~HasToken(s) -> "generate"
      [] Overlapping(s) -> IF s.timed THEN "check" ELSE "stamp"
      [] OTHER -> IF ~s.timed \/ wish \notin {0, s.handled} THEN "rotate" ELSE "idle"

Read(o) ==
    /\ pc[o] = "idle"
    /\ Decide(secret, wanted) # "idle"
    /\ Goto(o, Decide(secret, wanted))
    /\ copy' = [copy EXCEPT ![o] = secret]
    /\ request' = [request EXCEPT ![o] = wanted]
    /\ stale' = stale \ {o}
    /\ UNCHANGED <<secret, issued, asked, after, faults>> /\ Unmoved

NoSecret == [current |-> NoToken, previous |-> NoToken, timed |-> FALSE, handled |-> 0, deferred |-> 0]

\* The Secret with a new token: a rotation keeps the one before, and a request is
\* handled by either.
Replaced(s, token, wish) ==
    LET old == IF s = Absent THEN NoSecret ELSE s
    IN [old EXCEPT !.current = token,
                   !.previous = IF old.current # NoToken THEN old.current ELSE @,
                   !.handled = IF wish # 0 THEN wish ELSE @]

\* The first write of a generation or rotation.
WriteToken(o) ==
    /\ pc[o] \in {"generate", "rotate"}
    /\ o \notin stale
    /\ issued' = issued + 1
    /\ Store(o, Replaced(copy[o], issued', request[o]))
    /\ copy' = [copy EXCEPT ![o] = secret']
    /\ Goto(o, "time")
    /\ UNCHANGED <<request, asked, after, faults>> /\ Unmoved

\* The rotation time is written: after a new token, which ends the pass, or in
\* place of one that cannot be read.  Clocks may differ: any member may seem to
\* have started after it.
WriteTime(o) ==
    /\ pc[o] \in {"time", "stamp"}
    /\ o \notin stale
    /\ Store(o, [copy[o] EXCEPT !.timed = TRUE])
    /\ after' \in SUBSET Members
    /\ \/ pc[o] = "time" /\ End(o)
       \/ /\ pc[o] = "stamp" /\ Goto(o, "defer")
          /\ copy' = [copy EXCEPT ![o] = secret']
          /\ UNCHANGED <<request, asked>>
    /\ UNCHANGED <<issued, faults>> /\ Unmoved

\* membersHoldToken: the Pods are read, from a cache that may not know yet that
\* one has stopped.
Check(o) ==
    /\ pc[o] = "check"
    /\ \/ Members \subseteq after /\ Goto(o, "ask")
       \/ ~(Members \subseteq after \cap running) /\ Goto(o, "defer")
    /\ UNCHANGED <<secret, issued, copy, request, asked, stale, after, faults>> /\ Unmoved

\* Mutant of Accepts: a member that does not answer counts.
AcceptsUnasked(o, m) == TRUE

\* AcceptsToken.
Accepts(o, m) == m \in running /\ held[m] = copy[o].current

\* membersHoldToken: the members are asked, one after the other.
Ask(o) ==
    /\ pc[o] = "ask"
    /\ \E m \in Members \ asked[o] :
         IF Accepts(o, m)
         THEN /\ asked' = [asked EXCEPT ![o] = @ \cup {m}]
              /\ Goto(o, IF asked'[o] = Members THEN "drop" ELSE "ask")
         ELSE Goto(o, "defer") /\ asked' = asked
    /\ UNCHANGED <<secret, issued, copy, request, stale, after, faults>> /\ Unmoved

\* The overlap ends.
DropPrevious(o) ==
    /\ pc[o] = "drop"
    /\ o \notin stale
    /\ Store(o, [copy[o] EXCEPT !.previous = NoToken])
    /\ End(o)
    /\ UNCHANGED <<issued, after, faults>> /\ Unmoved

\* reportDeferredRotation: a request that waits is noted, once.
Defer(o) ==
    /\ pc[o] = "defer"
    /\ IF request[o] \in {0, copy[o].handled, copy[o].deferred} THEN UNCHANGED <<secret, stale>>
       ELSE o \notin stale /\ Store(o, [copy[o] EXCEPT !.deferred = request[o]])
    /\ End(o)
    /\ UNCHANGED <<issued, after, faults>> /\ Unmoved

\* A write on an old copy is refused as a conflict.
Conflict(o) ==
    /\ pc[o] \in {"generate", "rotate", "time", "stamp", "drop", "defer"}
    /\ o \in stale
    /\ End(o)
    /\ UNCHANGED <<secret, issued, stale, after, faults>> /\ Unmoved

\* The operator crashes, or a call or a write fails.
Fault(o) ==
    /\ pc[o] # "idle"
    /\ faults < MaxFaults
    /\ faults' = faults + 1
    /\ End(o)
    /\ UNCHANGED <<secret, issued, stale, after>> /\ Unmoved

Pass(o) ==
    \/ Read(o) \/ WriteToken(o) \/ WriteTime(o) \/ Check(o) \/ Ask(o)
    \/ DropPrevious(o) \/ Defer(o) \/ Conflict(o)

-----------------------------------------------------------------------------
(* The cluster.                                                            *)

\* A Pod is replaced, to end a rotation.
Outdated(m) == m \notin after \/ (secret # Absent /\ held[m] # secret.current)
Stop(m) ==
    /\ m \in running
    /\ running' = running \ {m}
    /\ locked' = locked \ {m}
    /\ UNCHANGED <<secret, issued, wanted, operator, stale, held, after, tampers>>

Replace(m) == Outdated(m) /\ Stop(m) /\ UNCHANGED faults
Crash(m) == faults < MaxFaults /\ Stop(m) /\ faults' = faults + 1

\* A container starts with the token of IM_TOKEN: the current one, or with a
\* kubelet that has not seen the rotation the one before it.
Start(m) ==
    /\ m \notin running
    /\ secret # Absent
    /\ \E token \in {secret.current, secret.previous} \ {NoToken} :
         /\ StaleKubelets \/ token >= held[m]
         /\ held' = [held EXCEPT ![m] = token]
    /\ running' = running \cup {m}
    /\ after' \in {after \cup {m}, after \ {m}}
    /\ UNCHANGED <<secret, issued, wanted, operator, stale, locked, tampers, faults>>

Request ==
    /\ wanted < MaxRequests
    /\ wanted' = wanted + 1
    /\ UNCHANGED <<secret, issued, operator, stale, container, after, locked, tampers, faults>>

\* A person deletes the Secret, or empties its token.
Tamper ==
    /\ tampers < MaxTampers
    /\ secret # Absent
    /\ \/ secret' = Absent
       \/ secret' = [secret EXCEPT !.current = NoToken]
    /\ stale' = {p \in Operators : pc[p] # "idle"}
    /\ locked' = running
    /\ tampers' = tampers + 1
    /\ UNCHANGED <<issued, wanted, operator, container, after, faults>>

Next ==
    \/ \E o \in Operators : Pass(o) \/ Fault(o)
    \/ \E m \in Members : Replace(m) \/ Crash(m) \/ Start(m)
    \/ Request \/ Tamper

Spec == Init /\ [][Next]_vars

\* Reconciles go on; the members are replaced, as the rotation's event asks for,
\* and their containers start with the Secret they should see.
StartCurrent(m) == Start(m) /\ held'[m] = secret.current /\ m \in after'
FairSpec ==
    /\ Spec
    /\ \A o \in Operators : WF_vars(Pass(o))
    /\ \A m \in Members : WF_vars(Replace(m)) /\ SF_vars(StartCurrent(m))

-----------------------------------------------------------------------------
(* Properties.                                                             *)

Labels == {"idle", "generate", "rotate", "time", "stamp", "check", "ask", "drop", "defer"}

TypeOK ==
    /\ secret \in Secrets \cup {Absent}
    /\ issued \in Nat /\ wanted \in Nat /\ tampers \in Nat /\ faults \in Nat
    /\ pc \in [Operators -> Labels]
    /\ copy \in [Operators -> Secrets \cup {Absent}]
    /\ request \in [Operators -> Nat]
    /\ asked \in [Operators -> SUBSET Members]
    /\ stale \subseteq Operators
    /\ secret # Absent => secret.current <= issued /\ secret.previous <= issued
    /\ held \in [Members -> 0..issued]
    /\ running \subseteq Members /\ after \subseteq Members /\ locked \subseteq Members

\* reconcileIMTokenSecret: a running member is never left with a token that the
\* operator no longer has, unless a person removed the token it holds.
MembersReachable ==
    \A m \in running \ locked : secret # Absent /\ held[m] \in {secret.current, secret.previous}

\* reconcileIMTokenSecret: every rotation ends with the previous token dropped.
RotationEnds == (secret # Absent /\ secret.previous # NoToken) ~> (secret # Absent /\ secret.previous = NoToken)

\* reconcileIMTokenSecret: a request is carried out, also one made in an overlap.
RequestHandled ==
    \A r \in 1..MaxRequests : (wanted = r) ~> (wanted # r \/ (secret # Absent /\ secret.handled = r))
=============================================================================
