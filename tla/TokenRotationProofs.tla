------------------------- MODULE TokenRotationProofs -------------------------
(***************************************************************************)
(* Proof that a token rotation locks the operator out of no member, for    *)
(* any members, any number of operators, requests and faults.              *)
(***************************************************************************)
EXTENDS TokenRotation, TLAPS

\* A copy that is not stale is the stored Secret: writes are conditional.
CopyIsStored == \A o \in Operators : pc[o] # "idle" /\ o \notin stale => copy[o] = secret

\* Where the pass is says what the Secret it read was like.
CopyIsDecided ==
    \A o \in Operators :
        /\ pc[o] = "generate" => ~HasToken(copy[o])
        /\ pc[o] = "rotate" => HasToken(copy[o]) /\ ~Overlapping(copy[o])
        /\ pc[o] \in {"time", "stamp", "check", "ask", "drop", "defer"} => HasToken(copy[o])

\* The members that a pass has asked hold the current token from then on.
AskedHold ==
    \A o \in Operators :
        /\ pc[o] \in {"idle", "check"} => asked[o] = {}
        /\ pc[o] = "drop" => asked[o] = Members
        /\ pc[o] \in {"ask", "drop"} /\ o \notin stale => \A m \in asked[o] : held[m] = secret.current

\* The current token is the newest.
Newest == HasToken(secret) => secret.previous < secret.current

StartedWithToken == \A m \in running : held[m] # NoToken

Inv == TypeOK /\ CopyIsStored /\ CopyIsDecided /\ AskedHold /\ Newest /\ StartedWithToken /\ MembersReachable

-----------------------------------------------------------------------------
\* Decide: a token is generated only without one, and no rotation starts in an
\* overlap.
LEMMA DecideLabel ==
    ASSUME NEW s \in Secrets \cup {Absent}, NEW wish \in Nat
    PROVE  /\ Decide(s, wish) \in Labels \ {"ask", "drop", "defer"}
           /\ Decide(s, wish) = "generate" <=> ~HasToken(s)
           /\ Decide(s, wish) = "rotate" => HasToken(s) /\ ~Overlapping(s)
BY DEF Decide, Labels, HasToken, Overlapping

\* Replaced: the new token is current, and the one before, if any, is kept.
LEMMA ReplacedKeeps ==
    ASSUME NEW s \in Secrets \cup {Absent}, NEW token \in Tokens, NEW wish \in Nat
    PROVE  /\ Replaced(s, token, wish) \in Secrets
           /\ Replaced(s, token, wish).current = token
           /\ HasToken(s) => Replaced(s, token, wish).previous = s.current
           /\ s # Absent /\ ~HasToken(s) => Replaced(s, token, wish).previous = s.previous
           /\ s = Absent => Replaced(s, token, wish).previous = NoToken
<1>1. CASE s = Absent
  BY <1>1, Zenon DEF Replaced, NoSecret, Secrets, HasToken, Tokens, NoToken
<1>2. CASE s # Absent
  BY <1>2, Zenon DEF Replaced, NoSecret, Secrets, HasToken, Tokens, NoToken
<1> QED BY <1>1, <1>2

\* A new cluster, and one that an older operator made, have the invariant.
THEOREM InitInv == Init => Inv
<1> SUFFICES ASSUME Init PROVE Inv
  OBVIOUS
<1>1. CASE secret = Absent /\ issued = 0 /\ running = {}
  BY <1>1 DEF Init, Inv, TypeOK, Labels, CopyIsStored, CopyIsDecided, AskedHold, Newest, StartedWithToken,
              MembersReachable, HasToken, NoToken
<1>2. CASE /\ secret = [current |-> 1, previous |-> NoToken, timed |-> FALSE, handled |-> 0, deferred |-> 0]
           /\ issued = 1 /\ running = Members
  <2>1. secret \in Secrets
    BY <1>2 DEF Secrets, NoToken
  <2>2. secret # Absent
    BY <2>1, AbsentAssumption
  <2> QED
    BY <1>2, <2>1, <2>2 DEF Init, Inv, TypeOK, Labels, CopyIsStored, CopyIsDecided, AskedHold, Newest,
              StartedWithToken, MembersReachable, HasToken, NoToken
<1> QED BY <1>1, <1>2 DEF Init

-----------------------------------------------------------------------------
(* One lemma for each action.                                              *)

\* End: the pass is over; its operator has nothing in hand.
LEMMA Ended ==
    ASSUME Inv, NEW o \in Operators, End(o)
    PROVE  /\ pc' \in [Operators -> Labels]
           /\ copy' \in [Operators -> Secrets \cup {Absent}]
           /\ request' \in [Operators -> Nat]
           /\ asked' \in [Operators -> SUBSET Members]
           /\ pc'[o] = "idle" /\ asked'[o] = {}
           /\ \A p \in Operators \ {o} : pc'[p] = pc[p] /\ copy'[p] = copy[p] /\ asked'[p] = asked[p]
BY DEF Inv, TypeOK, Labels, End, Goto

\* Read: the copy is the stored Secret.
LEMMA ReadKeeps ==
    ASSUME Inv, NEW o \in Operators, Read(o)
    PROVE  Inv'
<1>1. /\ Decide(secret, wanted) \in Labels \ {"idle", "ask", "drop", "defer"}
      /\ Decide(secret, wanted) = "generate" <=> ~HasToken(secret)
      /\ Decide(secret, wanted) = "rotate" => HasToken(secret) /\ ~Overlapping(secret)
  BY DecideLabel DEF Inv, TypeOK, Read
<1>2. /\ pc' = [pc EXCEPT ![o] = Decide(secret, wanted)]
      /\ copy' = [copy EXCEPT ![o] = secret]
      /\ request' = [request EXCEPT ![o] = wanted]
      /\ stale' = stale \ {o}
      /\ pc[o] = "idle"
      /\ UNCHANGED <<secret, issued, wanted, asked, held, running, after, locked, tampers, faults>>
  BY DEF Read, Goto, Unmoved, container
<1>3. TypeOK'
  BY <1>1, <1>2 DEF Inv, TypeOK, Labels
<1>4. CopyIsStored'
  BY <1>1, <1>2 DEF Inv, TypeOK, CopyIsStored
<1>5. CopyIsDecided'
  BY <1>1, <1>2 DEF Inv, TypeOK, CopyIsDecided, Labels, HasToken, Overlapping
<1>6. AskedHold'
  BY <1>1, <1>2 DEF Inv, TypeOK, AskedHold, Labels
<1>7. Newest' /\ StartedWithToken' /\ MembersReachable'
  BY <1>2 DEF Inv, Newest, StartedWithToken, MembersReachable, HasToken
<1> QED BY <1>3, <1>4, <1>5, <1>6, <1>7 DEF Inv

\* What a write leaves of the other operators' copies: those that work are stale.
LEMMA Stored ==
    ASSUME Inv, NEW o \in Operators, NEW new, Store(o, new)
    PROVE  /\ secret' = new
           /\ stale' \subseteq Operators
           /\ o \notin stale'
           /\ \A p \in Operators \ {o} : p \in stale' <=> pc[p] # "idle"
BY DEF Inv, TypeOK, Store

\* WriteToken: the token that running members hold is kept as the previous one.
LEMMA WriteTokenKeeps ==
    ASSUME Inv, NEW o \in Operators, WriteToken(o)
    PROVE  Inv'
<1> DEFINE new == Replaced(copy[o], issued + 1, request[o])
<1>1. /\ pc[o] \in {"generate", "rotate"} /\ o \notin stale
      /\ issued' = issued + 1
      /\ pc' = [pc EXCEPT ![o] = "time"]
      /\ copy' = [copy EXCEPT ![o] = secret']
      /\ UNCHANGED <<wanted, request, asked, held, running, after, locked, tampers, faults>>
  BY DEF WriteToken, Goto, Unmoved, container
<1>2. /\ secret' = new
      /\ stale' \subseteq Operators /\ o \notin stale'
      /\ \A p \in Operators \ {o} : p \in stale' <=> pc[p] # "idle"
  BY <1>1, Stored DEF WriteToken
<1>3. copy[o] = secret /\ secret \in Secrets \cup {Absent} /\ request[o] \in Nat /\ issued + 1 \in Tokens
  BY <1>1 DEF Inv, CopyIsStored, TypeOK, Tokens, NoToken
<1>4. /\ new \in Secrets
      /\ new.current = issued + 1
      /\ HasToken(secret) => new.previous = secret.current
      /\ secret # Absent /\ ~HasToken(secret) => new.previous = secret.previous
      /\ secret = Absent => new.previous = NoToken
  <2> DEFINE token == issued + 1
             wish  == request[o]
  <2>1. /\ new = Replaced(secret, token, wish)
        /\ secret \in Secrets \cup {Absent} /\ token \in Tokens /\ wish \in Nat
    BY <1>3
  <2>2. token = issued + 1
    OBVIOUS
  <2> HIDE DEF new, token, wish
  <2>3. /\ Replaced(secret, token, wish) \in Secrets
        /\ Replaced(secret, token, wish).current = token
    BY <2>1, ReplacedKeeps
  <2>4. /\ HasToken(secret) => Replaced(secret, token, wish).previous = secret.current
        /\ secret # Absent /\ ~HasToken(secret) => Replaced(secret, token, wish).previous = secret.previous
        /\ secret = Absent => Replaced(secret, token, wish).previous = NoToken
    BY <2>1, ReplacedKeeps
  <2> QED
    BY <2>1, <2>2, <2>3, <2>4
<1>5. new # Absent /\ HasToken(new)
  BY <1>3, <1>4, AbsentAssumption DEF HasToken, Tokens
<1> HIDE DEF new
<1>6. new.previous <= issued
  BY <1>3, <1>4 DEF Inv, TypeOK, HasToken, NoToken, Secrets
<1>7. TypeOK'
  <2>1. held' \in [Members -> 0 .. issued']
    BY <1>1 DEF Inv, TypeOK
  <2>2. pc' \in [Operators -> Labels]
    BY <1>1 DEF Inv, TypeOK, Labels
  <2>3. secret' \in Secrets /\ secret'.current <= issued' /\ secret'.previous <= issued'
    BY <1>1, <1>2, <1>4, <1>6 DEF Inv, TypeOK, Secrets, Tokens, NoToken
  <2>4. copy' \in [Operators -> Secrets \cup {Absent}]
    BY <1>1, <2>3 DEF Inv, TypeOK
  <2> QED BY <1>1, <1>2, <2>1, <2>2, <2>3, <2>4 DEF Inv, TypeOK
<1>8. CopyIsStored'
  BY <1>1, <1>2 DEF Inv, TypeOK, CopyIsStored
<1>9. CopyIsDecided'
  BY <1>1, <1>2, <1>5 DEF Inv, TypeOK, CopyIsDecided, HasToken, Overlapping
<1>10. AskedHold'
  BY <1>1, <1>2 DEF Inv, TypeOK, AskedHold
<1>11. Newest'
  BY <1>2, <1>4, <1>6 DEF Inv, TypeOK, Newest, Secrets
<1>12. StartedWithToken'
  BY <1>1 DEF Inv, StartedWithToken
<1>13. MembersReachable'
  <2> SUFFICES ASSUME NEW m \in running \ locked
               PROVE  new # Absent /\ held[m] \in {new.current, new.previous}
    BY <1>1, <1>2 DEF MembersReachable
  <2>1. secret # Absent /\ held[m] \in {secret.current, secret.previous} /\ held[m] # NoToken
    BY DEF Inv, MembersReachable, StartedWithToken
  <2>2. CASE HasToken(secret)
    <3>1. ~Overlapping(secret)
      BY <1>1, <1>3, <2>2 DEF Inv, CopyIsDecided
    <3>2. secret.previous = NoToken
      BY <2>2, <3>1 DEF Overlapping
    <3> QED BY <1>4, <1>5, <2>1, <2>2, <3>2
  <2>3. CASE ~HasToken(secret)
    BY <1>4, <1>5, <2>1, <2>3 DEF HasToken
  <2> QED BY <2>2, <2>3
<1> QED BY <1>7, <1>8, <1>9, <1>10, <1>11, <1>12, <1>13 DEF Inv

\* A write after which its pass is over, or only reports, keeps the invariant if it
\* keeps the tokens, or drops the previous one that no running member holds.
LEMMA LastWriteKeeps ==
    ASSUME Inv, NEW o \in Operators, NEW new \in Secrets,
           o \notin stale, pc[o] \in {"time", "stamp", "drop", "defer"},
           Store(o, new), after' \subseteq Members,
           \/ End(o)
           \/ Goto(o, "defer") /\ copy' = [copy EXCEPT ![o] = new] /\ UNCHANGED <<request, asked>>,
           UNCHANGED <<issued, wanted, held, running, locked, tampers, faults>>,
           new.current = secret.current,
           \/ new.previous = secret.previous
           \/ new.previous = NoToken /\ \A m \in running : held[m] = secret.current
    PROVE  Inv'
<1>1. /\ secret' = new
      /\ stale' \subseteq Operators /\ o \notin stale'
      /\ \A p \in Operators \ {o} : p \in stale' <=> pc[p] # "idle"
  BY Stored
<1>2. /\ pc' \in [Operators -> Labels]
      /\ copy' \in [Operators -> Secrets \cup {Absent}]
      /\ request' \in [Operators -> Nat]
      /\ asked' \in [Operators -> SUBSET Members]
      /\ \/ pc'[o] = "idle" /\ asked'[o] = {}
         \/ pc'[o] = "defer" /\ copy'[o] = new
      /\ \A p \in Operators \ {o} : pc'[p] = pc[p] /\ copy'[p] = copy[p] /\ asked'[p] = asked[p]
  <2>1. CASE End(o)
    BY <2>1, Ended
  <2>2. CASE Goto(o, "defer") /\ copy' = [copy EXCEPT ![o] = new] /\ UNCHANGED <<request, asked>>
    BY <2>2 DEF Goto, Inv, TypeOK, Labels
  <2> QED BY <2>1, <2>2
<1>3. HasToken(secret) /\ secret \in Secrets /\ new # Absent
  BY AbsentAssumption DEF Inv, CopyIsStored, CopyIsDecided, TypeOK, HasToken
<1>4. TypeOK'
  BY <1>1, <1>2, <1>3 DEF Inv, TypeOK, NoToken, HasToken
<1>5. CopyIsStored'
  BY <1>1, <1>2 DEF Inv, CopyIsStored
<1>6. CopyIsDecided'
  BY <1>1, <1>2, <1>3 DEF Inv, CopyIsDecided, HasToken, Overlapping
<1>7. AskedHold'
  BY <1>1, <1>2 DEF Inv, AskedHold
<1>8. Newest'
  BY <1>1, <1>3 DEF Inv, TypeOK, Newest, HasToken, NoToken, Secrets
<1>9. StartedWithToken' /\ MembersReachable'
  BY <1>1, <1>3 DEF Inv, StartedWithToken, MembersReachable
<1> QED BY <1>4, <1>5, <1>6, <1>7, <1>8, <1>9 DEF Inv

\* A pass that ends without a write keeps the invariant.
LEMMA EndKeeps ==
    ASSUME Inv, NEW o \in Operators, End(o), faults' \in Nat,
           UNCHANGED <<secret, issued, wanted, stale, held, running, after, locked, tampers>>
    PROVE  Inv'
<1>1. /\ pc' \in [Operators -> Labels]
      /\ copy' \in [Operators -> Secrets \cup {Absent}]
      /\ request' \in [Operators -> Nat]
      /\ asked' \in [Operators -> SUBSET Members]
      /\ pc'[o] = "idle" /\ asked'[o] = {}
      /\ \A p \in Operators \ {o} : pc'[p] = pc[p] /\ copy'[p] = copy[p] /\ asked'[p] = asked[p]
  BY Ended
<1>2. TypeOK'
  BY <1>1 DEF Inv, TypeOK
<1>3. CopyIsStored'
  BY <1>1 DEF Inv, CopyIsStored
<1>4. CopyIsDecided'
  BY <1>1 DEF Inv, CopyIsDecided, HasToken, Overlapping
<1>5. AskedHold'
  BY <1>1 DEF Inv, AskedHold
<1>6. Newest' /\ StartedWithToken' /\ MembersReachable'
  BY DEF Inv, Newest, StartedWithToken, MembersReachable, HasToken
<1> QED BY <1>2, <1>3, <1>4, <1>5, <1>6 DEF Inv

\* The steps that end a pass, with a last write or without one.
LEMMA LastStepKeeps ==
    ASSUME Inv, NEW o \in Operators,
           WriteTime(o) \/ DropPrevious(o) \/ Defer(o) \/ Conflict(o) \/ Fault(o)
    PROVE  Inv'
<1>1. pc[o] \in {"time", "stamp", "drop", "defer"} /\ o \notin stale
      => copy[o] = secret /\ HasToken(secret) /\ secret \in Secrets
  BY DEF Inv, CopyIsStored, CopyIsDecided, TypeOK, HasToken
<1>2. CASE WriteTime(o)
  <2>1. [copy[o] EXCEPT !.timed = TRUE] \in Secrets
        /\ [copy[o] EXCEPT !.timed = TRUE].current = secret.current
        /\ [copy[o] EXCEPT !.timed = TRUE].previous = secret.previous
    BY <1>1, <1>2, Zenon DEF WriteTime, Secrets
  <2>2. Store(o, [copy[o] EXCEPT !.timed = TRUE]) => secret' = [copy[o] EXCEPT !.timed = TRUE]
    BY DEF Store
  <2> QED BY <1>2, <2>1, <2>2, LastWriteKeeps, Zenon DEF WriteTime, Unmoved, container
<1>3. CASE DropPrevious(o)
  <2>1. [copy[o] EXCEPT !.previous = NoToken] \in Secrets
        /\ [copy[o] EXCEPT !.previous = NoToken].current = secret.current
        /\ [copy[o] EXCEPT !.previous = NoToken].previous = NoToken
    BY <1>1, <1>3 DEF DropPrevious, Secrets, NoToken
  <2>2. \A m \in running : held[m] = secret.current
    BY <1>3 DEF DropPrevious, Inv, AskedHold, TypeOK
  <2>3. after' \subseteq Members
    BY <1>3 DEF DropPrevious, Inv, TypeOK
  <2> QED BY <1>3, <2>1, <2>2, <2>3, LastWriteKeeps, Zenon DEF DropPrevious, Unmoved, container
<1>4. CASE Defer(o) /\ UNCHANGED <<secret, stale>>
  <2>1. faults' \in Nat
    BY <1>4 DEF Defer, Inv, TypeOK
  <2> QED BY <1>4, <2>1, EndKeeps DEF Defer, Unmoved, container
<1>5. CASE Defer(o) /\ o \notin stale /\ Store(o, [copy[o] EXCEPT !.deferred = request[o]])
  <2>1. [copy[o] EXCEPT !.deferred = request[o]] \in Secrets
        /\ [copy[o] EXCEPT !.deferred = request[o]].current = secret.current
        /\ [copy[o] EXCEPT !.deferred = request[o]].previous = secret.previous
    BY <1>1, <1>5 DEF Defer, Secrets, Inv, TypeOK
  <2>2. after' \subseteq Members
    BY <1>5 DEF Defer, Inv, TypeOK
  <2> QED BY <1>5, <2>1, <2>2, LastWriteKeeps, Zenon DEF Defer, Unmoved, container
<1>6. CASE Conflict(o) \/ Fault(o)
  <2>1. faults' \in Nat
    BY <1>6 DEF Conflict, Fault, Inv, TypeOK
  <2> QED BY <1>6, <2>1, EndKeeps DEF Conflict, Fault, Unmoved, container
<1> QED BY <1>2, <1>3, <1>4, <1>5, <1>6 DEF Defer

\* Check and Ask: a member is counted only when it has the current token.
LEMMA CheckKeeps ==
    ASSUME Inv, NEW o \in Operators, Check(o) \/ Ask(o)
    PROVE  Inv'
<1>1. /\ pc' \in [Operators -> Labels]
      /\ asked' \in [Operators -> SUBSET Members]
      /\ pc[o] \in {"check", "ask"} /\ pc'[o] \in {"ask", "drop", "defer"}
      /\ \A p \in Operators \ {o} : pc'[p] = pc[p] /\ asked'[p] = asked[p]
      /\ pc'[o] = "drop" => asked'[o] = Members
      /\ \A m \in asked'[o] \ asked[o] : held[m] = copy[o].current
  <2>1. CASE Check(o)
    BY <2>1 DEF Check, Goto, Inv, TypeOK, Labels
  <2>2. CASE Ask(o)
    <3>1. PICK m \in Members \ asked[o] :
            IF Accepts(o, m)
            THEN /\ asked' = [asked EXCEPT ![o] = @ \cup {m}]
                 /\ Goto(o, IF asked'[o] = Members THEN "drop" ELSE "ask")
            ELSE Goto(o, "defer") /\ asked' = asked
      BY <2>2 DEF Ask
    <3>2. CASE Accepts(o, m)
      BY <2>2, <3>1, <3>2 DEF Ask, Accepts, Goto, Inv, TypeOK, Labels
    <3>3. CASE ~Accepts(o, m)
      BY <2>2, <3>1, <3>3 DEF Ask, Goto, Inv, TypeOK, Labels
    <3> QED BY <3>2, <3>3
  <2> QED BY <2>1, <2>2
<1>2. UNCHANGED <<secret, issued, copy, request, stale, after, faults, wanted, held, running, locked, tampers>>
  BY DEF Check, Ask, Unmoved, container
<1>3. TypeOK'
  BY <1>1, <1>2 DEF Inv, TypeOK
<1>4. CopyIsStored'
  BY <1>1, <1>2 DEF Inv, CopyIsStored
<1>5. CopyIsDecided'
  BY <1>1, <1>2 DEF Inv, CopyIsDecided, HasToken, Overlapping
<1>6. AskedHold'
  <2>1. ASSUME NEW p \in Operators, p # o
        PROVE  /\ pc'[p] \in {"idle", "check"} => asked'[p] = {}
               /\ pc'[p] = "drop" => asked'[p] = Members
               /\ pc'[p] \in {"ask", "drop"} /\ p \notin stale' => \A m \in asked'[p] : held'[m] = secret'.current
    <3>1. pc'[p] = pc[p] /\ asked'[p] = asked[p]
      BY <1>1, <2>1
    <3> QED BY <3>1, <1>2, <2>1 DEF Inv, AskedHold
  <2>2. pc'[o] \notin {"idle", "check"} /\ (pc'[o] = "drop" => asked'[o] = Members)
    BY <1>1
  <2>3. ASSUME o \notin stale, NEW m \in asked'[o]
        PROVE  held[m] = secret.current
    <3>1. copy[o] = secret
      BY <1>1, <2>3 DEF Inv, CopyIsStored
    <3>2. CASE m \in asked[o]
      <4>1. pc[o] = "ask"
        BY <1>1, <3>2 DEF Inv, AskedHold
      <4> QED BY <4>1, <3>2, <2>3 DEF Inv, AskedHold
    <3>3. CASE m \notin asked[o]
      BY <1>1, <2>3, <3>1, <3>3
    <3> QED BY <3>2, <3>3
  <2> QED BY <1>2, <2>1, <2>2, <2>3 DEF AskedHold
<1>7. Newest' /\ StartedWithToken' /\ MembersReachable'
  BY <1>2 DEF Inv, Newest, StartedWithToken, MembersReachable, HasToken
<1> QED BY <1>3, <1>4, <1>5, <1>6, <1>7 DEF Inv

\* Stop: a container that stops keeps its token as the one held last.
LEMMA StopKeeps ==
    ASSUME Inv, NEW m \in Members, Stop(m), faults' \in Nat
    PROVE  Inv'
<1>1. /\ running' = running \ {m} /\ locked' = locked \ {m}
      /\ UNCHANGED <<secret, issued, wanted, pc, copy, request, asked, stale, held, after, tampers>>
  BY DEF Stop, operator
<1>2. TypeOK'
  BY <1>1 DEF Inv, TypeOK
<1>3. CopyIsStored' /\ CopyIsDecided' /\ AskedHold' /\ Newest'
  BY <1>1 DEF Inv, CopyIsStored, CopyIsDecided, AskedHold, Newest, HasToken, Overlapping
<1>4. StartedWithToken' /\ MembersReachable'
  BY <1>1 DEF Inv, StartedWithToken, MembersReachable
<1> QED BY <1>2, <1>3, <1>4 DEF Inv

\* Start: with no stale kubelet, a member that was asked and started again still
\* holds the current token.
LEMMA StartKeeps ==
    ASSUME StaleKubelets = FALSE, Inv, NEW m \in Members, Start(m)
    PROVE  Inv'
<1>1. PICK token \in {secret.current, secret.previous} \ {NoToken} :
        /\ token >= held[m]
        /\ held' = [held EXCEPT ![m] = token]
  BY Zenon DEF Start
<1>2. /\ secret # Absent
      /\ running' = running \cup {m}
      /\ after' \in {after \cup {m}, after \ {m}}
      /\ UNCHANGED <<secret, issued, wanted, pc, copy, request, asked, stale, locked, tampers, faults>>
  BY DEF Start, operator
<1>3. token \in 0 .. issued /\ secret \in Secrets
  BY <1>1, <1>2 DEF Inv, TypeOK, Secrets
<1>4. TypeOK'
  BY <1>1, <1>2, <1>3 DEF Inv, TypeOK
<1>5. CopyIsStored' /\ CopyIsDecided' /\ Newest'
  BY <1>2 DEF Inv, CopyIsStored, CopyIsDecided, Newest, HasToken, Overlapping
<1>6. HasToken(secret) /\ held[m] = secret.current => token = secret.current
  BY <1>1, <1>3 DEF Inv, TypeOK, Newest, Secrets
<1>7. AskedHold'
  <2>1. \A o \in Operators : pc[o] \in {"ask", "drop"} /\ o \notin stale => HasToken(secret)
    BY DEF Inv, CopyIsStored, CopyIsDecided
  <2> QED BY <1>1, <1>2, <1>6, <2>1 DEF Inv, TypeOK, AskedHold
<1>8. StartedWithToken' /\ MembersReachable'
  BY <1>1, <1>2 DEF Inv, TypeOK, StartedWithToken, MembersReachable
<1> QED BY <1>4, <1>5, <1>7, <1>8 DEF Inv

\* Request and Tamper: after a loss of the token every copy is stale.
LEMMA UserKeeps ==
    ASSUME Inv, Request \/ Tamper
    PROVE  Inv'
<1>1. CASE Request
  <2>1. /\ wanted' = wanted + 1
        /\ UNCHANGED <<secret, issued, pc, copy, request, asked, stale, held, running, after, locked, tampers, faults>>
    BY <1>1 DEF Request, operator, container
  <2>2. TypeOK'
    BY <2>1 DEF Inv, TypeOK
  <2>3. CopyIsStored' /\ CopyIsDecided' /\ AskedHold'
    BY <2>1 DEF Inv, CopyIsStored, CopyIsDecided, AskedHold, HasToken, Overlapping
  <2>4. Newest' /\ StartedWithToken' /\ MembersReachable'
    BY <2>1 DEF Inv, Newest, StartedWithToken, MembersReachable, HasToken
  <2> QED BY <2>2, <2>3, <2>4 DEF Inv
<1>2. CASE Tamper
  <2>1. /\ stale' = {p \in Operators : pc[p] # "idle"}
        /\ locked' = running /\ tampers' = tampers + 1
        /\ UNCHANGED <<issued, wanted, pc, copy, request, asked, held, running, after, faults>>
    BY <1>2 DEF Tamper, operator, container
  <2>2. \/ secret' = Absent
        \/ secret' \in Secrets /\ secret'.current = NoToken /\ secret'.previous = secret.previous /\ secret # Absent
    BY <1>2 DEF Tamper, Inv, TypeOK, Secrets, NoToken
  <2>3. TypeOK'
    BY <2>1, <2>2 DEF Inv, TypeOK, NoToken
  <2>4. CopyIsStored' /\ CopyIsDecided' /\ AskedHold'
    BY <2>1 DEF Inv, CopyIsStored, CopyIsDecided, AskedHold, HasToken, Overlapping
  <2>5. Newest' /\ StartedWithToken' /\ MembersReachable'
    BY <2>1, <2>2 DEF Inv, Newest, StartedWithToken, MembersReachable, HasToken
  <2> QED BY <2>3, <2>4, <2>5 DEF Inv
<1> QED BY <1>1, <1>2

-----------------------------------------------------------------------------
\* Every step keeps the invariant, if no kubelet starts a container with an older
\* token than its member held.
THEOREM Inductive == ASSUME StaleKubelets = FALSE PROVE Spec => []Inv
<1>1. Init => Inv
  BY InitInv
<1>2. Inv /\ [Next]_vars => Inv'
  <2> SUFFICES ASSUME Inv, [Next]_vars PROVE Inv'
    OBVIOUS
  <2>1. ASSUME NEW o \in Operators, Pass(o) \/ Fault(o) PROVE Inv'
    BY <2>1, ReadKeeps, WriteTokenKeeps, LastStepKeeps, CheckKeeps DEF Pass
  <2>2. ASSUME NEW m \in Members, Replace(m) \/ Crash(m) PROVE Inv'
    <3>1. Stop(m) /\ faults' \in Nat
      BY <2>2 DEF Replace, Crash, Inv, TypeOK
    <3> QED BY <3>1, StopKeeps
  <2>3. CASE Request \/ Tamper
    BY <2>3, UserKeeps
  <2>4. CASE UNCHANGED vars
    BY <2>4 DEF vars, operator, container, Inv, TypeOK, CopyIsStored, CopyIsDecided, AskedHold, Newest,
                StartedWithToken, MembersReachable, HasToken, Overlapping
  <2> QED BY <2>1, <2>2, <2>3, <2>4, StartKeeps, Zenon DEF Next
<1> QED BY <1>1, <1>2, PTL DEF Spec

\* reconcileIMTokenSecret, membersHoldToken: for any number of members and of
\* operator processes, crashes, conflicts and lost Secrets included, the operator
\* keeps a token that every running member accepts.
THEOREM NeverLockedOut == ASSUME StaleKubelets = FALSE PROVE Spec => []MembersReachable
<1>1. Inv => MembersReachable
  BY DEF Inv
<1> QED BY <1>1, Inductive, PTL

\* The Secret, the operators' copies and the members' tokens keep their types,
\* and no token is in use that was not issued.
THEOREM TypeCorrect == ASSUME StaleKubelets = FALSE PROVE Spec => []TypeOK
<1>1. Inv => TypeOK
  BY DEF Inv
<1> QED BY <1>1, Inductive, PTL
=============================================================================
