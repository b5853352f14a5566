--------------------------- MODULE OperationLedger ---------------------------
(***************************************************************************)
(* What the operation store promises its callers, without files, failed    *)
(* writes or restarts: a ledger of operations.  An operation is entered    *)
(* open, under a key no other operation of its kind has, on a database no  *)
(* other open operation holds; it ends once, and its end stays.  A loss of *)
(* power takes back only what was not settled.                             *)
(***************************************************************************)
CONSTANTS Ids, Requests, NoRecord

VARIABLES
    ledger,  \* NoRecord, or the operation's request and "open" or its end
    settled  \* the entries that outlast a loss of power

Init ==
    /\ ledger = [id \in Ids |-> NoRecord]
    /\ settled = Ids

\* Any number of open operations end, each in its own way.
Ended(before, after) ==
    \A id \in Ids :
        \/ after[id] = before[id]
        \/ /\ before[id] # NoRecord
           /\ before[id].state = "open"
           /\ after[id] \in {[before[id] EXCEPT !.state = end] : end \in {"Completed", "Failed"}}

End == Ended(ledger, ledger')

\* A new operation is entered, beside ones that have just ended.
Enter(id, req) ==
    /\ ledger[id] = NoRecord
    /\ ledger'[id] = [req |-> req, state |-> "open"]
    /\ Ended(ledger, [ledger' EXCEPT ![id] = NoRecord])
    /\ \A other \in Ids \ {id} : ledger'[other] # NoRecord =>
         /\ ~(ledger'[other].req.key = req.key /\ ledger'[other].req.kind = req.kind)
         /\ ledger'[other].req.db = req.db => ledger'[other].state # "open"

\* An entry that is not settled is gone, open again or as it was; one that could
\* not be entered may appear.
Lose ==
    /\ \A id \in Ids :
         \/ ledger'[id] = ledger[id]
         \/ id \notin settled /\ (ledger'[id] = NoRecord \/ ledger'[id].state = "open")
    /\ settled' = Ids

Next ==
    /\ DOMAIN ledger' = Ids
    /\ \/ /\ End \/ \E id \in Ids, req \in Requests : Enter(id, req)
          /\ \A id \in settled : ledger[id] # NoRecord /\ ledger'[id] = ledger[id] => id \in settled'
       \/ Lose

Spec == Init /\ [][Next]_<<ledger, settled>>
=============================================================================
