------------------------------ MODULE WorkQueue ------------------------------
(***************************************************************************)
(* What the two job tables (acme_jobs, webhook_jobs) promise the workers   *)
(* that share them, whatever a job is about: an item is worked on by one   *)
(* worker at a time, only a pending item is taken, and a failed one is     *)
(* never touched again.  A worker may vanish and leave its item running;   *)
(* an item may be deleted under its worker.                                *)
(***************************************************************************)
EXTENDS Naturals

CONSTANTS
    Item,
    Worker,
    NoItem

VARIABLES
    status,   \* of every item, absent before it is added
    holder    \* the item each worker works on

vars == <<status, holder>>

Status == {"absent", "pending", "running", "succeeded", "failed", "deleted"}

TypeOK ==
    /\ status \in [Item -> Status]
    /\ holder \in [Worker -> Item \cup {NoItem}]

Init ==
    /\ status = [i \in Item |-> "absent"]
    /\ holder = [w \in Worker |-> NoItem]

Add(i) ==
    /\ status[i] = "absent"
    /\ status' = [status EXCEPT ![i] = "pending"]
    /\ UNCHANGED holder

Claim(w, i) ==
    /\ holder[w] = NoItem
    /\ status[i] = "pending"
    /\ status' = [status EXCEPT ![i] = "running"]
    /\ holder' = [holder EXCEPT ![w] = i]

\* The worker keeps the item: there is work left that can still fail.
Succeed(w) ==
    /\ holder[w] # NoItem
    /\ status[holder[w]] = "running"
    /\ status' = [status EXCEPT ![holder[w]] = "succeeded"]
    /\ UNCHANGED holder

\* Back to the queue, or final; and the worker lets go of it.
Settle(w) ==
    /\ holder[w] # NoItem
    /\ \/ status[holder[w]] = "running"
       \/ status[holder[w]] = "succeeded" /\ status'[holder[w]] = "failed"
    /\ \E s \in {"pending", "succeeded", "failed"} :
          status' = [status EXCEPT ![holder[w]] = s]
    /\ holder' = [holder EXCEPT ![w] = NoItem]

\* Workers let go of their items: done, died, or the item is gone.
Release(W) ==
    /\ holder' = [w \in Worker |-> IF w \in W THEN NoItem ELSE holder[w]]
    /\ UNCHANGED status

Delete(I) ==
    /\ \A i \in I : status[i] # "absent"
    /\ status' = [i \in Item |-> IF i \in I THEN "deleted" ELSE status[i]]
    /\ UNCHANGED holder

Next ==
    \/ \E i \in Item : Add(i)
    \/ \E w \in Worker, i \in Item : Claim(w, i)
    \/ \E w \in Worker : Succeed(w) \/ Settle(w)
    \/ \E W \in SUBSET Worker : Release(W)
    \/ \E I \in SUBSET Item : Delete(I)

Spec == Init /\ [][Next]_vars
=============================================================================
