------------------------------- MODULE Promises -------------------------------
(***************************************************************************)
(* What the abstract specifications of a fleet's log and of a job queue    *)
(* promise, for any constants: the reason to implement them.  Publishing   *)
(* implements the one, Issuance and WebhookQueue the other (the theorem    *)
(* Refinement of each), so that these promises are theirs too.             *)
(***************************************************************************)
EXTENDS Naturals, Sequences, SequenceTheorems, TLAPS

CONSTANTS Snapshot, NoSnapshot, Item, Worker, NoItem
VARIABLES open, log, served, announced, status, holder

Log   == INSTANCE RevisionLog
Queue == INSTANCE WorkQueue

-----------------------------------------------------------------------------
(* The log of a fleet.                                                     *)

\* Agents are served the newest revision, and 404 only before the first.
ServesNewest == served = IF log = <<>> THEN NoSnapshot ELSE log[Len(log)]

\* Revisions are never changed, reordered or lost, and no announcement is taken
\* back, while the fleet exists.
Extends(s, t) == Len(s) <= Len(t) /\ \A i \in 1..Len(s) : t[i] = s[i]
OnlyGrows == [][open /\ open' => Extends(log, log') /\ announced \subseteq announced']_(Log!vars)

\* A publish puts one more snapshot behind the others.
LEMMA AppendExtends ==
  ASSUME NEW s \in Seq(Snapshot), NEW e \in Snapshot
  PROVE  /\ Append(s, e) \in Seq(Snapshot)
         /\ Append(s, e) # <<>>
         /\ Len(Append(s, e)) = Len(s) + 1
         /\ Append(s, e)[Len(Append(s, e))] = e
         /\ DOMAIN s \subseteq DOMAIN Append(s, e)
         /\ Extends(s, Append(s, e))
<1>1. Len(s) \in Nat
  BY LenProperties
<1>2. /\ Append(s, e) \in Seq(Snapshot)
      /\ Len(Append(s, e)) = Len(s) + 1
      /\ Append(s, e)[Len(s) + 1] = e
      /\ \A i \in 1..Len(s) : Append(s, e)[i] = s[i]
  BY AppendProperties
<1>3. DOMAIN s = 1..Len(s) /\ DOMAIN Append(s, e) = 1..(Len(s) + 1)
  BY <1>2, LenProperties
<1>4. Append(s, e) # <<>>
  BY <1>1, <1>2
<1>5. QED
  BY <1>1, <1>2, <1>3, <1>4 DEF Extends

\* The log and what is served of it: every step.
LEMMA LogStep ==
  ASSUME Log!TypeOK, ServesNewest, [Log!Next]_(Log!vars)
  PROVE  /\ Log!TypeOK' /\ ServesNewest'
         /\ open /\ open' => Extends(log, log') /\ announced \subseteq announced'
<1>1. ASSUME NEW s \in Snapshot, Log!Publish(s)
      PROVE  /\ Log!TypeOK' /\ ServesNewest'
             /\ Extends(log, log') /\ announced \subseteq announced'
  BY <1>1, AppendExtends DEF Log!Publish, Log!TypeOK, ServesNewest
<1>2. Extends(log, log)
  <2>1. Len(log) \in Nat
    BY LenProperties DEF Log!TypeOK
  <2>2. QED
    BY <2>1 DEF Extends
<1>3. ASSUME NEW n \in DOMAIN log, Log!Announce(n)
      PROVE  /\ Log!TypeOK' /\ ServesNewest'
             /\ Extends(log, log') /\ announced \subseteq announced'
  <2>1. /\ open' = open /\ log' = log /\ served' = served
        /\ announced' = announced \cup {n}
    BY <1>3 DEF Log!Announce
  <2>2. Extends(log, log')
    BY <1>2, <2>1
  <2>3. Log!TypeOK'
    BY <2>1 DEF Log!TypeOK
  <2>4. ServesNewest'
    BY <2>1 DEF ServesNewest
  <2>5. QED
    BY <2>1, <2>2, <2>3, <2>4
<1>4. ASSUME Log!Erase
      PROVE  Log!TypeOK' /\ ServesNewest' /\ ~open'
  <2>1. ~open' /\ log' = <<>> /\ served' = NoSnapshot /\ announced' = {}
    BY <1>4 DEF Log!Erase
  <2>2. Log!TypeOK'
    BY <1>4, EmptySeq DEF Log!Erase, Log!TypeOK
  <2>3. ServesNewest'
    BY <2>1 DEF ServesNewest
  <2>4. QED
    BY <2>1, <2>2, <2>3
<1>5. ASSUME Log!Reopen
      PROVE  Log!TypeOK' /\ ServesNewest' /\ ~open
  BY <1>5 DEF Log!Reopen, Log!TypeOK, ServesNewest
<1>6. ASSUME UNCHANGED Log!vars
      PROVE  /\ Log!TypeOK' /\ ServesNewest'
             /\ Extends(log, log') /\ announced \subseteq announced'
  BY <1>2, <1>6 DEF Log!vars, Log!TypeOK, ServesNewest
<1>7. QED
  BY <1>1, <1>3, <1>4, <1>5, <1>6 DEF Log!Next

\* What RevisionLog promises: whoever reads the published revision (GetPublished
\* Revision) gets the newest one, only revisions that exist are announced, and in
\* one life of the fleet nothing that was published or announced is undone.
THEOREM LogPromise ==
  Log!Spec => [](Log!TypeOK /\ ServesNewest) /\ OnlyGrows
<1>1. Log!Init => Log!TypeOK /\ ServesNewest
  BY DEF Log!Init, Log!TypeOK, ServesNewest
<1>2. QED
  BY <1>1, LogStep, PTL DEF Log!Spec, OnlyGrows

-----------------------------------------------------------------------------
(* The queue of workers.                                                   *)

\* Nobody works on what another works on, nor on what waits to be claimed or has
\* already failed.
OneHolder ==
    \A w \in Worker : holder[w] # NoItem =>
        /\ status[holder[w]] \in {"running", "succeeded", "deleted"}
        /\ \A v \in Worker \ {w} : holder[v] # holder[w]

\* What is given up on or deleted stays so, and nothing is queued twice.
Final == [][\A i \in Item :
              /\ status[i] = "failed" => status'[i] \in {"failed", "deleted"}
              /\ status[i] = "deleted" => status'[i] = "deleted"
              /\ status[i] # "absent" => status'[i] # "absent"]_(Queue!vars)

\* The queue: every step.
LEMMA QueueStep ==
  ASSUME NoItem \notin Item, Queue!TypeOK, OneHolder, [Queue!Next]_(Queue!vars)
  PROVE  /\ Queue!TypeOK' /\ OneHolder'
         /\ \A i \in Item :
              /\ status[i] = "failed" => status'[i] \in {"failed", "deleted"}
              /\ status[i] = "deleted" => status'[i] = "deleted"
              /\ status[i] # "absent" => status'[i] # "absent"
<1> USE DEF Queue!TypeOK, Queue!Status, OneHolder
<1>1. CASE \E i \in Item : Queue!Add(i)
  BY <1>1 DEF Queue!Add
<1>2. CASE \E w \in Worker, i \in Item : Queue!Claim(w, i)
  BY <1>2 DEF Queue!Claim
<1>3. CASE \E w \in Worker : Queue!Succeed(w)
  BY <1>3 DEF Queue!Succeed
<1>4. CASE \E w \in Worker : Queue!Settle(w)
  BY <1>4 DEF Queue!Settle
<1>5. CASE \E W \in SUBSET Worker : Queue!Release(W)
  BY <1>5 DEF Queue!Release
<1>6. CASE \E I \in SUBSET Item : Queue!Delete(I)
  BY <1>6 DEF Queue!Delete
<1>7. CASE UNCHANGED Queue!vars
  BY <1>7 DEF Queue!vars
<1>8. QED
  BY <1>1, <1>2, <1>3, <1>4, <1>5, <1>6, <1>7 DEF Queue!Next

\* What WorkQueue promises, of acme_jobs and of webhook_jobs: an item has one
\* worker at a time, a failed one is not touched again, and a deleted one does not
\* come back under a worker's late update.
THEOREM QueuePromise ==
  ASSUME NoItem \notin Item
  PROVE  Queue!Spec => [](Queue!TypeOK /\ OneHolder) /\ Final
<1>1. Queue!Init => Queue!TypeOK /\ OneHolder
  BY DEF Queue!Init, Queue!TypeOK, Queue!Status, OneHolder
<1>2. QED
  BY <1>1, QueueStep, PTL DEF Queue!Spec, Final
=============================================================================
