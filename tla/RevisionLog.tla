----------------------------- MODULE RevisionLog -----------------------------
(***************************************************************************)
(* What the manager promises about one fleet's configuration, without the  *)
(* requests, queries and races that keep the promise: an append-only       *)
(* sequence of snapshots, of which the last one is served, and a set of    *)
(* revisions announced to webhook subscribers, which only ever holds       *)
(* revisions already in the sequence.  The promise ends when the fleet is  *)
(* deleted, and starts again, from nothing, when its id is created anew.   *)
(***************************************************************************)
EXTENDS Naturals, Sequences

CONSTANT
    Snapshot,   \* the configurations a revision can hold
    NoSnapshot  \* "nothing is published": the agents get 404

VARIABLES
    open,       \* does the promise hold now?
    log,        \* every revision of the fleet, by number
    served,     \* the snapshot agents are given
    announced   \* the revisions webhook subscribers were told of

vars == <<open, log, served, announced>>

TypeOK ==
    /\ open \in BOOLEAN
    /\ log \in Seq(Snapshot)
    /\ served \in Snapshot \cup {NoSnapshot}
    /\ announced \subseteq DOMAIN log

Init ==
    /\ open = TRUE
    /\ log = <<>>
    /\ served = NoSnapshot
    /\ announced = {}

\* A publish or a rollback: one more revision, and it is the one served.
Publish(s) ==
    /\ open
    /\ log' = Append(log, s)
    /\ served' = s
    /\ UNCHANGED <<open, announced>>

\* A webhook delivery is queued for revision n.
Announce(n) ==
    /\ open
    /\ announced' = announced \cup {n}
    /\ UNCHANGED <<open, log, served>>

\* The fleet is deleted, with everything that hangs off it; or a request of an
\* earlier fleet of the same id reaches it, and nothing is promised any more.
Erase ==
    /\ open
    /\ open' = FALSE
    /\ log' = <<>>
    /\ served' = NoSnapshot
    /\ announced' = {}

\* The fleet's id is created anew, with no revision.
Reopen ==
    /\ ~open
    /\ open' = TRUE
    /\ UNCHANGED <<log, served, announced>>

Next ==
    \/ \E s \in Snapshot : Publish(s)
    \/ \E n \in DOMAIN log : Announce(n)
    \/ Erase
    \/ Reopen

Spec == Init /\ [][Next]_vars
=============================================================================
