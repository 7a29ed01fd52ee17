------------------------------- MODULE Replica -------------------------------
(***************************************************************************)
(* What the fleet promises about the configuration each Traefik runs, with *)
(* no polls, ETags, channels or files: Traefik runs nothing, or what some  *)
(* published revision means for some labels, moves only to revisions as    *)
(* new as the one it runs, and after a restart picks up no earlier than    *)
(* the version on its disk, which itself never goes back.                  *)
(***************************************************************************)
EXTENDS AgentConfig

CONSTANTS
    Agent,
    NoConfig    \* Traefik has been given no configuration

VARIABLES
    log,      \* the fleet's revisions; the last one is published
    running,  \* what each Traefik runs
    durable   \* what each agent's disk holds

vars == <<log, running, durable>>

Nothing == [rev |-> 0, config |-> NoConfig]

\* What agents may hold of the revisions so far.
Versions ==
    {[rev |-> n, config |-> Response(log[n], l)] : n \in 1..Len(log), l \in SUBSET Label}

Init ==
    /\ log = <<>>
    /\ running = [a \in Agent |-> Nothing]
    /\ durable = [a \in Agent |-> Nothing]

Publish ==
    /\ \E s \in Snapshot : log' = Append(log, s)
    /\ UNCHANGED <<running, durable>>

Adopt(a) ==
    \E v \in Versions :
        /\ v.rev >= running[a].rev
        /\ v.rev >= durable[a].rev
        /\ running' = [running EXCEPT ![a] = v]
        /\ UNCHANGED <<log, durable>>

Persist(a) ==
    \E v \in Versions :
        /\ v.rev >= durable[a].rev
        /\ durable' = [durable EXCEPT ![a] = v]
        /\ UNCHANGED <<log, running>>

Restart(a) ==
    /\ running' = [running EXCEPT ![a] = Nothing]
    /\ UNCHANGED <<log, durable>>

Next == Publish \/ \E a \in Agent : Adopt(a) \/ Persist(a) \/ Restart(a)

Spec == Init /\ [][Next]_vars
=============================================================================
