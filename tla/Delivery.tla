------------------------------ MODULE Delivery ------------------------------
(***************************************************************************)
(* How a published revision reaches Traefik: the config and heartbeat      *)
(* handlers (internal/api/agent_handlers.go) and the provider plugin's     *)
(* polling loop, cache file and cfgChan (providers/traefik-fleet).         *)
(*                                                                         *)
(* The fleet's revisions are the log that module Publishing implements.    *)
(* Answering a poll takes two queries (the published revision, then the    *)
(* agent's labels), with publishes and label edits in between.  The plugin *)
(* runs inside Traefik: a crash or restart takes both, and leaves only the *)
(* cache file.  A poll that fails for whatever reason (manager or network  *)
(* down, 401, 403, 404, a response the plugin rejects) keeps what runs.    *)
(***************************************************************************)
EXTENDS AgentConfig

CONSTANTS
    Agent,
    NoConfig,     \* Traefik has been given no configuration
    MaxRevisions, \* bound: revisions published
    MaxTimeouts,  \* bound: sends that Traefik does not take in time
    MaxCrashes    \* bound: restarts of a Traefik

ASSUME DeliveryAssumption ==
    /\ NoConfig \notin Config
    /\ MaxRevisions \in Nat
    /\ MaxTimeouts \in Nat
    /\ MaxCrashes \in Nat

VARIABLES
    log,       \* the fleet's revisions; the last one is published
    labels,    \* agents.labels
    seen,      \* agents.last_revision_seen, 0 before the first heartbeat
    failing,   \* is agents.last_error set?
    pc,        \* where each provider's loop is
    reply,     \* the response a provider is working on
    held,      \* lastApplied and lastETag of each provider
    traefik,   \* what each Traefik runs
    cache,     \* the cache file of each agent
    lost,      \* did Traefik miss the last configuration sent? (history)
    timeouts,  \* sends that timed out so far (bounds the model)
    crashes    \* restarts so far (bounds the model)

manager  == <<log, labels>>
reported == <<seen, failing>>
process  == <<pc, reply, held, traefik, lost>>
vars     == <<manager, reported, process, cache, timeouts, crashes>>

Version == [rev : 0..MaxRevisions, config : Config \cup {NoConfig}]
Nothing == [rev |-> 0, config |-> NoConfig]

Pc == {"down", "cached", "poll", "labels", "send", "save", "beat", "fail"}

-----------------------------------------------------------------------------
Init ==
    /\ log = <<>>
    /\ labels = [a \in Agent |-> {}]
    /\ seen = [a \in Agent |-> 0]
    /\ failing = [a \in Agent |-> FALSE]
    /\ pc = [a \in Agent |-> "down"]
    /\ reply = [a \in Agent |-> Nothing]
    /\ held = [a \in Agent |-> Nothing]
    /\ traefik = [a \in Agent |-> Nothing]
    /\ cache = [a \in Agent |-> Nothing]
    /\ lost = [a \in Agent |-> FALSE]
    /\ timeouts = 0
    /\ crashes = 0

-----------------------------------------------------------------------------
(* The administrator.                                                      *)

\* Any publish, automatic publish or rollback (RevisionLog!Publish).
Publish ==
    /\ Len(log) < MaxRevisions
    /\ \E s \in Snapshot : log' = Append(log, s)
    /\ UNCHANGED <<labels, reported, process, cache, timeouts, crashes>>

\* handleUpdateAgentLabels.
EditLabels(a) ==
    /\ \E l \in SUBSET Label : labels' = [labels EXCEPT ![a] = l]
    /\ UNCHANGED <<log, reported, process, cache, timeouts, crashes>>

-----------------------------------------------------------------------------
(* The start of the loop.                                                  *)

Goto(a, l) == pc' = [pc EXCEPT ![a] = l]

\* Mutant: the loop polls at once and leaves the cache alone.
StartWithoutCache(a) ==
    /\ pc[a] = "down"
    /\ Goto(a, "poll")
    /\ UNCHANGED <<manager, reported, reply, held, traefik, lost, cache, timeouts, crashes>>

\* run: read the cache file; a missing one is no error.
Start(a) ==
    /\ pc[a] = "down"
    /\ Goto(a, IF cache[a] = Nothing THEN "poll" ELSE "cached")
    /\ reply' = [reply EXCEPT ![a] = cache[a]]
    /\ UNCHANGED <<manager, reported, held, traefik, lost, cache, timeouts, crashes>>

\* Traefik stops or dies, and the plugin with it.
Crash(a) ==
    /\ pc[a] # "down"
    /\ crashes < MaxCrashes
    /\ crashes' = crashes + 1
    /\ Goto(a, "down")
    /\ reply' = [reply EXCEPT ![a] = Nothing]
    /\ held' = [held EXCEPT ![a] = Nothing]
    /\ traefik' = [traefik EXCEPT ![a] = Nothing]
    /\ lost' = [lost EXCEPT ![a] = FALSE]
    /\ UNCHANGED <<manager, reported, cache, timeouts>>

-----------------------------------------------------------------------------
(* A poll.                                                                 *)

\* Mutant: a rollback points the fleet back at an old row.
GetPublishedRevisionRepointed(a) ==
    /\ pc[a] = "poll"
    /\ \E n \in 1..Len(log) :
          reply' = [reply EXCEPT ![a] = [rev |-> n, config |-> NoConfig]]
    /\ Goto(a, "labels")
    /\ UNCHANGED <<manager, reported, held, traefik, lost, cache, timeouts, crashes>>

\* Mutant: a fleet that has published nothing is not a 404.
GetPublishedRevisionOrNone(a) ==
    /\ pc[a] = "poll"
    /\ Goto(a, "labels")
    /\ reply' = [reply EXCEPT ![a] = [rev |-> Len(log), config |-> NoConfig]]
    /\ UNCHANGED <<manager, reported, held, traefik, lost, cache, timeouts, crashes>>

\* handleGetConfig: GetPublishedRevision.
GetPublishedRevision(a) ==
    /\ pc[a] = "poll"
    /\ log # <<>>
    /\ Goto(a, "labels")
    /\ reply' = [reply EXCEPT ![a] = [rev |-> Len(log), config |-> NoConfig]]
    /\ UNCHANGED <<manager, reported, held, traefik, lost, cache, timeouts, crashes>>

\* Mutant: the configuration comes from the newest revision, the number does not.
ServedNewest(a) == Response(log[Len(log)], labels[a])
Served(a) == Response(log[reply[a].rev], labels[a])

\* Mutant: 304 whenever the revision number is the one the agent holds.
SameRevision(a) == held[a].rev = reply[a].rev
\* etagMatches: If-None-Match holds the ETag of the configuration held.
EtagMatches(a) == held[a].config = Served(a)

\* Mutant: nothing new, nothing to report.
NotModifiedSilently(a) ==
    /\ pc[a] = "labels"
    /\ EtagMatches(a)
    /\ Goto(a, "poll")
    /\ reply' = [reply EXCEPT ![a] = Nothing]
    /\ UNCHANGED <<manager, reported, held, traefik, lost, cache, timeouts, crashes>>

\* GetAgent, compile, and 304: the loop goes on to the heartbeat.
NotModified(a) ==
    /\ pc[a] = "labels"
    /\ EtagMatches(a)
    /\ Goto(a, "beat")
    /\ reply' = [reply EXCEPT ![a] = Nothing]
    /\ UNCHANGED <<manager, reported, held, traefik, lost, cache, timeouts, crashes>>

\* GetAgent, compile, and 200.
Modified(a) ==
    /\ pc[a] = "labels"
    /\ ~EtagMatches(a)
    /\ Goto(a, "send")
    /\ reply' = [reply EXCEPT ![a].config = Served(a)]
    /\ UNCHANGED <<manager, reported, held, traefik, lost, cache, timeouts, crashes>>

\* Mutant: "keep last good" by sending the cache file again.
FetchFailsReplayingCache(a) ==
    /\ pc[a] \in {"poll", "labels"}
    /\ Goto(a, IF cache[a] = Nothing THEN "fail" ELSE "cached")
    /\ reply' = [reply EXCEPT ![a] = cache[a]]
    /\ UNCHANGED <<manager, reported, held, traefik, lost, cache, timeouts, crashes>>

\* The provider gives up on this poll; the handler's work is lost.
FetchFails(a) ==
    /\ pc[a] \in {"poll", "labels"}
    /\ Goto(a, "fail")
    /\ reply' = [reply EXCEPT ![a] = Nothing]
    /\ UNCHANGED <<manager, reported, held, traefik, lost, cache, timeouts, crashes>>

\* send, then lastETag and lastApplied: Traefik takes the configuration, or
\* does not within PollTimeout, which is only logged.
AfterSend(a) ==
    /\ pc[a] \in {"cached", "send"}
    /\ held' = [held EXCEPT ![a] = reply[a]]
    /\ reply' = [reply EXCEPT ![a] = Nothing]
    /\ Goto(a, IF pc[a] = "cached" THEN "poll" ELSE "save")

SendTaken(a) ==
    /\ AfterSend(a)
    /\ traefik' = [traefik EXCEPT ![a] = reply[a]]
    /\ lost' = [lost EXCEPT ![a] = FALSE]
    /\ UNCHANGED <<manager, reported, cache, timeouts, crashes>>

SendTimesOut(a) ==
    /\ timeouts < MaxTimeouts
    /\ timeouts' = timeouts + 1
    /\ AfterSend(a)
    /\ lost' = [lost EXCEPT ![a] = TRUE]
    /\ UNCHANGED <<manager, reported, traefik, cache, crashes>>

\* saveCache replaces the file at once (rename) with the response just recorded.
SaveCache(a) ==
    /\ pc[a] = "save"
    /\ cache' = [cache EXCEPT ![a] = held[a]]
    /\ Goto(a, "beat")
    /\ UNCHANGED <<manager, reported, reply, held, traefik, lost, timeouts, crashes>>

\* Disk full, read-only or no cacheFile: only logged.
SaveCacheFails(a) ==
    /\ pc[a] = "save"
    /\ Goto(a, "beat")
    /\ UNCHANGED <<manager, reported, reply, held, traefik, lost, cache, timeouts, crashes>>

\* handleHeartbeat, then the ticker; current_revision is lastApplied.
Heartbeat(a) ==
    /\ pc[a] \in {"beat", "fail"}
    /\ Goto(a, "poll")
    /\ seen' = [seen EXCEPT ![a] = held[a].rev]
    /\ failing' = [failing EXCEPT ![a] = (pc[a] = "fail")]
    /\ UNCHANGED <<manager, reply, held, traefik, lost, cache, timeouts, crashes>>

\* Heartbeats are best-effort.
HeartbeatLost(a) ==
    /\ pc[a] \in {"beat", "fail"}
    /\ Goto(a, "poll")
    /\ UNCHANGED <<manager, reported, reply, held, traefik, lost, cache, timeouts, crashes>>

-----------------------------------------------------------------------------
Loop(a) ==
    \/ Start(a)
    \/ GetPublishedRevision(a)
    \/ NotModified(a)
    \/ Modified(a)
    \/ FetchFails(a)
    \/ SendTaken(a)
    \/ SendTimesOut(a)
    \/ SaveCache(a)
    \/ SaveCacheFails(a)
    \/ Heartbeat(a)
    \/ HeartbeatLost(a)

Next ==
    \/ Publish
    \/ \E a \in Agent : EditLabels(a) \/ Loop(a) \/ Crash(a)

Spec == Init /\ [][Next]_vars

\* The ticker keeps the loop going; the manager is not unreachable for ever.
Fairness(a) ==
    /\ WF_vars(Loop(a))
    /\ SF_vars(GetPublishedRevision(a))
    /\ SF_vars(NotModified(a) \/ Modified(a))
    /\ SF_vars(Heartbeat(a))

FairSpec == Spec /\ \A a \in Agent : Fairness(a)

-----------------------------------------------------------------------------
(* Properties.                                                             *)

\* Types, and what a response is about: while the manager works on one it is a
\* revision that exists, and none is left over between polls.
TypeOK ==
    /\ log \in Seq(Snapshot) /\ Len(log) <= MaxRevisions
    /\ labels \in [Agent -> SUBSET Label]
    /\ seen \in [Agent -> 0..MaxRevisions]
    /\ failing \in [Agent -> BOOLEAN]
    /\ pc \in [Agent -> Pc]
    /\ reply \in [Agent -> Version]
    /\ held \in [Agent -> Version]
    /\ traefik \in [Agent -> Version]
    /\ cache \in [Agent -> Version]
    /\ lost \in [Agent -> BOOLEAN]
    /\ timeouts \in 0..MaxTimeouts
    /\ crashes \in 0..MaxCrashes
    /\ \A a \in Agent :
          /\ pc[a] = "labels" => reply[a].rev \in 1..Len(log)
          /\ pc[a] \in {"down", "poll", "save", "beat", "fail"} => reply[a] = Nothing

\* v is one revision, rendered for some labels.
IsOneRevision(v) ==
    /\ v.rev \in 1..Len(log)
    /\ \E l \in SUBSET Label : v.config = Response(log[v.rev], l)

\* Between the two queries of a poll the fleet may publish and the labels may
\* change; still nobody ever holds, runs or stores the content of one revision
\* under the number of another.
NoMixture ==
    \A a \in Agent : \A v \in {held[a], traefik[a], cache[a]} :
        v = Nothing \/ IsOneRevision(v)

\* A 304 is the truth: at that moment Traefik runs exactly what the agent would
\* be served, labels edited since the last poll included, unless the last send
\* timed out.
NotModifiedIsTrue ==
    [][\A a \in Agent :
         (pc[a] = "labels" /\ pc'[a] = "beat" /\ ~lost[a])
         => traefik[a].config = Served(a)]_vars

\* docs/provider.md:58-60: what the provider records as the last applied
\* revision, writes to the cache and reports has been pushed to Traefik.
AppliedIsRunning ==
    \A a \in Agent : traefik[a] = held[a]

\* "A Traefik restart while the manager is down still routes traffic": once the
\* loop polls, a Traefik whose agent has a cache file runs a configuration.
RestartStillRoutes ==
    \A a \in Agent :
        /\ pc[a] \notin {"down", "cached"}
        /\ cache[a] # Nothing
        /\ ~lost[a]
        => traefik[a] # Nothing

\* However polls, publishes, lost sends and failed saves interleave, the cache
\* file never goes back to an older revision.
CacheNeverRegresses ==
    [][\A a \in Agent : cache'[a].rev >= cache[a].rev]_vars

\* Traefik never goes back to an older revision while it runs, and never goes
\* blank; after a restart it comes back with no less than the cache file.
TraefikNeverRegresses ==
    [][\A a \in Agent : traefik'[a] # traefik[a] =>
          \/ crashes' # crashes
          \/ traefik'[a].rev >= traefik[a].rev /\ traefik'[a].rev >= cache[a].rev]_vars

\* docs/labels.md:50-51, "the snapshot already has plaintext keys when the
\* recompile runs": every certificate Traefik is given comes with its key.
ServedCertsHaveKeys ==
    \A a \in Agent : traefik[a] # Nothing => traefik[a].config.keys = traefik[a].config.certs

\* The whole loop implements the registers of module Replica.
AsReplica == INSTANCE Replica WITH running <- traefik, durable <- cache
ImplementsReplica == AsReplica!Spec

Current(a) == log # <<>> => traefik[a].config = Response(log[Len(log)], labels[a])
Quiet == <>[][log' = log /\ labels' = labels]_vars

\* Once nobody publishes or edits labels, every Traefik comes to run what the
\* published revision means for its labels, through failed polls, restarts,
\* stale caches and reports that were lost, unless its last send timed out.
EventuallyCurrent ==
    Quiet => \A a \in Agent : <>[]~lost[a] => <>[]Current(a)

\* ... and the manager comes to know the revision its provider holds.
EventuallyReported ==
    Quiet => \A a \in Agent : <>[](seen[a] = held[a].rev)
=============================================================================
