--------------------------- MODULE DeliveryProofs ---------------------------
(***************************************************************************)
(* Proofs about Delivery, for any agents, hosts, labels, certificates and  *)
(* bounds, whatever polls, publishes, label edits, lost sends, failed      *)
(* saves and restarts interleave.                                          *)
(***************************************************************************)
EXTENDS Delivery, SequenceTheorems, TLAPS

-----------------------------------------------------------------------------
(* The inductive invariant.  What makes "never back" inductive is that a   *)
(* response in hand is at least as new as what the provider holds, which   *)
(* is at least as new as what Traefik runs and, once the loop polls, as    *)
(* what the cache file holds.                                              *)

Genuine(v) == v = Nothing \/ IsOneRevision(v)

AgentOK(a) ==
    /\ Genuine(held[a]) /\ Genuine(traefik[a]) /\ Genuine(cache[a])
    /\ traefik[a].rev <= held[a].rev
    /\ ~lost[a] => traefik[a] = held[a]
    /\ pc[a] \in {"down", "cached"} => held[a] = Nothing
    /\ pc[a] \notin {"down", "cached"} => cache[a].rev <= held[a].rev
    /\ pc[a] \in {"labels", "send"} => held[a].rev <= reply[a].rev
    /\ pc[a] = "cached" => reply[a] = cache[a] /\ cache[a] # Nothing
    /\ pc[a] = "send" => IsOneRevision(reply[a])
    /\ pc[a] = "save" => held[a] # Nothing

IInv == TypeOK /\ \A a \in Agent : AgentOK(a)

-----------------------------------------------------------------------------
(* What an agent is served.                                                *)

\* Whatever the labels, a response is a configuration.
LEMMA ResponseType ==
  ASSUME NEW s \in Snapshot, NEW l \in SUBSET Label
  PROVE  Response(s, l) \in Config
<1>1. Compiled(s) \in Config
  BY DEF Snapshot, Config, Compiled
<1>2. Recompiled(s, l) \in Config
  BY DEF Snapshot, Config, Recompiled, KeysAfterJSON
<1>3. QED
  BY <1>1, <1>2 DEF Response

\* The state before any configuration.
LEMMA NothingType == Nothing \in Version /\ Nothing.rev = 0
  BY DeliveryAssumption DEF Nothing, Version

\* While the manager works on a response, it serves one revision for the
\* labels it finds.
LEMMA ServedIsOneRevision ==
  ASSUME TypeOK, NEW a \in Agent, pc[a] = "labels"
  PROVE  /\ Served(a) \in Config
         /\ [reply[a] EXCEPT !.config = Served(a)] \in Version
         /\ IsOneRevision([reply[a] EXCEPT !.config = Served(a)])
<1>1. reply[a].rev \in 1..Len(log) /\ reply[a] \in Version
  BY DEF TypeOK
<1>2. log[reply[a].rev] \in Snapshot /\ labels[a] \in SUBSET Label
  BY <1>1 DEF TypeOK
<1>3. Served(a) \in Config
  BY <1>2, ResponseType DEF Served
<1>4. [reply[a] EXCEPT !.config = Served(a)] = [rev |-> reply[a].rev, config |-> Served(a)]
  BY <1>1 DEF Version
<1>5. QED
  BY <1>1, <1>2, <1>3, <1>4 DEF IsOneRevision, Served, Version

\* What is genuine stays so when a revision is added.
LEMMA GenuineAfterPublish ==
  ASSUME log \in Seq(Snapshot), NEW s \in Snapshot, log' = Append(log, s)
  PROVE  /\ log' \in Seq(Snapshot) /\ Len(log') = Len(log) + 1
         /\ \A n \in 1..Len(log) : n \in 1..Len(log') /\ log'[n] = log[n]
  OBVIOUS

-----------------------------------------------------------------------------
(* Type correctness.                                                       *)

\* Types: the start.
LEMMA InitTypeOK == Init => TypeOK
<1> SUFFICES ASSUME Init
             PROVE  TypeOK
  OBVIOUS
<1>1. log \in Seq(Snapshot) /\ Len(log) <= MaxRevisions
  BY DeliveryAssumption DEF Init
<1>2. QED
  BY <1>1, NothingType, DeliveryAssumption DEF Init, TypeOK, Pc

\* Types: every step.
LEMMA NextTypeOK == TypeOK /\ [Next]_vars => TypeOK'
<1> SUFFICES ASSUME TypeOK, [Next]_vars
             PROVE  TypeOK'
  OBVIOUS
<1> USE DeliveryAssumption, NothingType
<1>1. CASE Publish
  <2>1. PICK s \in Snapshot : log' = Append(log, s)
    BY <1>1 DEF Publish
  <2>2. log' \in Seq(Snapshot) /\ Len(log') <= MaxRevisions
    BY <1>1, <2>1 DEF Publish, TypeOK
  <2>3. \A n \in 1..Len(log) : n \in 1..Len(log')
    BY <2>1, GenuineAfterPublish DEF TypeOK
  <2>4. QED
    BY <1>1, <2>2, <2>3 DEF Publish, TypeOK, reported, process
<1>2. ASSUME NEW a \in Agent, EditLabels(a)
      PROVE  TypeOK'
  BY <1>2 DEF EditLabels, TypeOK, reported, process
<1>3. ASSUME NEW a \in Agent, Start(a)
      PROVE  TypeOK'
  BY <1>3 DEF Start, Goto, TypeOK, manager, reported, Pc
<1>4. ASSUME NEW a \in Agent, Crash(a)
      PROVE  TypeOK'
  BY <1>4 DEF Crash, Goto, TypeOK, manager, reported, Pc
<1>5. ASSUME NEW a \in Agent, GetPublishedRevision(a)
      PROVE  TypeOK'
  <2>1. Len(log) \in 1..MaxRevisions
    BY <1>5 DEF GetPublishedRevision, TypeOK
  <2>2. [rev |-> Len(log), config |-> NoConfig] \in Version
    BY <2>1 DEF Version
  <2>3. QED
    BY <1>5, <2>1, <2>2 DEF GetPublishedRevision, Goto, TypeOK, manager, reported, Pc
<1>6. ASSUME NEW a \in Agent, NotModified(a)
      PROVE  TypeOK'
  BY <1>6 DEF NotModified, Goto, TypeOK, manager, reported, Pc
<1>7. ASSUME NEW a \in Agent, Modified(a)
      PROVE  TypeOK'
  <2>1. [reply[a] EXCEPT !.config = Served(a)] \in Version
    BY <1>7, ServedIsOneRevision DEF Modified
  <2>2. reply' = [reply EXCEPT ![a] = [reply[a] EXCEPT !.config = Served(a)]]
    BY <1>7 DEF Modified
  <2>3. QED
    BY <1>7, <2>1, <2>2 DEF Modified, Goto, TypeOK, manager, reported, Pc
<1>8. ASSUME NEW a \in Agent, FetchFails(a)
      PROVE  TypeOK'
  BY <1>8 DEF FetchFails, Goto, TypeOK, manager, reported, Pc
<1>9. ASSUME NEW a \in Agent, SendTaken(a)
      PROVE  TypeOK'
  BY <1>9 DEF SendTaken, AfterSend, Goto, TypeOK, manager, reported, Pc
<1>10. ASSUME NEW a \in Agent, SendTimesOut(a)
       PROVE  TypeOK'
  BY <1>10 DEF SendTimesOut, AfterSend, Goto, TypeOK, manager, reported, Pc
<1>11. ASSUME NEW a \in Agent, SaveCache(a)
       PROVE  TypeOK'
  BY <1>11 DEF SaveCache, Goto, TypeOK, manager, reported, Pc
<1>12. ASSUME NEW a \in Agent, SaveCacheFails(a)
       PROVE  TypeOK'
  BY <1>12 DEF SaveCacheFails, Goto, TypeOK, manager, reported, Pc
<1>13. ASSUME NEW a \in Agent, Heartbeat(a)
       PROVE  TypeOK'
  <2>1. held[a].rev \in 0..MaxRevisions
    BY DEF TypeOK, Version
  <2>2. QED
    BY <1>13, <2>1 DEF Heartbeat, Goto, TypeOK, manager, Pc
<1>14. ASSUME NEW a \in Agent, HeartbeatLost(a)
       PROVE  TypeOK'
  BY <1>14 DEF HeartbeatLost, Goto, TypeOK, manager, reported, Pc
<1>15. CASE UNCHANGED vars
  BY <1>15 DEF vars, TypeOK, manager, reported, process
<1>16. QED
  BY <1>1, <1>2, <1>3, <1>4, <1>5, <1>6, <1>7, <1>8, <1>9, <1>10, <1>11, <1>12,
     <1>13, <1>14, <1>15 DEF Next, Loop

\* Every variable keeps its type, and the manager never works on a revision
\* that does not exist.
THEOREM TypeCorrect == Spec => []TypeOK
<1>1. Init => TypeOK
  BY InitTypeOK
<1>2. TypeOK /\ [Next]_vars => TypeOK'
  BY NextTypeOK
<1>3. QED
  BY <1>1, <1>2, PTL DEF Spec

-----------------------------------------------------------------------------
(* The invariant is inductive.                                             *)

\* Every agent starts with nothing, which is as new as what it holds.
LEMMA InitAgentOK == Init => \A a \in Agent : AgentOK(a)
  BY NothingType DEF Init, AgentOK, Genuine

\* A step of one agent leaves what another one holds, runs and stores alone.
Elsewhere(a) ==
    \A b \in Agent \ {a} :
        /\ pc'[b] = pc[b] /\ reply'[b] = reply[b] /\ held'[b] = held[b]
        /\ traefik'[b] = traefik[b] /\ cache'[b] = cache[b] /\ lost'[b] = lost[b]

\* A step of one agent leaves the others as they were.
LEMMA ElsewhereOK ==
  ASSUME NEW a \in Agent, Elsewhere(a), log' = log,
         \A b \in Agent : AgentOK(b), AgentOK(a)'
  PROVE  \A b \in Agent : AgentOK(b)'
  BY DEF Elsewhere, AgentOK, Genuine, IsOneRevision

\* A new revision makes nothing older than it was, nor a response newer than the log.
LEMMA PublishAgentOK ==
  ASSUME TypeOK, \A a \in Agent : AgentOK(a), Publish
  PROVE  \A a \in Agent : AgentOK(a)'
<1>1. PICK s \in Snapshot : log' = Append(log, s)
  BY DEF Publish
<1>2. \A n \in 1..Len(log) : n \in 1..Len(log') /\ log'[n] = log[n]
  BY <1>1, GenuineAfterPublish DEF TypeOK
<1>3. \A v : IsOneRevision(v) =>
             /\ v.rev \in 1..Len(log')
             /\ \E l \in SUBSET Label : v.config = Response(log'[v.rev], l)
  BY <1>2 DEF IsOneRevision
<1>4. UNCHANGED <<pc, reply, held, traefik, cache, lost>>
  BY DEF Publish, process
<1> SUFFICES ASSUME NEW a \in Agent
             PROVE  AgentOK(a)'
  OBVIOUS
<1>5. /\ Genuine(held[a])' /\ Genuine(traefik[a])' /\ Genuine(cache[a])'
      /\ IsOneRevision(reply[a]) => IsOneRevision(reply[a])'
  BY <1>3, <1>4 DEF AgentOK, Genuine, IsOneRevision, Nothing
<1>6. QED
  BY <1>4, <1>5 DEF AgentOK, Nothing

\* What is about to be sent is a revision no older than any the agent knows.
LEMMA SentIsNewest ==
  ASSUME TypeOK, NEW a \in Agent, AgentOK(a), pc[a] \in {"cached", "send"}
  PROVE  /\ IsOneRevision(reply[a]) /\ reply[a] # Nothing
         /\ cache[a].rev <= reply[a].rev
         /\ traefik[a].rev <= reply[a].rev
<1>1. /\ reply[a].rev \in Nat /\ held[a].rev \in Nat
      /\ traefik[a].rev \in Nat /\ cache[a].rev \in Nat
  BY DEF TypeOK, Version
<1>2. IsOneRevision(reply[a])
  BY DEF AgentOK, Genuine
<1>3. reply[a].rev >= 1
  BY <1>1, <1>2 DEF IsOneRevision
<1>4. CASE pc[a] = "cached"
  <2>1. held[a].rev = 0 /\ reply[a] = cache[a]
    BY <1>4, NothingType DEF AgentOK
  <2>2. traefik[a].rev <= reply[a].rev
    BY <1>1, <2>1 DEF AgentOK
  <2>3. QED
    BY <1>1, <1>2, <1>3, <2>1, <2>2, NothingType
<1>5. CASE pc[a] = "send"
  <2>1. /\ traefik[a].rev <= held[a].rev /\ cache[a].rev <= held[a].rev
        /\ held[a].rev <= reply[a].rev
    BY <1>5 DEF AgentOK
  <2>2. QED
    BY <1>1, <1>2, <1>3, <2>1, NothingType
<1>6. QED
  BY <1>4, <1>5

\* Each step of the provider loop, and its crash, keeps the order of what the agent
\* holds, runs and stores.
LEMMA LoopAgentOK ==
  ASSUME TypeOK, NEW a \in Agent, AgentOK(a), Loop(a) \/ Crash(a)
  PROVE  AgentOK(a)' /\ Elsewhere(a) /\ log' = log
<1> USE NothingType
<1>1. CASE Start(a)
  <2>1. /\ pc'[a] = IF cache[a] = Nothing THEN "poll" ELSE "cached"
        /\ reply'[a] = cache[a]
        /\ UNCHANGED <<held, traefik, cache, lost>>
    BY <1>1 DEF Start, Goto, TypeOK
  <2>2. QED
    BY <1>1, <2>1 DEF Start, Goto, TypeOK, manager, AgentOK, Genuine, IsOneRevision, Elsewhere
<1>2. CASE Crash(a)
  BY <1>2 DEF Crash, Goto, TypeOK, manager, AgentOK, Genuine, IsOneRevision, Elsewhere
<1>3. CASE GetPublishedRevision(a)
  <2>1. held[a].rev <= Len(log)
    BY <1>3 DEF AgentOK, Genuine, IsOneRevision, GetPublishedRevision, TypeOK
  <2>2. QED
    BY <1>3, <2>1 DEF GetPublishedRevision, Goto, TypeOK, manager, AgentOK, Genuine,
       IsOneRevision, Elsewhere
<1>4. CASE NotModified(a)
  BY <1>4 DEF NotModified, Goto, TypeOK, manager, AgentOK, Genuine, IsOneRevision, Elsewhere
<1>5. CASE Modified(a)
  <2> DEFINE v == [reply[a] EXCEPT !.config = Served(a)]
  <2>1. IsOneRevision(v) /\ v.rev = reply[a].rev
    BY <1>5, ServedIsOneRevision DEF Modified, TypeOK, Version
  <2>2. /\ pc'[a] = "send" /\ reply'[a] = v
        /\ UNCHANGED <<log, held, traefik, cache, lost>>
    BY <1>5 DEF Modified, Goto, TypeOK, manager
  <2>3. IsOneRevision(reply[a])'
    BY <2>1, <2>2 DEF IsOneRevision
  <2>4. AgentOK(a)'
    BY <1>5, <2>1, <2>2, <2>3 DEF Modified, AgentOK, Genuine, IsOneRevision
  <2>5. QED
    BY <1>5, <2>2, <2>4 DEF Modified, Goto, TypeOK, Elsewhere
<1>6. CASE FetchFails(a)
  BY <1>6 DEF FetchFails, Goto, TypeOK, manager, AgentOK, Genuine, IsOneRevision, Elsewhere
<1>7. CASE AfterSend(a) /\ (SendTaken(a) \/ SendTimesOut(a))
  <2>1. /\ held'[a] = reply[a]
        /\ pc'[a] = IF pc[a] = "cached" THEN "poll" ELSE "save"
        /\ \/ traefik'[a] = reply[a] /\ ~lost'[a]
           \/ traefik'[a] = traefik[a] /\ lost'[a]
        /\ UNCHANGED <<log, cache>>
    BY <1>7 DEF AfterSend, SendTaken, SendTimesOut, Goto, TypeOK, manager
  <2>2. /\ IsOneRevision(reply[a]) /\ reply[a] # Nothing
        /\ cache[a].rev <= reply[a].rev /\ traefik[a].rev <= reply[a].rev
    BY <1>7, SentIsNewest DEF AfterSend
  <2>4. Genuine(held[a])' /\ Genuine(traefik[a])' /\ Genuine(cache[a])'
    BY <2>1, <2>2 DEF AgentOK, Genuine, IsOneRevision
  <2>5. traefik'[a].rev <= held'[a].rev /\ cache'[a].rev <= held'[a].rev
    BY <2>1, <2>2 DEF TypeOK, Version
  <2>6. AgentOK(a)'
    BY <2>1, <2>2, <2>4, <2>5 DEF AgentOK
  <2>7. Elsewhere(a)
    BY <1>7 DEF AfterSend, SendTaken, SendTimesOut, Goto, TypeOK, Elsewhere
  <2>8. QED
    BY <2>1, <2>6, <2>7
<1>8. CASE SaveCache(a)
  <2>1. /\ pc[a] = "save" /\ pc'[a] = "beat"
        /\ cache'[a] = held[a]
        /\ UNCHANGED <<log, reply, held, traefik, lost>>
    BY <1>8 DEF SaveCache, Goto, TypeOK, manager
  <2>2. held[a].rev <= held[a].rev
    BY DEF TypeOK, Version
  <2>3. Genuine(held[a])' /\ Genuine(traefik[a])' /\ Genuine(cache[a])'
    BY <2>1 DEF AgentOK, Genuine, IsOneRevision
  <2>4. AgentOK(a)'
    BY <2>1, <2>2, <2>3 DEF AgentOK
  <2>5. Elsewhere(a)
    BY <1>8 DEF SaveCache, Goto, TypeOK, Elsewhere
  <2>6. QED
    BY <2>1, <2>4, <2>5
<1>9. CASE SaveCacheFails(a)
  BY <1>9 DEF SaveCacheFails, Goto, TypeOK, manager, AgentOK, Genuine, IsOneRevision, Elsewhere
<1>10. CASE Heartbeat(a) \/ HeartbeatLost(a)
  BY <1>10 DEF Heartbeat, HeartbeatLost, Goto, TypeOK, manager, AgentOK, Genuine,
     IsOneRevision, Elsewhere
<1>11. QED
  BY <1>1, <1>2, <1>3, <1>4, <1>5, <1>6, <1>7, <1>8, <1>9, <1>10
     DEF Loop, SendTaken, SendTimesOut

\* AgentOK holds after every step, for every agent.
LEMMA NextAgentOK ==
  ASSUME TypeOK, \A a \in Agent : AgentOK(a), [Next]_vars
  PROVE  \A a \in Agent : AgentOK(a)'
<1>1. CASE Publish
  BY <1>1, PublishAgentOK
<1>2. ASSUME NEW a \in Agent, EditLabels(a)
      PROVE  \A b \in Agent : AgentOK(b)'
  BY <1>2 DEF EditLabels, process, AgentOK, Genuine, IsOneRevision
<1>3. ASSUME NEW a \in Agent, Loop(a) \/ Crash(a)
      PROVE  \A b \in Agent : AgentOK(b)'
  BY <1>3, LoopAgentOK, ElsewhereOK
<1>4. CASE UNCHANGED vars
  BY <1>4 DEF vars, manager, process, AgentOK, Genuine, IsOneRevision
<1>5. QED
  BY <1>1, <1>2, <1>3, <1>4 DEF Next

\* What the agents hold, cache and serve stays in order in every reachable state.
THEOREM Invariance == Spec => []IInv
<1>1. Init => IInv
  BY InitTypeOK, InitAgentOK DEF IInv
<1>2. IInv /\ [Next]_vars => IInv'
  BY NextTypeOK, NextAgentOK DEF IInv
<1>3. QED
  BY <1>1, <1>2, PTL DEF Spec

-----------------------------------------------------------------------------
(* What follows from it.                                                   *)

\* No agent ever holds, runs or stores the content of one revision under the
\* number of another, whatever happens between the two queries of a poll.
THEOREM NeverMixed == Spec => []NoMixture
<1>1. IInv => NoMixture
  BY DEF IInv, AgentOK, Genuine, NoMixture
<1>2. QED
  BY <1>1, Invariance, PTL

\* Once the loop polls, a Traefik whose agent has a cache file runs something,
\* unless it did not take the last configuration sent.
THEOREM RestartRoutes == Spec => []RestartStillRoutes
<1>1. IInv => RestartStillRoutes
  <2> SUFFICES ASSUME IInv, NEW a \in Agent, pc[a] \notin {"down", "cached"},
                      cache[a] # Nothing, ~lost[a], traefik[a] = Nothing
               PROVE  FALSE
    BY DEF RestartStillRoutes
  <2>1. held[a].rev = 0 /\ cache[a].rev <= 0
    BY NothingType DEF IInv, AgentOK
  <2>2. cache[a].rev >= 1
    BY DEF IInv, AgentOK, Genuine, IsOneRevision, TypeOK
  <2>3. QED
    BY <2>1, <2>2 DEF IInv, TypeOK, Version
<1>2. QED
  BY <1>1, Invariance, PTL

\* Only SaveCache writes the cache file, and what is held is never older.
LEMMA CacheStep ==
  ASSUME IInv, Next, NEW a \in Agent
  PROVE  cache'[a] = cache[a] \/ SaveCache(a)
<1>1. CASE Publish
  BY <1>1 DEF Publish
<1>2. ASSUME NEW b \in Agent, EditLabels(b) \/ Crash(b)
      PROVE  cache'[a] = cache[a]
  BY <1>2 DEF EditLabels, Crash
<1>3. ASSUME NEW b \in Agent, Loop(b)
      PROVE  cache'[a] = cache[a] \/ SaveCache(a)
  <2>1. CASE SaveCache(b)
    BY <2>1 DEF SaveCache, IInv, TypeOK
  <2>2. CASE UNCHANGED cache
    BY <2>2
  <2>3. QED
    BY <1>3, <2>1, <2>2 DEF Loop, Start, GetPublishedRevision, NotModified, Modified,
       FetchFails, SendTaken, SendTimesOut, SaveCacheFails, Heartbeat, HeartbeatLost
<1>4. QED
  BY <1>1, <1>2, <1>3 DEF Next

\* The cache file never goes back to an older revision.
THEOREM CacheMonotone == Spec => CacheNeverRegresses
<1>1. IInv /\ [Next]_vars => [\A a \in Agent : cache'[a].rev >= cache[a].rev]_vars
  <2> SUFFICES ASSUME IInv, Next, NEW a \in Agent
               PROVE  cache'[a].rev >= cache[a].rev
    BY DEF vars
  <2>1. CASE cache'[a] = cache[a]
    BY <2>1 DEF IInv, TypeOK, Version
  <2>2. CASE SaveCache(a)
    <3>1. cache'[a] = held[a] /\ pc[a] = "save"
      BY <2>2 DEF SaveCache, IInv, TypeOK
    <3>2. cache[a].rev <= held[a].rev
      BY <3>1 DEF IInv, AgentOK
    <3>3. QED
      BY <3>1, <3>2 DEF IInv, TypeOK, Version
  <2>3. QED
    BY <2>1, <2>2, CacheStep
<1>2. QED
  BY <1>1, Invariance, PTL DEF Spec, CacheNeverRegresses

\* A step that takes agent a from working on a response to its heartbeat is
\* the 304.
LEMMA NotModifiedStep ==
  ASSUME IInv, Next, NEW a \in Agent, pc[a] = "labels", pc'[a] = "beat"
  PROVE  NotModified(a)
<1>1. CASE Publish
  BY <1>1 DEF Publish, process
<1>2. ASSUME NEW b \in Agent, EditLabels(b)
      PROVE  FALSE
  BY <1>2 DEF EditLabels, process
<1>3. ASSUME NEW b \in Agent, Loop(b) \/ Crash(b)
      PROVE  NotModified(a)
  <2>1. b = a
    BY <1>3, LoopAgentOK DEF IInv, Elsewhere
  <2>2. QED
    BY <1>3, <2>1 DEF IInv, TypeOK, Goto, Loop, Start, Crash, GetPublishedRevision, Modified,
       FetchFails, SendTaken, SendTimesOut, AfterSend, SaveCache, SaveCacheFails,
       Heartbeat, HeartbeatLost
<1>4. QED
  BY <1>1, <1>2, <1>3 DEF Next

\* A 304 tells the truth about what Traefik runs.
THEOREM NotModifiedTrue == Spec => NotModifiedIsTrue
<1> DEFINE A == \A a \in Agent :
                  (pc[a] = "labels" /\ pc'[a] = "beat" /\ ~lost[a])
                  => traefik[a].config = Served(a)
<1>1. IInv /\ [Next]_vars => [A]_vars
  <2> SUFFICES ASSUME IInv, Next, NEW a \in Agent,
                      pc[a] = "labels", pc'[a] = "beat", ~lost[a]
               PROVE  traefik[a].config = Served(a)
    BY DEF vars
  <2>1. held[a].config = Served(a)
    BY NotModifiedStep DEF NotModified, EtagMatches
  <2>2. traefik[a] = held[a]
    BY DEF IInv, AgentOK
  <2>3. QED
    BY <2>1, <2>2
<1>2. QED
  BY <1>1, Invariance, PTL DEF Spec, NotModifiedIsTrue

\* Traefik takes nothing older than what it runs or than the cache file; only a
\* restart takes a configuration away from it.
THEOREM TraefikMonotone == Spec => TraefikNeverRegresses
<1> DEFINE A(a) == traefik'[a] # traefik[a] =>
                     \/ crashes' # crashes
                     \/ traefik'[a].rev >= traefik[a].rev /\ traefik'[a].rev >= cache[a].rev
<1>1. IInv /\ [Next]_vars => [\A a \in Agent : A(a)]_vars
  <2> SUFFICES ASSUME IInv, Next, NEW a \in Agent
               PROVE  A(a)
    BY DEF vars
  <2>1. CASE Publish
    BY <2>1 DEF Publish, process
  <2>2. ASSUME NEW b \in Agent, EditLabels(b)
        PROVE  A(a)
    BY <2>2 DEF EditLabels, process
  <2>3. ASSUME NEW b \in Agent, Crash(b)
        PROVE  A(a)
    BY <2>3, DeliveryAssumption DEF Crash, IInv, TypeOK
  <2>4. ASSUME NEW b \in Agent, SendTaken(b)
        PROVE  A(a)
    <3>1. CASE a # b
      BY <2>4, <3>1 DEF SendTaken, IInv, TypeOK
    <3>2. CASE a = b
      <4>1. traefik'[a] = reply[a] /\ pc[a] \in {"cached", "send"}
        BY <2>4, <3>2 DEF SendTaken, AfterSend, IInv, TypeOK
      <4>2. /\ cache[a].rev <= reply[a].rev /\ traefik[a].rev <= reply[a].rev
        BY <4>1, SentIsNewest DEF IInv
      <4>3. QED
        BY <4>1, <4>2 DEF IInv, TypeOK, Version
    <3>3. QED
      BY <3>1, <3>2
  <2>5. CASE UNCHANGED traefik
    BY <2>5
  <2>6. QED
    BY <2>1, <2>2, <2>3, <2>4, <2>5 DEF Next, Loop, Start, GetPublishedRevision, NotModified,
       Modified, FetchFails, SendTimesOut, SaveCache, SaveCacheFails, Heartbeat, HeartbeatLost
<1>2. QED
  BY <1>1, Invariance, PTL DEF Spec, TraefikNeverRegresses

-----------------------------------------------------------------------------
(* The loop implements the registers of Replica.                           *)

\* Both modules mean the same by what an agent is served.
LEMMA SameResponse ==
  \A s, l : AsReplica!Response(s, l) = Response(s, l)
  BY DEF AsReplica!Response, AsReplica!Compiled, AsReplica!Recompiled, AsReplica!Matches,
     AsReplica!KeysAfterJSON, Response, Compiled, Recompiled, Matches, KeysAfterJSON

\* What comes whole from one revision is a version the abstract replica may hold.
LEMMA OneRevisionIsVersion ==
  ASSUME TypeOK, NEW v \in Version, IsOneRevision(v)
  PROVE  v \in AsReplica!Versions
<1>1. PICK l \in SUBSET Label : v.config = Response(log[v.rev], l)
  BY DEF IsOneRevision
<1>2. v = [rev |-> v.rev, config |-> AsReplica!Response(log[v.rev], l)]
  BY <1>1, SameResponse DEF Version
<1>3. QED
  BY <1>2 DEF AsReplica!Versions, IsOneRevision

\* A step of the loop adopts a newer version, stores one, or is not seen.
LEMMA LoopRefines ==
  ASSUME IInv, NEW a \in Agent, Loop(a)
  PROVE  \/ AsReplica!Adopt(a)
         \/ AsReplica!Persist(a)
         \/ UNCHANGED <<log, traefik, cache>>
<1>1. CASE SendTaken(a)
  <2>1. /\ traefik' = [traefik EXCEPT ![a] = reply[a]]
        /\ UNCHANGED <<log, cache>>
        /\ pc[a] \in {"cached", "send"}
    BY <1>1 DEF SendTaken, AfterSend, manager
  <2>2. /\ IsOneRevision(reply[a])
        /\ reply[a].rev >= traefik[a].rev
        /\ reply[a].rev >= cache[a].rev
    BY <2>1, SentIsNewest DEF IInv, TypeOK, Version
  <2>3. reply[a] \in AsReplica!Versions
    BY <2>2, OneRevisionIsVersion DEF IInv, TypeOK
  <2>4. QED
    BY <2>1, <2>2, <2>3 DEF AsReplica!Adopt
<1>2. CASE SaveCache(a)
  <2>1. /\ cache' = [cache EXCEPT ![a] = held[a]]
        /\ UNCHANGED <<log, traefik>>
        /\ pc[a] = "save"
    BY <1>2 DEF SaveCache, manager
  <2>2. IsOneRevision(held[a]) /\ held[a].rev >= cache[a].rev
    BY <2>1 DEF IInv, AgentOK, Genuine, TypeOK, Version
  <2>3. held[a] \in AsReplica!Versions
    BY <2>2, OneRevisionIsVersion DEF IInv, TypeOK
  <2>4. QED
    BY <2>1, <2>2, <2>3 DEF AsReplica!Persist
<1>3. QED
  BY <1>1, <1>2 DEF Loop, manager, Start, GetPublishedRevision, NotModified, Modified,
     FetchFails, SendTimesOut, SaveCacheFails, Heartbeat, HeartbeatLost

\* Every step is a step of Replica or a stutter.
LEMMA NextRefines ==
  ASSUME IInv, [Next]_vars
  PROVE  [AsReplica!Next]_(AsReplica!vars)
<1>1. CASE Publish
  <2>1. AsReplica!Snapshot = Snapshot
    BY DEF AsReplica!Snapshot, Snapshot
  <2>2. QED
    BY <1>1, <2>1 DEF Publish, process, AsReplica!Next, AsReplica!Publish
<1>2. ASSUME NEW a \in Agent, EditLabels(a)
      PROVE  UNCHANGED AsReplica!vars
  BY <1>2 DEF EditLabels, process, AsReplica!vars
<1>3. ASSUME NEW a \in Agent, Loop(a)
      PROVE  [AsReplica!Next]_(AsReplica!vars)
  BY <1>3, LoopRefines DEF AsReplica!Next, AsReplica!vars
<1>4. ASSUME NEW a \in Agent, Crash(a)
      PROVE  AsReplica!Next
  <2>1. AsReplica!Nothing = Nothing
    BY DEF AsReplica!Nothing, Nothing
  <2>2. AsReplica!Restart(a)
    BY <1>4, <2>1 DEF Crash, manager, AsReplica!Restart
  <2>3. QED
    BY <2>2 DEF AsReplica!Next
<1>5. CASE UNCHANGED vars
  BY <1>5 DEF vars, manager, process, AsReplica!vars
<1>6. QED
  BY <1>1, <1>2, <1>3, <1>4, <1>5 DEF Next

\* Polls, ETags, channels and files implement one register per Traefik and one
\* per disk over the log of revisions, and neither ever goes back.
THEOREM Refinement == Spec => ImplementsReplica
<1>1. Init => AsReplica!Init
  BY DEF Init, AsReplica!Init, AsReplica!Nothing, Nothing
<1>2. IInv /\ [Next]_vars => [AsReplica!Next]_(AsReplica!vars)
  BY NextRefines
<1>3. QED
  BY <1>1, <1>2, Invariance, PTL DEF Spec, ImplementsReplica, AsReplica!Spec
=============================================================================
