-------------------------- MODULE PublishingProofs --------------------------
(***************************************************************************)
(* Proofs about Publishing, for any number of publishers, any bounds and   *)
(* any set of host versions that do not compile.                           *)
(***************************************************************************)
EXTENDS Publishing, FiniteSetTheorems, SequenceTheorems, TLAPS

-----------------------------------------------------------------------------
(* The inductive invariant.  HistoryIsGapless alone is not inductive: it   *)
(* takes that a publisher holding a number in this life of the fleet holds *)
(* at most the next one, so that a free number can only be the next one.   *)

InThisLife(q) == fleet /\ ~crossed /\ q.life = life

HoldsNextNumberAtMost(q) ==
    InThisLife(q) =>
        /\ q.pc = "create" => q.number <= published + 1
        /\ q.pc = "fire" => q.number <= published

HoldsCopy(q) ==
    /\ q.pc \in {"hosts", "certs"} => q.from = 0
    /\ InThisLife(q) /\ q.pc \in {"exists", "number", "create"} /\ q.from # 0 =>
         /\ q.from \in Existing
         /\ q.hosts = revs[q.from].hosts
         /\ q.certs = revs[q.from].certs

HoldsCompiled(q) == q.pc \in {"exists", "number", "create"} => q.hosts \notin Broken

PublisherOK(q) ==
    /\ q.life <= life
    /\ HoldsNextNumberAtMost(q)
    /\ HoldsCopy(q)
    /\ HoldsCompiled(q)

\* A subscriber is told of a revision only once it is in the history.
AnnouncedRevisionsExist == ~crossed => announced \subseteq Existing

Gapless == ~crossed => \A n \in Number : n \in Existing <=> n <= published

HistoryOK ==
    /\ Gapless
    /\ RollbackIsACopy
    /\ RevisionsCompile
    /\ AnnouncedRevisionsExist

IInv ==
    /\ HistoryOK
    /\ \A p \in Publisher : PublisherOK(pub[p])

-----------------------------------------------------------------------------
(* Type correctness and the foreign keys.                                  *)

\* A publisher that does nothing.
LEMMA IdleType == Idle \in PublisherState
  BY BoundsAssumption DEF Idle, PublisherState, Pc, Kind, HostVersion, CertVersion, Number, Life

\* Types: the start.
LEMMA InitTypeOK == Init => TypeOK
<1> SUFFICES ASSUME Init
             PROVE  TypeOK
  OBVIOUS
<1>1. Existing = {} /\ revs \in [Number -> Revision \cup {NoRevision}]
  BY DEF Init, Existing
<1>2. hosts \in HostVersion /\ certs \in CertVersion /\ life \in Life
  BY BoundsAssumption DEF Init, HostVersion, CertVersion, Life
<1>3. /\ pub \in [Publisher -> PublisherState]
      /\ \A p \in Publisher : pub[p].pc \notin {"create", "fire"}
  BY IdleType DEF Init, Idle
<1>4. fleet \in BOOLEAN /\ crossed \in BOOLEAN /\ fleet
  BY DEF Init
<1>5. published \in Existing \cup {0} /\ announced \subseteq Number /\ landed \in Nat
  BY DEF Init
<1>6. QED
  BY <1>1, <1>2, <1>3, <1>4, <1>5 DEF TypeOK

\* A step at publisher p that leaves the rest of the state alone keeps the
\* types when p's new state is typed and it holds a number if it needs one.
LEMMA StepTypeOK ==
  ASSUME TypeOK,
         NEW p \in Publisher, NEW q \in PublisherState,
         q.pc \in {"create", "fire"} => q.number # 0,
         pub' = [pub EXCEPT ![p] = q],
         UNCHANGED <<source, store, announced, crossed>>
  PROVE  TypeOK'
<1>1. pub' \in [Publisher -> PublisherState]
  BY DEF TypeOK
<1>2. \A r \in Publisher : pub'[r].pc \in {"create", "fire"} => pub'[r].number # 0
  BY DEF TypeOK
<1>3. Existing' = Existing
  BY DEF Existing, store
<1>4. QED
  BY <1>1, <1>2, <1>3 DEF TypeOK, source, store

\* Types: every step.
LEMMA NextTypeOK == TypeOK /\ [Next]_vars => TypeOK'
<1> SUFFICES ASSUME TypeOK, [Next]_vars
             PROVE  TypeOK'
  OBVIOUS
<1>1. CASE EditHosts
  BY <1>1, BoundsAssumption DEF TypeOK, store, EditHosts, HostVersion, Existing
<1>2. CASE EditCerts
  BY <1>2, BoundsAssumption DEF TypeOK, store, EditCerts, CertVersion, Existing
<1>3. CASE CreateFleet
  <2>1. Existing' = Existing
    BY <1>3 DEF CreateFleet, store, Existing
  <2>2. QED
    BY <1>3, <2>1, BoundsAssumption DEF CreateFleet, TypeOK, store, Life
<1>4. CASE DeleteFleet
  <2>1. Existing' = {} /\ revs' \in [Number -> Revision \cup {NoRevision}]
    BY <1>4 DEF DeleteFleet, Existing
  <2>2. hosts' \in HostVersion /\ certs' \in CertVersion
    BY <1>4, BoundsAssumption DEF DeleteFleet, HostVersion, CertVersion
  <2>3. QED
    BY <1>4, <2>1, <2>2 DEF DeleteFleet, TypeOK
<1>5. ASSUME NEW p \in Publisher, BeginPublish(p)
      PROVE  TypeOK'
  <2> DEFINE q == [Idle EXCEPT !.pc = "hosts", !.life = life]
  <2>1. q \in PublisherState /\ q.pc = "hosts"
    BY IdleType DEF TypeOK, Idle, PublisherState, Pc
  <2>2. pub' = [pub EXCEPT ![p] = q] /\ UNCHANGED <<source, store, announced, crossed>>
    BY <1>5 DEF BeginPublish, Begin, Idle
  <2>3. QED
    BY <2>1, <2>2, StepTypeOK
<1>6. ASSUME NEW p \in Publisher, BeginAuto(p)
      PROVE  TypeOK'
  <2> DEFINE q == [Idle EXCEPT !.pc = "hosts", !.kind = "auto", !.life = life]
  <2>1. q \in PublisherState /\ q.pc = "hosts"
    BY IdleType DEF TypeOK, Idle, PublisherState, Pc, Kind
  <2>2. pub' = [pub EXCEPT ![p] = q] /\ UNCHANGED <<source, store, announced, crossed>>
    BY <1>6 DEF BeginAuto, Begin, Idle
  <2>3. QED
    BY <2>1, <2>2, StepTypeOK
<1>7. ASSUME NEW p \in Publisher, BeginRollback(p)
      PROVE  TypeOK'
  <2>1. PICK n \in Existing :
          Begin(p, [Idle EXCEPT !.pc = "exists", !.kind = "rollback", !.from = n,
                                !.hosts = revs[n].hosts, !.certs = revs[n].certs])
    BY <1>7 DEF BeginRollback
  <2> DEFINE q == [Idle EXCEPT !.pc = "exists", !.kind = "rollback", !.from = n,
                               !.hosts = revs[n].hosts, !.certs = revs[n].certs,
                               !.life = life]
  <2>2. n \in Number /\ revs[n] \in Revision
    BY DEF TypeOK, Existing
  <2>3. q \in PublisherState /\ q.pc = "exists"
    BY <2>2, IdleType DEF TypeOK, Idle, PublisherState, Pc, Kind, Revision
  <2>4. pub' = [pub EXCEPT ![p] = q] /\ UNCHANGED <<source, store, announced, crossed>>
    BY <2>1 DEF Begin, Idle
  <2>5. QED
    BY <2>3, <2>4, StepTypeOK
<1>8. ASSUME NEW p \in Publisher, ReadHosts(p)
      PROVE  TypeOK'
  <2> DEFINE q == [pub[p] EXCEPT !.pc = "certs", !.hosts = hosts]
  <2>1. q \in PublisherState /\ q.pc = "certs"
    BY DEF TypeOK, PublisherState, Pc
  <2>2. pub' = [pub EXCEPT ![p] = q] /\ UNCHANGED <<source, store, announced, crossed>>
    BY <1>8 DEF ReadHosts
  <2>3. QED
    BY <2>1, <2>2, StepTypeOK
<1>9. ASSUME NEW p \in Publisher, ReadCerts(p)
      PROVE  TypeOK'
  <2> DEFINE q == IF Compiles(pub[p].hosts)
                  THEN [pub[p] EXCEPT !.pc = "exists", !.certs = certs]
                  ELSE Idle
  <2>1. q \in PublisherState /\ q.pc \in {"exists", "idle"}
    BY IdleType DEF TypeOK, PublisherState, Pc, Idle
  <2>2. pub' = [pub EXCEPT ![p] = q] /\ UNCHANGED <<source, store, announced, crossed>>
    BY <1>9 DEF ReadCerts
  <2>3. QED
    BY <2>1, <2>2, StepTypeOK
<1>10. ASSUME NEW p \in Publisher, NextRevisionNumber(p)
       PROVE  TypeOK'
  <2>1. PICK n \in Number :
          pub' = [pub EXCEPT ![p] = [@ EXCEPT !.pc = "create", !.number = n]]
    BY <1>10 DEF NextRevisionNumber
  <2> DEFINE q == [pub[p] EXCEPT !.pc = "create", !.number = n]
  <2>2. q \in PublisherState /\ q.number # 0
    <3>1. n # 0
      BY DEF Number
    <3>2. pub[p] \in PublisherState
      BY DEF TypeOK
    <3>3. QED
      BY <3>1, <3>2 DEF PublisherState, Pc
  <2>3. pub' = [pub EXCEPT ![p] = q] /\ UNCHANGED <<source, store, announced, crossed>>
    BY <2>1, <1>10 DEF NextRevisionNumber
  <2>4. QED
    BY <2>2, <2>3, StepTypeOK
<1>17. ASSUME NEW p \in Publisher, FleetExists(p)
       PROVE  TypeOK'
  <2> DEFINE q == IF fleet THEN [pub[p] EXCEPT !.pc = "number"] ELSE Idle
  <2>1. q \in PublisherState /\ q.pc \in {"number", "idle"}
    BY IdleType DEF TypeOK, PublisherState, Pc, Idle
  <2>2. pub' = [pub EXCEPT ![p] = q] /\ UNCHANGED <<source, store, announced, crossed>>
    BY <1>17 DEF FleetExists, Finish
  <2>3. QED
    BY <2>1, <2>2, StepTypeOK
<1>11. ASSUME NEW p \in Publisher, CreateRevisionFails(p)
       PROVE  TypeOK'
  BY <1>11, IdleType, StepTypeOK DEF CreateRevisionFails, Finish, Idle
<1>12. ASSUME NEW p \in Publisher, CreateRevision(p)
       PROVE  TypeOK'
  <2> DEFINE q == IF pub[p].kind = "auto" THEN Idle ELSE [pub[p] EXCEPT !.pc = "fire"]
             row == [hosts |-> pub[p].hosts, certs |-> pub[p].certs, from |-> pub[p].from]
  <2>1. pub[p] \in PublisherState /\ pub[p].number \in Number
    BY <1>12 DEF CreateRevision, TypeOK, PublisherState
  <2>2. row \in Revision
    BY <2>1 DEF PublisherState, Revision
  <2>3. revs' = [revs EXCEPT ![pub[p].number] = row] /\ published' = pub[p].number
    BY <1>12 DEF CreateRevision, NowPublished
  <2>4. revs' \in [Number -> Revision \cup {NoRevision}]
    BY <2>1, <2>2, <2>3 DEF TypeOK
  <2>5. published' \in Existing'
    BY <2>1, <2>2, <2>3, NoRevisionAssumption DEF TypeOK, Existing
  <2>6. q \in PublisherState /\ q.pc \in {"idle", "fire"} /\ (q.pc = "fire" => q.number # 0)
    BY <1>12, <2>1, IdleType DEF CreateRevision, TypeOK, PublisherState, Pc, Idle
  <2>7. pub' = [pub EXCEPT ![p] = q]
    BY <1>12 DEF CreateRevision, Finish
  <2>8. pub' \in [Publisher -> PublisherState]
    BY <2>6, <2>7 DEF TypeOK
  <2>9. \A r \in Publisher : pub'[r].pc \in {"create", "fire"} => pub'[r].number # 0
    BY <2>6, <2>7 DEF TypeOK
  <2>10. fleet /\ UNCHANGED <<fleet, hosts, certs, life, announced>>
         /\ landed' \in Nat /\ crossed' \in BOOLEAN
    BY <1>12 DEF CreateRevision, TypeOK, source
  <2>11. QED
    BY <2>4, <2>5, <2>8, <2>9, <2>10 DEF TypeOK
<1>13. ASSUME NEW p \in Publisher, FireWebhooks(p)
       PROVE  TypeOK'
  <2>1. pub' \in [Publisher -> PublisherState]
        /\ \A r \in Publisher : pub'[r].pc \in {"create", "fire"} => pub'[r].number # 0
    BY <1>13, IdleType DEF FireWebhooks, Finish, TypeOK, Idle
  <2>2. pub[p].number \in Number
    BY <1>13 DEF FireWebhooks, TypeOK, PublisherState
  <2>3. announced' \subseteq Number /\ (~fleet => announced' = {}) /\ crossed' \in BOOLEAN
    BY <1>13, <2>2 DEF FireWebhooks, TypeOK
  <2>4. Existing' = Existing /\ UNCHANGED <<source, store>>
    BY <1>13 DEF FireWebhooks, Existing, store
  <2>5. QED
    BY <2>1, <2>3, <2>4 DEF TypeOK, source, store
<1>14. ASSUME NEW p \in Publisher, Abort(p)
       PROVE  TypeOK'
  BY <1>14, IdleType, StepTypeOK DEF Abort, Finish, Idle
<1>15. CASE UNCHANGED vars
  BY <1>15 DEF vars, source, store, TypeOK, Existing
<1>16. QED
  BY <1>1, <1>2, <1>3, <1>4, <1>5, <1>6, <1>7, <1>8, <1>9, <1>10, <1>11, <1>12,
     <1>13, <1>14, <1>15, <1>17
  DEF Next

\* Whatever the requests and deletions do, the rows keep their types and no
\* pointer dangles.
THEOREM TypeCorrect == Spec => []TypeOK
  BY InitTypeOK, NextTypeOK, PTL DEF Spec

-----------------------------------------------------------------------------
(* The invariant holds.                                                    *)

\* The invariant: the start.
LEMMA InitIInv == Init => IInv
<1> SUFFICES ASSUME Init
             PROVE  IInv
  OBVIOUS
<1>1. Existing = {} /\ published = 0 /\ announced = {}
  BY DEF Init, Existing
<1>2. HistoryOK
  BY <1>1 DEF HistoryOK, Gapless, RollbackIsACopy, RevisionsCompile,
              AnnouncedRevisionsExist, Number
<1>3. ASSUME NEW p \in Publisher
      PROVE  PublisherOK(pub[p])
  <2>1. pub[p] = Idle /\ life = 1
    BY DEF Init
  <2>2. QED
    BY <2>1 DEF PublisherOK, HoldsNextNumberAtMost, HoldsCopy, HoldsCompiled, Idle
<1>4. QED
  BY <1>2, <1>3 DEF IInv

\* A step that reads the history and moves one publisher keeps the invariant
\* when that publisher's new state fits the history.
LEMMA ReadingStep ==
  ASSUME TypeOK, IInv,
         NEW p \in Publisher, NEW q, PublisherOK(q),
         pub' = [pub EXCEPT ![p] = q],
         UNCHANGED <<fleet, life, revs, published, announced, crossed>>
  PROVE  IInv'
<1>1. Existing' = Existing
  BY DEF Existing
<1>2. HistoryOK'
  BY <1>1 DEF IInv, HistoryOK, Gapless, RollbackIsACopy, RevisionsCompile,
              AnnouncedRevisionsExist
<1>3. ASSUME NEW r \in Publisher
      PROVE  PublisherOK(pub[r])'
  <2>1. pub'[r] = IF r = p THEN q ELSE pub[r]
    BY DEF TypeOK
  <2>2. PublisherOK(pub'[r])
    BY <2>1 DEF IInv
  <2>3. QED
    BY <2>2, <1>1 DEF PublisherOK, HoldsNextNumberAtMost, HoldsCopy, HoldsCompiled, InThisLife
<1>4. QED
  BY <1>2, <1>3 DEF IInv

\* A publisher that does nothing holds nothing to be wrong about.
LEMMA IdleOK == TypeOK => PublisherOK(Idle)
  BY BoundsAssumption
  DEF TypeOK, Life, Idle, PublisherOK, HoldsNextNumberAtMost, HoldsCopy, HoldsCompiled

\* In this life of the fleet a free number is the next one.
LEMMA FreeNumberIsNext ==
  ASSUME TypeOK, IInv,
         NEW p \in Publisher, pub[p].pc = "create", InThisLife(pub[p]), ~Taken(pub[p].number)
  PROVE  pub[p].number = published + 1
<1>1. pub[p].number \in Number /\ published \in Nat
  BY DEF TypeOK, PublisherState, Number, Existing
<1>2. pub[p].number <= published + 1
  BY DEF IInv, PublisherOK, HoldsNextNumberAtMost
<1>3. ~(pub[p].number <= published)
  BY <1>1 DEF IInv, HistoryOK, Gapless, Taken, InThisLife
<1>4. QED
  BY <1>1, <1>2, <1>3 DEF Number

\* The one step that writes the history.
LEMMA CreateRevisionKeepsIInv ==
  ASSUME TypeOK, TypeOK', IInv, NEW p \in Publisher, CreateRevision(p)
  PROVE  IInv'
<1> DEFINE n   == pub[p].number
           row == [hosts |-> pub[p].hosts, certs |-> pub[p].certs, from |-> pub[p].from]
<1>1. /\ pub[p].pc = "create" /\ fleet /\ ~Taken(n)
      /\ revs' = [revs EXCEPT ![n] = row]
      /\ published' = n
      /\ crossed' = (crossed \/ pub[p].life # life)
      /\ UNCHANGED <<fleet, life, announced>>
  BY DEF CreateRevision, NowPublished, source
<1>2. n \in Number /\ PublisherOK(pub[p])
  BY <1>1 DEF TypeOK, PublisherState, IInv
<1>3. row # NoRevision
  BY <1>2, NoRevisionAssumption DEF TypeOK, PublisherState, Revision
<1>4. Existing' = Existing \cup {n}
  BY <1>1, <1>2, <1>3 DEF TypeOK, Existing
<1>5. revs'[n] = row /\ n \notin Existing /\ \A m \in Existing : revs'[m] = revs[m]
  BY <1>1, <1>2 DEF TypeOK, Taken, Existing
<1>6. published \in Nat /\ published \in Number \cup {0}
  BY DEF TypeOK, Existing, Number
<1>7. ~crossed' => ~crossed /\ InThisLife(pub[p]) /\ n = published + 1
  BY <1>1, FreeNumberIsNext DEF InThisLife
<1>8. Gapless'
  <2> SUFFICES ASSUME ~crossed', NEW m \in Number
               PROVE  m \in Existing' <=> m <= published'
    BY DEF Gapless
  <2>1. m \in Existing <=> m <= published
    BY <1>7 DEF IInv, HistoryOK, Gapless
  <2>2. m <= published + 1 <=> m <= published \/ m = published + 1
    BY <1>6 DEF Number
  <2>3. QED
    BY <2>1, <2>2, <1>7, <1>1, <1>4
<1>9. RollbackIsACopy'
  <2> SUFFICES ASSUME ~crossed', NEW m \in Existing', revs'[m].from # 0
               PROVE  /\ revs'[m].from < m
                      /\ revs'[m].from \in Existing'
                      /\ revs'[m].hosts = revs'[revs'[m].from].hosts
                      /\ revs'[m].certs = revs'[revs'[m].from].certs
    BY DEF RollbackIsACopy
  <2>1. CASE m = n
    <3>1. revs'[m].from = pub[p].from /\ revs'[m].hosts = pub[p].hosts
          /\ revs'[m].certs = pub[p].certs
      BY <2>1, <1>5
    <3>2. /\ pub[p].from \in Existing
          /\ pub[p].hosts = revs[pub[p].from].hosts
          /\ pub[p].certs = revs[pub[p].from].certs
      BY <3>1, <1>1, <1>2, <1>7 DEF PublisherOK, HoldsCopy
    <3>3. pub[p].from <= published /\ pub[p].from \in Number
      BY <3>2, <1>7 DEF IInv, HistoryOK, Gapless, Existing
    <3>4. QED
      BY <2>1, <3>1, <3>2, <3>3, <1>4, <1>5, <1>6, <1>7 DEF Number
  <2>2. CASE m # n
    <3>1. m \in Existing /\ revs'[m] = revs[m]
      BY <2>2, <1>4, <1>5
    <3>2. /\ revs[m].from < m
          /\ revs[m].from \in Existing
          /\ revs[m].hosts = revs[revs[m].from].hosts
          /\ revs[m].certs = revs[revs[m].from].certs
      BY <3>1, <1>7 DEF IInv, HistoryOK, RollbackIsACopy
    <3>3. QED
      BY <3>1, <3>2, <1>4, <1>5
  <2>3. QED
    BY <2>1, <2>2
<1>10. RevisionsCompile'
  <2>1. pub[p].hosts \notin Broken
    BY <1>1, <1>2 DEF PublisherOK, HoldsCompiled
  <2>2. QED
    BY <2>1, <1>4, <1>5 DEF IInv, HistoryOK, RevisionsCompile
<1>11. AnnouncedRevisionsExist'
  BY <1>1, <1>4, <1>7 DEF IInv, HistoryOK, AnnouncedRevisionsExist
<1>12. ASSUME NEW r \in Publisher
       PROVE  PublisherOK(pub[r])'
  <2>1. PublisherOK(pub[r]) /\ pub[r] \in PublisherState
    BY DEF IInv, TypeOK
  <2>2. CASE r # p
    <3>1. pub'[r] = pub[r]
      BY <2>2 DEF CreateRevision, Finish, TypeOK
    <3>2. HoldsNextNumberAtMost(pub[r])'
      BY <2>1, <3>1, <1>1, <1>6, <1>7
      DEF PublisherOK, HoldsNextNumberAtMost, InThisLife, PublisherState, Number
    <3>3. HoldsCopy(pub[r])'
      BY <2>1, <3>1, <1>1, <1>4, <1>5, <1>7 DEF PublisherOK, HoldsCopy, InThisLife
    <3>4. QED
      BY <2>1, <3>1, <3>2, <3>3, <1>1 DEF PublisherOK, HoldsCompiled
  <2>3. CASE r = p
    <3>1. CASE pub[p].kind = "auto"
      <4>1. pub'[r] = Idle
        BY <2>3, <3>1 DEF CreateRevision, Finish, TypeOK
      <4>2. QED
        BY <4>1, <1>1, IdleOK
        DEF PublisherOK, HoldsNextNumberAtMost, HoldsCopy, HoldsCompiled, Idle
    <3>2. CASE pub[p].kind # "auto"
      <4>1. pub'[r] = [pub[p] EXCEPT !.pc = "fire"]
        BY <2>3, <3>2 DEF CreateRevision, TypeOK
      <4>2. pub'[r].pc = "fire" /\ pub'[r].number = n /\ pub'[r].life = pub[p].life
        BY <4>1, <2>1, <2>3 DEF PublisherState
      <4>3. n <= published'
        BY <1>1, <1>2 DEF Number
      <4>4. QED
        BY <4>2, <4>3, <1>1, <1>2
        DEF PublisherOK, HoldsNextNumberAtMost, HoldsCopy, HoldsCompiled
    <3>3. QED
      BY <3>1, <3>2
  <2>4. QED
    BY <2>2, <2>3
<1>13. QED
  BY <1>8, <1>9, <1>10, <1>11, <1>12 DEF IInv, HistoryOK

\* The invariant: every step.
LEMMA NextIInv == TypeOK /\ TypeOK' /\ IInv /\ [Next]_vars => IInv'
<1> SUFFICES ASSUME TypeOK, TypeOK', IInv, [Next]_vars
             PROVE  IInv'
  OBVIOUS
<1>1. CASE EditHosts \/ EditCerts \/ UNCHANGED vars
  <2>1. UNCHANGED <<fleet, life, revs, published, announced, crossed, pub>>
    BY <1>1 DEF EditHosts, EditCerts, vars, source, store
  <2>2. Existing' = Existing
    BY <2>1 DEF Existing
  <2>3. HistoryOK'
    BY <2>1, <2>2 DEF IInv, HistoryOK, Gapless, RollbackIsACopy, RevisionsCompile,
                      AnnouncedRevisionsExist
  <2>4. QED
    BY <2>1, <2>2, <2>3
    DEF IInv, PublisherOK, HoldsNextNumberAtMost, HoldsCopy, HoldsCompiled, InThisLife
<1>2. CASE CreateFleet
  <2>1. /\ life' = life + 1 /\ life \in Nat
        /\ UNCHANGED <<revs, published, announced, crossed, pub>>
    BY <1>2 DEF CreateFleet, store, TypeOK, Life
  <2>2. Existing' = Existing
    BY <2>1 DEF Existing
  <2>3. HistoryOK'
    BY <2>1, <2>2 DEF IInv, HistoryOK, Gapless, RollbackIsACopy, RevisionsCompile,
                      AnnouncedRevisionsExist
  <2>4. ASSUME NEW r \in Publisher
        PROVE  PublisherOK(pub[r])'
    <3>1. PublisherOK(pub[r]) /\ pub[r].life \in Nat
      BY DEF IInv, TypeOK, PublisherState, Life
    <3>2. pub[r].life < life'
      BY <2>1, <3>1 DEF PublisherOK
    <3>3. QED
      BY <2>1, <3>1, <3>2
      DEF PublisherOK, HoldsNextNumberAtMost, HoldsCopy, HoldsCompiled, InThisLife
  <2>5. QED
    BY <2>3, <2>4 DEF IInv
<1>3. CASE DeleteFleet
  <2>1. /\ ~fleet' /\ published' = 0 /\ announced' = {} /\ UNCHANGED <<pub, life>>
        /\ Existing' = {}
    BY <1>3 DEF DeleteFleet, Existing
  <2>2. HistoryOK'
    BY <2>1 DEF HistoryOK, Gapless, RollbackIsACopy, RevisionsCompile,
                AnnouncedRevisionsExist, Number
  <2>3. QED
    BY <2>1, <2>2
    DEF IInv, PublisherOK, HoldsNextNumberAtMost, HoldsCopy, HoldsCompiled, InThisLife
<1>4. ASSUME NEW p \in Publisher, BeginPublish(p) \/ BeginAuto(p)
      PROVE  IInv'
  <2>1. PICK q : /\ pub' = [pub EXCEPT ![p] = q]
                 /\ q.pc = "hosts" /\ q.from = 0 /\ q.life = life
    <3>1. CASE BeginPublish(p)
      <4> DEFINE b == [Idle EXCEPT !.pc = "hosts", !.life = life]
      <4>1. pub' = [pub EXCEPT ![p] = b] /\ b.pc = "hosts" /\ b.from = 0 /\ b.life = life
        BY <3>1 DEF BeginPublish, Begin, Idle
      <4>2. QED
        BY <4>1
    <3>2. CASE BeginAuto(p)
      <4> DEFINE b == [Idle EXCEPT !.pc = "hosts", !.kind = "auto", !.life = life]
      <4>1. pub' = [pub EXCEPT ![p] = b] /\ b.pc = "hosts" /\ b.from = 0 /\ b.life = life
        BY <3>2 DEF BeginAuto, Begin, Idle
      <4>2. QED
        BY <4>1
    <3>3. QED
      BY <1>4, <3>1, <3>2
  <2>2. PublisherOK(q)
    BY <2>1 DEF PublisherOK, HoldsNextNumberAtMost, HoldsCopy, HoldsCompiled, TypeOK, Life
  <2>3. QED
    BY <2>1, <2>2, <1>4, ReadingStep DEF BeginPublish, BeginAuto, Begin, source, store
<1>5. ASSUME NEW p \in Publisher, BeginRollback(p)
      PROVE  IInv'
  <2>1. PICK n \in Existing :
          Begin(p, [Idle EXCEPT !.pc = "exists", !.kind = "rollback", !.from = n,
                                !.hosts = revs[n].hosts, !.certs = revs[n].certs])
    BY <1>5 DEF BeginRollback
  <2> DEFINE q == [Idle EXCEPT !.pc = "exists", !.kind = "rollback", !.from = n,
                               !.hosts = revs[n].hosts, !.certs = revs[n].certs,
                               !.life = life]
  <2>2. /\ q.pc = "exists" /\ q.from = n /\ q.life = life
        /\ q.hosts = revs[n].hosts /\ q.certs = revs[n].certs
    BY DEF Idle
  <2>3. PublisherOK(q)
    BY <2>2 DEF IInv, HistoryOK, RevisionsCompile, PublisherOK, HoldsNextNumberAtMost,
                HoldsCopy, HoldsCompiled, TypeOK, Life
  <2>4. pub' = [pub EXCEPT ![p] = q]
        /\ UNCHANGED <<fleet, life, revs, published, announced, crossed>>
    BY <2>1 DEF Begin, Idle, source, store
  <2>5. QED
    BY <2>3, <2>4, ReadingStep
<1>6. ASSUME NEW p \in Publisher, ReadHosts(p)
      PROVE  IInv'
  <2> DEFINE q == [pub[p] EXCEPT !.pc = "certs", !.hosts = hosts]
  <2>1. PublisherOK(pub[p]) /\ pub[p] \in PublisherState /\ pub[p].pc = "hosts"
    BY <1>6 DEF IInv, TypeOK, ReadHosts
  <2>2. q.pc = "certs" /\ q.from = pub[p].from /\ q.life = pub[p].life
    BY <2>1 DEF PublisherState
  <2>3. PublisherOK(q)
    BY <2>1, <2>2 DEF PublisherOK, HoldsNextNumberAtMost, HoldsCopy, HoldsCompiled
  <2>4. QED
    BY <2>3, <1>6, ReadingStep DEF ReadHosts, source, store
<1>7. ASSUME NEW p \in Publisher, ReadCerts(p)
      PROVE  IInv'
  <2>1. PublisherOK(pub[p]) /\ pub[p] \in PublisherState /\ pub[p].pc = "certs"
    BY <1>7 DEF IInv, TypeOK, ReadCerts
  <2> DEFINE q == [pub[p] EXCEPT !.pc = "exists", !.certs = certs]
  <2>2. /\ q.pc = "exists" /\ q.from = pub[p].from /\ q.life = pub[p].life
        /\ q.hosts = pub[p].hosts
    BY <2>1 DEF PublisherState
  <2>3. Compiles(pub[p].hosts) => PublisherOK(q)
    BY <2>1, <2>2
    DEF Compiles, PublisherOK, HoldsNextNumberAtMost, HoldsCopy, HoldsCompiled
  <2>4. UNCHANGED <<fleet, life, revs, published, announced, crossed>>
    BY <1>7 DEF ReadCerts, source, store
  <2>5. CASE Compiles(pub[p].hosts)
    BY <2>3, <2>4, <2>5, <1>7, ReadingStep DEF ReadCerts
  <2>6. CASE ~Compiles(pub[p].hosts)
    BY <2>4, <2>6, <1>7, IdleOK, ReadingStep DEF ReadCerts
  <2>7. QED
    BY <2>5, <2>6
<1>8. ASSUME NEW p \in Publisher, NextRevisionNumber(p)
      PROVE  IInv'
  <2>1. PublisherOK(pub[p]) /\ pub[p] \in PublisherState /\ pub[p].pc = "number"
    BY <1>8 DEF IInv, TypeOK, NextRevisionNumber
  <2>2. UNCHANGED <<fleet, life, revs, published, announced, crossed>>
    BY <1>8 DEF NextRevisionNumber, source, store
  <2>3. PICK n \in Number :
          /\ IsNextNumber(n)
          /\ pub' = [pub EXCEPT ![p] = [@ EXCEPT !.pc = "create", !.number = n]]
    BY <1>8 DEF NextRevisionNumber
  <2> DEFINE q == [pub[p] EXCEPT !.pc = "create", !.number = n]
  <2>4. /\ q.pc = "create" /\ q.number = n
        /\ q.from = pub[p].from /\ q.life = pub[p].life
        /\ q.hosts = pub[p].hosts /\ q.certs = pub[p].certs
    BY <2>1 DEF PublisherState
  <2>5. ASSUME ~crossed
        PROVE  n <= published + 1
    <3>1. n = 1 \/ n - 1 \in Existing
      BY <2>3 DEF IsNextNumber
    <3>2. published \in Nat
      BY DEF TypeOK, Existing, Number
    <3>3. n - 1 \in Existing => n - 1 <= published
      BY <2>5 DEF IInv, HistoryOK, Gapless, Existing
    <3>4. QED
      BY <3>1, <3>2, <3>3 DEF Number
  <2>6. PublisherOK(q)
    BY <2>1, <2>4, <2>5
    DEF PublisherOK, HoldsNextNumberAtMost, HoldsCopy, HoldsCompiled, InThisLife
  <2>7. QED
    BY <2>3, <2>6, <2>2, ReadingStep
<1>13. ASSUME NEW p \in Publisher, FleetExists(p)
       PROVE  IInv'
  <2>1. PublisherOK(pub[p]) /\ pub[p] \in PublisherState /\ pub[p].pc = "exists"
    BY <1>13 DEF IInv, TypeOK, FleetExists
  <2> DEFINE q == [pub[p] EXCEPT !.pc = "number"]
  <2>2. /\ q.pc = "number" /\ q.from = pub[p].from /\ q.life = pub[p].life
        /\ q.hosts = pub[p].hosts /\ q.certs = pub[p].certs
    BY <2>1 DEF PublisherState
  <2>3. PublisherOK(q)
    <3>1. HoldsNextNumberAtMost(q) /\ q.life <= life
      BY <2>1, <2>2 DEF PublisherOK, HoldsNextNumberAtMost
    <3>2. HoldsCopy(q)
      <4>1. HoldsCopy(pub[p])
        BY <2>1 DEF PublisherOK
      <4>2. InThisLife(q) <=> InThisLife(pub[p])
        BY <2>2 DEF InThisLife
      <4>3. QED
        BY <4>1, <4>2, <2>1, <2>2 DEF HoldsCopy
    <3>3. HoldsCompiled(q)
      BY <2>1, <2>2 DEF PublisherOK, HoldsCompiled
    <3>4. QED
      BY <3>1, <3>2, <3>3 DEF PublisherOK
  <2>4. UNCHANGED <<fleet, life, revs, published, announced, crossed>>
    BY <1>13 DEF FleetExists, source, store
  <2>5. CASE fleet
    BY <2>3, <2>4, <2>5, <1>13, ReadingStep DEF FleetExists
  <2>6. CASE ~fleet
    BY <2>4, <2>6, <1>13, IdleOK, ReadingStep DEF FleetExists, Finish
  <2>7. QED
    BY <2>5, <2>6
<1>9. ASSUME NEW p \in Publisher, CreateRevisionFails(p) \/ Abort(p)
      PROVE  IInv'
  BY <1>9, IdleOK, ReadingStep DEF CreateRevisionFails, Abort, Finish, source, store
<1>10. ASSUME NEW p \in Publisher, CreateRevision(p)
       PROVE  IInv'
  BY <1>10, CreateRevisionKeepsIInv
<1>11. ASSUME NEW p \in Publisher, FireWebhooks(p)
       PROVE  IInv'
  <2>1. /\ pub' = [pub EXCEPT ![p] = Idle]
        /\ UNCHANGED <<fleet, life, revs, published>>
        /\ Existing' = Existing
        /\ crossed' = (crossed \/ (fleet /\ pub[p].life # life))
    BY <1>11 DEF FireWebhooks, Finish, source, store, Existing
  <2>2. ~crossed' /\ fleet => pub[p].number \in Existing
    <3> SUFFICES ASSUME ~crossed', fleet
                 PROVE  pub[p].number \in Existing
      OBVIOUS
    <3>1. InThisLife(pub[p]) /\ pub[p].pc = "fire" /\ ~crossed
      BY <2>1, <1>11 DEF InThisLife, FireWebhooks
    <3>2. pub[p].number \in Number /\ pub[p].number <= published
      BY <3>1 DEF IInv, PublisherOK, HoldsNextNumberAtMost, TypeOK, PublisherState
    <3>3. QED
      BY <3>1, <3>2 DEF IInv, HistoryOK, Gapless
  <2>3. AnnouncedRevisionsExist'
    BY <2>1, <2>2, <1>11 DEF FireWebhooks, IInv, HistoryOK, AnnouncedRevisionsExist
  <2>4. HistoryOK'
    BY <2>1, <2>3 DEF IInv, HistoryOK, Gapless, RollbackIsACopy, RevisionsCompile
  <2>5. ASSUME NEW r \in Publisher
        PROVE  PublisherOK(pub[r])'
    <3>1. pub'[r] = IF r = p THEN Idle ELSE pub[r]
      BY <2>1 DEF TypeOK
    <3>2. PublisherOK(pub'[r])
      BY <3>1, IdleOK DEF IInv
    <3>3. QED
      BY <3>2, <2>1
      DEF PublisherOK, HoldsNextNumberAtMost, HoldsCopy, HoldsCompiled, InThisLife
  <2>6. QED
    BY <2>4, <2>5 DEF IInv
<1>12. QED
  BY <1>1, <1>2, <1>3, <1>4, <1>5, <1>6, <1>7, <1>8, <1>9, <1>10, <1>11, <1>13
  DEF Next

\* The invariant holds at all times.
LEMMA InvariantHolds == Spec => [](TypeOK /\ IInv)
<1>1. Init => TypeOK /\ IInv
  BY InitTypeOK, InitIInv
<1>2. (TypeOK /\ IInv) /\ [Next]_vars => (TypeOK /\ IInv)'
  BY NextTypeOK, NextIInv
<1>3. QED
  BY <1>1, <1>2, PTL DEF Spec

-----------------------------------------------------------------------------
(* What it gives.                                                          *)

\* What the runs check follows from the invariant.
LEMMA IInvGivesProperties ==
  TypeOK /\ IInv => /\ HistoryIsGapless
                    /\ RollbackIsACopy
                    /\ RevisionsCompile
<1> SUFFICES ASSUME TypeOK, IInv, ~crossed
             PROVE  Existing = 1..published
  BY DEF IInv, HistoryOK, HistoryIsGapless
<1>1. published \in Nat /\ published <= MaxNumber
  BY BoundsAssumption DEF TypeOK, Existing, Number
<1>2. \A n \in Number : n \in Existing <=> n <= published
  BY DEF IInv, HistoryOK, Gapless
<1>3. QED
  BY <1>1, <1>2, BoundsAssumption DEF Existing, Number

\* The numbers have no gap and the newest revision is the published one.
THEOREM HistoryGapless == Spec => []HistoryIsGapless
  BY InvariantHolds, IInvGivesProperties, PTL

\* A rollback is an exact copy of the revision its notes name.
THEOREM RollbackCopies == Spec => []RollbackIsACopy
  BY InvariantHolds, IInvGivesProperties, PTL

\* No revision holds hosts the compiler rejects.
THEOREM OnlyCompiledPublished == Spec => []RevisionsCompile
  BY InvariantHolds, IInvGivesProperties, PTL

\* Only a deleted fleet takes its rows along; no step writes a row that exists.
LEMMA StepIsImmutable ==
  TypeOK /\ [Next]_vars => (fleet' => \A n \in Existing : revs'[n] = revs[n])
<1> SUFFICES ASSUME TypeOK, [Next]_vars, fleet', NEW n \in Existing
             PROVE  revs'[n] = revs[n]
  OBVIOUS
<1>1. ASSUME NEW p \in Publisher, CreateRevision(p)
      PROVE  revs'[n] = revs[n]
  BY <1>1 DEF CreateRevision, Taken, TypeOK
<1>2. CASE DeleteFleet
  BY <1>2 DEF DeleteFleet
<1>3. CASE ~DeleteFleet /\ \A p \in Publisher : ~CreateRevision(p)
  BY <1>3 DEF Next, EditHosts, EditCerts, CreateFleet, BeginPublish, BeginAuto, BeginRollback,
              Begin, ReadHosts, ReadCerts, FleetExists, NextRevisionNumber,
              CreateRevisionFails, Finish, FireWebhooks, Abort, vars, store
<1>4. QED
  BY <1>1, <1>2, <1>3

\* A revision is never rewritten while its fleet lives.
THEOREM RevisionsNeverChange == Spec => RevisionsAreImmutable
  BY TypeCorrect, StepIsImmutable, PTL DEF Spec, RevisionsAreImmutable

-----------------------------------------------------------------------------
(* What is read later is newer.  The inductive part: neither the history   *)
(* nor a publisher of this life holds a version the fleet has not reached. *)

NoneNewer ==
    ~crossed => \A n \in Existing : revs[n].hosts <= hosts /\ revs[n].certs <= certs

HoldsNoneNewer(q) ==
    InThisLife(q) =>
        /\ q.pc \in {"certs", "exists", "number", "create"} => q.hosts <= hosts
        /\ q.pc \in {"exists", "number", "create"} => q.certs <= certs

Reached == NoneNewer /\ \A p \in Publisher : HoldsNoneNewer(pub[p])

\* Versions and lives can be compared.
LEMMA VersionsAreNaturals ==
  TypeOK => /\ hosts \in Nat /\ certs \in Nat /\ life \in Nat
            /\ \A n \in Existing : revs[n].hosts \in Nat /\ revs[n].certs \in Nat
            /\ \A p \in Publisher : pub[p].hosts \in Nat /\ pub[p].certs \in Nat
                                    /\ pub[p].life \in Nat
<1> SUFFICES ASSUME TypeOK
             PROVE  /\ hosts \in Nat /\ certs \in Nat /\ life \in Nat
                    /\ \A n \in Existing : revs[n].hosts \in Nat /\ revs[n].certs \in Nat
                    /\ \A p \in Publisher : pub[p].hosts \in Nat /\ pub[p].certs \in Nat
                                            /\ pub[p].life \in Nat
  OBVIOUS
<1>1. hosts \in Nat /\ certs \in Nat /\ life \in Nat
  BY DEF TypeOK, HostVersion, CertVersion, Life
<1>2. \A n \in Existing : revs[n] \in Revision
  BY DEF TypeOK, Existing
<1>3. \A p \in Publisher : pub[p] \in PublisherState
  BY DEF TypeOK
<1>4. QED
  BY <1>1, <1>2, <1>3 DEF Revision, PublisherState, HostVersion, CertVersion, Life

\* A step that moves one publisher and leaves the fleet and its history alone.
LEMMA ReachedFrame ==
  ASSUME TypeOK, Reached, NEW p \in Publisher, NEW q, HoldsNoneNewer(q),
         pub' = [pub EXCEPT ![p] = q], UNCHANGED <<source, store, crossed>>
  PROVE  Reached'
<1>1. Existing' = Existing /\ NoneNewer'
  BY DEF Existing, Reached, NoneNewer, source, store
<1>2. \A r \in Publisher : HoldsNoneNewer(pub'[r])
  BY DEF Reached, TypeOK
<1>3. QED
  BY <1>1, <1>2 DEF Reached, HoldsNoneNewer, InThisLife, source

\* An edit only advances the versions.
LEMMA ReachedEdit ==
  ASSUME TypeOK, Reached, hosts' \in Nat, certs' \in Nat,
         hosts' >= hosts, certs' >= certs,
         UNCHANGED <<fleet, life, store, pub, crossed>>
  PROVE  Reached'
<1>1. Existing' = Existing
  BY DEF Existing, store
<1>2. NoneNewer'
  BY <1>1, VersionsAreNaturals DEF Reached, NoneNewer, store
<1>3. ASSUME NEW r \in Publisher
      PROVE  HoldsNoneNewer(pub[r])'
  BY VersionsAreNaturals DEF Reached, HoldsNoneNewer, InThisLife
<1>4. QED
  BY <1>2, <1>3 DEF Reached

\* A revision of this life holds what its publisher held.
LEMMA ReachedCreate ==
  ASSUME TypeOK, Reached, NEW p \in Publisher, CreateRevision(p)
  PROVE  Reached'
<1> DEFINE n   == pub[p].number
           row == [hosts |-> pub[p].hosts, certs |-> pub[p].certs, from |-> pub[p].from]
<1>1. /\ pub[p].pc = "create" /\ fleet
      /\ revs' = [revs EXCEPT ![n] = row]
      /\ crossed' = (crossed \/ pub[p].life # life)
      /\ UNCHANGED <<fleet, hosts, certs, life>>
  BY DEF CreateRevision, source
<1>2. n \in Number
  BY <1>1 DEF TypeOK, PublisherState
<1>3. \A m \in Number : revs'[m] = IF m = n THEN row ELSE revs[m]
  BY <1>1, <1>2 DEF TypeOK
<1>4. NoneNewer'
  <2> SUFFICES ASSUME ~crossed', NEW m \in Existing'
               PROVE  revs'[m].hosts <= hosts /\ revs'[m].certs <= certs
    BY <1>1 DEF NoneNewer
  <2>1. InThisLife(pub[p]) /\ ~crossed
    BY <1>1 DEF InThisLife
  <2>2. pub[p].hosts <= hosts /\ pub[p].certs <= certs
    BY <1>1, <2>1 DEF Reached, HoldsNoneNewer
  <2>3. m \in Number /\ (m # n => m \in Existing)
    BY <1>3 DEF Existing
  <2>4. QED
    BY <1>3, <2>1, <2>2, <2>3 DEF Reached, NoneNewer
<1>5. ASSUME NEW r \in Publisher
      PROVE  HoldsNoneNewer(pub[r])'
  <2>1. pub'[r].pc \in {"idle", "fire"} \/ pub'[r] = pub[r]
    BY <1>1 DEF CreateRevision, Finish, TypeOK, Idle, PublisherState
  <2>2. QED
    BY <1>1, <2>1 DEF Reached, HoldsNoneNewer, InThisLife
<1>6. QED
  BY <1>4, <1>5 DEF Reached

\* Nothing newer than the tables is ever in the log, or on its way there.
LEMMA StepReached == TypeOK /\ IInv /\ Reached /\ [Next]_vars => Reached'
<1> SUFFICES ASSUME TypeOK, IInv, Reached, [Next]_vars
             PROVE  Reached'
  OBVIOUS
<1>1. CASE EditHosts
  BY <1>1, ReachedEdit, VersionsAreNaturals DEF EditHosts
<1>2. CASE EditCerts
  BY <1>2, ReachedEdit, VersionsAreNaturals DEF EditCerts
<1>3. CASE CreateFleet
  <2>1. \A r \in Publisher : pub[r].life <= life
    BY DEF IInv, PublisherOK
  <2>2. life' = life + 1 /\ UNCHANGED <<pub, store, crossed, hosts, certs>>
    BY <1>3 DEF CreateFleet
  <2>3. NoneNewer'
    BY <2>2 DEF Reached, NoneNewer, store, Existing
  <2>4. QED
    BY <2>1, <2>2, <2>3, VersionsAreNaturals DEF Reached, HoldsNoneNewer, InThisLife
<1>4. CASE DeleteFleet
  BY <1>4 DEF DeleteFleet, Reached, NoneNewer, HoldsNoneNewer, InThisLife, Existing
<1>5. HoldsNoneNewer(Idle)
  BY DEF HoldsNoneNewer, Idle
<1>6. ASSUME NEW p \in Publisher, BeginPublish(p) \/ BeginAuto(p)
      PROVE  Reached'
  <2>1. PICK q : pub' = [pub EXCEPT ![p] = q] /\ q.pc = "hosts"
    <3>1. CASE BeginPublish(p)
      <4> DEFINE b == [Idle EXCEPT !.pc = "hosts", !.life = life]
      <4>1. pub' = [pub EXCEPT ![p] = b] /\ b.pc = "hosts"
        BY <3>1 DEF BeginPublish, Begin, Idle
      <4>2. QED
        BY <4>1
    <3>2. CASE BeginAuto(p)
      <4> DEFINE b == [Idle EXCEPT !.pc = "hosts", !.kind = "auto", !.life = life]
      <4>1. pub' = [pub EXCEPT ![p] = b] /\ b.pc = "hosts"
        BY <3>2 DEF BeginAuto, Begin, Idle
      <4>2. QED
        BY <4>1
    <3>3. QED
      BY <1>6, <3>1, <3>2
  <2>2. HoldsNoneNewer(q)
    BY <2>1 DEF HoldsNoneNewer
  <2>3. QED
    BY <1>6, <2>1, <2>2, ReachedFrame DEF BeginPublish, BeginAuto, Begin
<1>7. ASSUME NEW p \in Publisher, BeginRollback(p)
      PROVE  Reached'
  <2>1. PICK n \in Existing :
          Begin(p, [Idle EXCEPT !.pc = "exists", !.kind = "rollback", !.from = n,
                                !.hosts = revs[n].hosts, !.certs = revs[n].certs])
    BY <1>7 DEF BeginRollback
  <2> DEFINE q == [Idle EXCEPT !.pc = "exists", !.kind = "rollback", !.from = n,
                               !.hosts = revs[n].hosts, !.certs = revs[n].certs,
                               !.life = life]
  <2>2. q.hosts = revs[n].hosts /\ q.certs = revs[n].certs
    BY DEF Idle
  <2>3. HoldsNoneNewer(q)
    BY <2>2 DEF Reached, NoneNewer, HoldsNoneNewer, InThisLife
  <2>4. pub' = [pub EXCEPT ![p] = q] /\ UNCHANGED <<source, store, crossed>>
    BY <2>1 DEF Begin, Idle
  <2>5. QED
    BY <2>3, <2>4, ReachedFrame
<1>8. ASSUME NEW p \in Publisher, ReadHosts(p)
      PROVE  Reached'
  <2> DEFINE q == [pub[p] EXCEPT !.pc = "certs", !.hosts = hosts]
  <2>1. q.pc = "certs" /\ q.hosts = hosts
    BY DEF TypeOK, PublisherState
  <2>2. HoldsNoneNewer(q)
    BY <2>1, VersionsAreNaturals DEF HoldsNoneNewer
  <2>3. QED
    BY <1>8, <2>2, ReachedFrame DEF ReadHosts
<1>9. ASSUME NEW p \in Publisher, ReadCerts(p)
      PROVE  Reached'
  <2> DEFINE q == [pub[p] EXCEPT !.pc = "exists", !.certs = certs]
  <2>1. /\ q.pc = "exists" /\ q.certs = certs
        /\ q.hosts = pub[p].hosts /\ q.life = pub[p].life
    BY DEF TypeOK, PublisherState
  <2>2. HoldsNoneNewer(q)
    BY <1>9, <2>1, VersionsAreNaturals DEF ReadCerts, Reached, HoldsNoneNewer, InThisLife
  <2>3. UNCHANGED <<source, store, crossed>>
    BY <1>9 DEF ReadCerts
  <2>4. CASE Compiles(pub[p].hosts)
    BY <1>9, <2>2, <2>3, <2>4, ReachedFrame DEF ReadCerts
  <2>5. CASE ~Compiles(pub[p].hosts)
    BY <1>5, <1>9, <2>3, <2>5, ReachedFrame DEF ReadCerts
  <2>6. QED
    BY <2>4, <2>5
<1>10. ASSUME NEW p \in Publisher, FleetExists(p)
       PROVE  Reached'
  <2> DEFINE q == [pub[p] EXCEPT !.pc = "number"]
  <2>1. /\ q.pc = "number" /\ q.certs = pub[p].certs
        /\ q.hosts = pub[p].hosts /\ q.life = pub[p].life
    BY DEF TypeOK, PublisherState
  <2>2. HoldsNoneNewer(q)
    BY <1>10, <2>1 DEF FleetExists, Reached, HoldsNoneNewer, InThisLife
  <2>3. UNCHANGED <<source, store, crossed>>
    BY <1>10 DEF FleetExists
  <2>4. CASE fleet
    BY <1>10, <2>2, <2>3, <2>4, ReachedFrame DEF FleetExists
  <2>5. CASE ~fleet
    BY <1>5, <1>10, <2>3, <2>5, ReachedFrame DEF FleetExists, Finish
  <2>6. QED
    BY <2>4, <2>5
<1>11. ASSUME NEW p \in Publisher, NextRevisionNumber(p)
       PROVE  Reached'
  <2>1. PICK n \in Number :
          pub' = [pub EXCEPT ![p] = [@ EXCEPT !.pc = "create", !.number = n]]
    BY <1>11 DEF NextRevisionNumber
  <2> DEFINE q == [pub[p] EXCEPT !.pc = "create", !.number = n]
  <2>2. /\ q.pc = "create" /\ q.certs = pub[p].certs
        /\ q.hosts = pub[p].hosts /\ q.life = pub[p].life
    BY DEF TypeOK, PublisherState
  <2>3. HoldsNoneNewer(q)
    BY <1>11, <2>2 DEF NextRevisionNumber, Reached, HoldsNoneNewer, InThisLife
  <2>4. QED
    BY <1>11, <2>1, <2>3, ReachedFrame DEF NextRevisionNumber
<1>12. ASSUME NEW p \in Publisher, CreateRevisionFails(p) \/ Abort(p)
       PROVE  Reached'
  BY <1>5, <1>12, ReachedFrame DEF CreateRevisionFails, Abort, Finish
<1>13. ASSUME NEW p \in Publisher, CreateRevision(p)
       PROVE  Reached'
  BY <1>13, ReachedCreate
<1>14. ASSUME NEW p \in Publisher, FireWebhooks(p)
       PROVE  Reached'
  <2>1. /\ pub' = [pub EXCEPT ![p] = Idle] /\ UNCHANGED <<source, store>>
        /\ ~crossed' => ~crossed
    BY <1>14 DEF FireWebhooks, Finish
  <2>2. NoneNewer'
    BY <2>1 DEF Existing, Reached, NoneNewer, source, store
  <2>3. \A r \in Publisher : HoldsNoneNewer(pub'[r])
    BY <1>5, <2>1 DEF Reached, TypeOK
  <2>4. QED
    BY <2>1, <2>2, <2>3 DEF Reached, HoldsNoneNewer, InThisLife, source
<1>15. CASE UNCHANGED vars
  BY <1>15 DEF vars, source, store, Reached, NoneNewer, HoldsNoneNewer, InThisLife, Existing
<1>16. QED
  BY <1>1, <1>2, <1>3, <1>4, <1>6, <1>7, <1>8, <1>9, <1>10, <1>11, <1>12, <1>13, <1>14,
     <1>15
  DEF Next

\* What a step of a publisher past one of its two reads has read is the present.
ReadsThePresent(p) ==
    /\ pub[p].pc = "hosts" /\ pub'[p].pc = "certs" => pub'[p].hosts = hosts
    /\ pub[p].pc = "certs" /\ pub'[p].pc = "exists" => pub'[p].certs = certs

\* What a step reads is the present state of the table it reads.
LEMMA StepReadsThePresent ==
  ASSUME TypeOK, [Next]_vars, NEW p \in Publisher
  PROVE  ReadsThePresent(p)
<1>1. CASE UNCHANGED pub
  BY <1>1 DEF ReadsThePresent
<1>2. ASSUME NEW r \in Publisher, ReadHosts(r)
      PROVE  ReadsThePresent(p)
  <2> DEFINE q == [pub[r] EXCEPT !.pc = "certs", !.hosts = hosts]
  <2>1. q.pc = "certs" /\ q.hosts = hosts /\ pub' = [pub EXCEPT ![r] = q]
    BY <1>2 DEF ReadHosts, TypeOK, PublisherState
  <2>2. QED
    BY <1>2, <2>1 DEF TypeOK, ReadHosts, ReadsThePresent
<1>3. ASSUME NEW r \in Publisher, ReadCerts(r)
      PROVE  ReadsThePresent(p)
  <2> DEFINE q == IF Compiles(pub[r].hosts)
                  THEN [pub[r] EXCEPT !.pc = "exists", !.certs = certs]
                  ELSE Idle
  <2>1. /\ pub' = [pub EXCEPT ![r] = q]
        /\ q.pc \in {"exists", "idle"} /\ (q.pc = "exists" => q.certs = certs)
    BY <1>3 DEF ReadCerts, TypeOK, PublisherState, Idle
  <2>2. QED
    BY <1>3, <2>1 DEF TypeOK, ReadCerts, ReadsThePresent
<1>4. ASSUME NEW r \in Publisher,
             BeginPublish(r) \/ BeginAuto(r) \/ BeginRollback(r) \/ FleetExists(r)
             \/ NextRevisionNumber(r) \/ CreateRevisionFails(r) \/ CreateRevision(r)
             \/ FireWebhooks(r)
      PROVE  ReadsThePresent(p)
  <2>1. pub[r].pc \notin {"hosts", "certs"}
    BY <1>4 DEF BeginPublish, BeginAuto, BeginRollback, Begin, FleetExists,
                NextRevisionNumber, CreateRevisionFails, CreateRevision, FireWebhooks
  <2>2. \A s \in Publisher : s # r => pub'[s] = pub[s]
    BY <1>4 DEF BeginPublish, BeginAuto, BeginRollback, Begin, FleetExists, Finish, TypeOK,
                NextRevisionNumber, CreateRevisionFails, CreateRevision, FireWebhooks
  <2>3. QED
    BY <2>1, <2>2 DEF ReadsThePresent
<1>5. ASSUME NEW r \in Publisher, Abort(r)
      PROVE  ReadsThePresent(p)
  BY <1>5 DEF Abort, Finish, Idle, TypeOK, ReadsThePresent
<1>6. QED
  BY <1>1, <1>2, <1>3, <1>4, <1>5
  DEF Next, EditHosts, EditCerts, CreateFleet, DeleteFleet, vars

\* What a publisher reads after a revision was committed is no older than what that
\* revision holds, so only publishes that overlap can put old content back.
THEOREM LaterReadsNewer == Spec => LaterReadsAreNewer
<1>1. Init => Reached
  BY DEF Init, Reached, NoneNewer, HoldsNoneNewer, Existing, Idle
<1>2. TypeOK /\ Reached /\ [Next]_vars =>
        \A p \in Publisher : \A n \in Existing : ~crossed =>
          /\ pub[p].pc = "hosts" /\ pub'[p].pc = "certs" =>
                pub'[p].hosts >= revs[n].hosts
          /\ pub[p].pc = "certs" /\ pub'[p].pc = "exists" =>
                pub'[p].certs >= revs[n].certs
  BY StepReadsThePresent, VersionsAreNaturals DEF Reached, NoneNewer, ReadsThePresent
<1>3. QED
  BY <1>1, <1>2, StepReached, InvariantHolds, PTL DEF Spec, LaterReadsAreNewer

-----------------------------------------------------------------------------
(* Every transaction that committed has its row.                           *)

\* A committed revision is a new row: the count of both grows by one.
LEMMA StepCounts ==
  TypeOK /\ EveryPublishHasItsRevision /\ [Next]_vars => EveryPublishHasItsRevision'
<1> SUFFICES ASSUME TypeOK, landed = Cardinality(Existing), [Next]_vars
             PROVE  landed' = Cardinality(Existing')
  BY DEF EveryPublishHasItsRevision
<1>1. IsFiniteSet(Existing)
  <2>1. IsFiniteSet(Number)
    BY FS_Interval, BoundsAssumption DEF Number
  <2>2. QED
    BY <2>1, FS_Subset DEF Existing
<1>2. ASSUME NEW p \in Publisher, CreateRevision(p)
      PROVE  landed' = Cardinality(Existing')
  <2> DEFINE n == pub[p].number
  <2>1. /\ n \in Number /\ n \notin Existing
        /\ landed' = landed + 1
        /\ revs' = [revs EXCEPT ![n] =
                       [hosts |-> pub[p].hosts, certs |-> pub[p].certs, from |-> pub[p].from]]
    BY <1>2 DEF CreateRevision, Taken, TypeOK, PublisherState
  <2>2. [hosts |-> pub[p].hosts, certs |-> pub[p].certs, from |-> pub[p].from] # NoRevision
    BY NoRevisionAssumption DEF TypeOK, PublisherState, Revision
  <2>3. Existing' = Existing \cup {n}
    BY <2>1, <2>2 DEF TypeOK, Existing
  <2>4. Cardinality(Existing \cup {n}) = Cardinality(Existing) + 1
    BY <1>1, <2>1, FS_AddElement
  <2>5. QED
    BY <2>1, <2>3, <2>4
<1>3. CASE DeleteFleet
  <2>1. Existing' = {} /\ landed' = 0
    BY <1>3 DEF DeleteFleet, Existing
  <2>2. QED
    BY <2>1, FS_EmptySet
<1>4. CASE ~DeleteFleet /\ \A p \in Publisher : ~CreateRevision(p)
  <2>1. UNCHANGED <<revs, landed>>
    BY <1>4 DEF Next, EditHosts, EditCerts, CreateFleet, BeginPublish, BeginAuto,
                BeginRollback, Begin, ReadHosts, ReadCerts, FleetExists, NextRevisionNumber,
                CreateRevisionFails, FireWebhooks, Abort, vars, store
  <2>2. QED
    BY <2>1 DEF Existing
<1>5. QED
  BY <1>2, <1>3, <1>4

\* No committed publish is lost, whoever it raced, deletions and late requests
\* of an earlier life of the fleet included.
THEOREM NoPublishLost == Spec => []EveryPublishHasItsRevision
<1>1. Init => EveryPublishHasItsRevision
  <2>1. Init => Existing = {} /\ landed = 0
    BY DEF Init, Existing
  <2>2. QED
    BY <2>1, FS_EmptySet DEF EveryPublishHasItsRevision
<1>2. QED
  BY <1>1, StepCounts, TypeCorrect, PTL DEF Spec

-----------------------------------------------------------------------------
(* The fleet implements the abstract log.                                  *)

\* A function that agrees with a shorter one and has one more entry is that one
\* with the entry appended.
LEMMA OneMoreEntry ==
  ASSUME NEW S, NEW n \in Nat, NEW f \in [1..n -> S], NEW g \in [1..(n + 1) -> S],
         \A i \in 1..n : g[i] = f[i]
  PROVE  g = Append(f, g[n + 1])
<1>1. f \in Seq(S) /\ Len(f) = n
  OBVIOUS
<1>2. g \in Seq(S) /\ Len(g) = n + 1
  OBVIOUS
<1>3. g[n + 1] \in S
  OBVIOUS
<1> DEFINE h == Append(f, g[n + 1])
<1>4. /\ h \in Seq(S) /\ Len(h) = n + 1
      /\ \A i \in 1..n : h[i] = f[i]
      /\ h[n + 1] = g[n + 1]
  BY <1>1, <1>3, AppendProperties
<1>5. \A i \in 1..(n + 1) : g[i] = h[i]
  BY <1>4
<1>6. QED
  BY <1>2, <1>4, <1>5, SeqEqual

\* The log and what is served, as the refinement mapping reads them.
Served    == IF Open /\ published # 0 THEN SnapshotOf(revs[published]) ELSE NoRevision
Announced == IF Open THEN announced ELSE {}
Entry     == [hosts : HostVersion, certs : CertVersion]

\* The log the refinement speaks of is the rows 1 to published.
LEMMA EntriesType ==
  TypeOK /\ IInv /\ Open =>
    /\ Existing = 1..published /\ published \in Nat
    /\ Entries \in [1..published -> Entry]
<1> SUFFICES ASSUME TypeOK, IInv, Open
             PROVE  /\ Existing = 1..published /\ published \in Nat
                    /\ Entries \in [1..published -> Entry]
  OBVIOUS
<1>1. Existing = 1..published /\ published \in Nat
  BY IInvGivesProperties DEF HistoryIsGapless, TypeOK, Existing, Number, Open
<1>2. \A n \in Existing : SnapshotOf(revs[n]) \in Entry
  BY DEF TypeOK, Existing, SnapshotOf, Revision, Entry
<1>3. QED
  BY <1>1, <1>2 DEF Entries

\* The same after a step.
LEMMA EntriesTypeNext ==
  (TypeOK /\ IInv /\ Open => Entries \in [1..published -> Entry])'
<1>1. TypeOK /\ IInv /\ Open => Entries \in [1..published -> Entry]
  BY EntriesType
<1>2. QED
  BY <1>1, PTL

\* The transaction of CreateRevision appends to the abstract log: a number that is
\* still free is the next one.
LEMMA CreateRevisionRefines ==
  ASSUME TypeOK, IInv, (TypeOK /\ IInv)', Open, Open',
         NEW p \in Publisher, CreateRevision(p)
  PROVE  Log!Next
<1>1. /\ pub[p].pc = "create" /\ ~Taken(pub[p].number) /\ InThisLife(pub[p])
      /\ published' = pub[p].number
      /\ announced' = announced
  BY DEF CreateRevision, NowPublished, InThisLife, Open
<1>2. published' = published + 1 /\ published \in Nat
  BY <1>1, FreeNumberIsNext, EntriesType DEF Open
<1>3. \A n \in 1..published : revs'[n] = revs[n]
  BY <1>1, <1>2, EntriesType DEF CreateRevision, Taken, TypeOK
<1>4. Entries' \in [1..(published + 1) -> Entry] /\ Entries \in [1..published -> Entry]
  <2>1. Entries' \in [1..published' -> Entry']
    BY EntriesTypeNext
  <2>2. Entry' = Entry
    BY DEF Entry, HostVersion, CertVersion
  <2>3. QED
    BY <2>1, <2>2, <1>2, EntriesType
<1>5. \A n \in 1..published : Entries'[n] = Entries[n]
  BY <1>2, <1>3 DEF Entries, SnapshotOf
<1>6. Entries' = Append(Entries, Entries'[published + 1])
  BY <1>2, <1>4, <1>5, OneMoreEntry
<1>7. Served' = Entries'[published + 1] /\ Entries'[published + 1] \in Entry
  BY <1>2, <1>4 DEF Served, Entries
<1>8. Announced' = Announced
  BY <1>1 DEF Announced
<1>9. \E s \in Entry : Log!Publish(s)
  BY <1>6, <1>7, <1>8 DEF Log!Publish, Served, Announced
<1>10. QED
  BY <1>9 DEF Log!Next, Entry

\* A webhook job is queued for a revision of the log.
LEMMA FireWebhooksRefines ==
  ASSUME TypeOK, IInv, Open, Open', NEW p \in Publisher, FireWebhooks(p)
  PROVE  Log!Next
<1>1. UNCHANGED <<Entries, Served>>
  BY DEF FireWebhooks, store, Entries, Served
<1>2. InThisLife(pub[p]) /\ pub[p].pc = "fire"
  BY DEF FireWebhooks, InThisLife, Open
<1>3. pub[p].number \in DOMAIN Entries
  BY <1>2 DEF IInv, PublisherOK, HoldsNextNumberAtMost, Entries, TypeOK, PublisherState, Number,
              Open
<1>4. Announced' = Announced \cup {pub[p].number}
  BY DEF FireWebhooks, Announced, Open
<1>5. Log!Announce(pub[p].number)
  BY <1>1, <1>4 DEF Log!Announce, Served, Announced
<1>6. QED
  BY <1>3, <1>5 DEF Log!Next

\* A step that leaves the fleet open.
LEMMA OpenStepRefines ==
  ASSUME TypeOK, IInv, (TypeOK /\ IInv)', Open, Open', [Next]_vars
  PROVE  [Log!Next]_(Log!vars)
<1>1. ASSUME NEW p \in Publisher, CreateRevision(p)
      PROVE  Log!Next
  BY <1>1, CreateRevisionRefines
<1>2. ASSUME NEW p \in Publisher, FireWebhooks(p)
      PROVE  Log!Next
  BY <1>2, FireWebhooksRefines
<1>3. ~DeleteFleet
  BY DEF DeleteFleet, Open
<1>4. CASE \A p \in Publisher : ~CreateRevision(p) /\ ~FireWebhooks(p)
  <2>1. UNCHANGED <<revs, published, announced>>
    BY <1>3, <1>4 DEF Next, EditHosts, EditCerts, CreateFleet, BeginPublish, BeginAuto,
                BeginRollback, Begin, ReadHosts, ReadCerts, FleetExists, NextRevisionNumber,
                CreateRevisionFails, Abort, vars, store
  <2>2. QED
    BY <2>1 DEF Log!vars, Entries
<1>5. QED
  BY <1>1, <1>2, <1>4

\* Where the promise does not hold, the abstract log is empty.
LEMMA ClosedIsEmpty ==
  /\ ~Open => Entries = <<>> /\ Served = NoRevision /\ Announced = {}
  /\ ~Open' => Entries' = <<>> /\ Served' = NoRevision /\ Announced' = {}
<1>1. /\ \A f : [n \in 1..0 |-> f[n]] = <<>>
      /\ 1..0 = {}
  OBVIOUS
<1>2. QED
  BY <1>1 DEF Entries, Served, Announced

\* A fleet only becomes open by being created, with nothing left of the last one.
LEMMA OpensEmpty ==
  ASSUME TypeOK, ~Open, Open', [Next]_vars
  PROVE  Entries' = <<>> /\ Served' = NoRevision /\ Announced' = {}
<1>1. CreateFleet
  BY DEF Open, Next, EditHosts, EditCerts, DeleteFleet, BeginPublish, BeginAuto,
         BeginRollback, Begin, ReadHosts, ReadCerts, FleetExists, NextRevisionNumber,
         CreateRevisionFails, CreateRevision, FireWebhooks, Abort, vars, source
<1>2. published' = 0 /\ announced' = {}
  BY <1>1 DEF CreateFleet, TypeOK, store
<1>3. QED
  BY <1>2 DEF Entries, Served, Announced

\* Every step is a step of RevisionLog or a stutter, in every life of the fleet.
LEMMA NextRefines ==
  ASSUME TypeOK, IInv, (TypeOK /\ IInv)', [Next]_vars
  PROVE  [Log!Next]_(Log!vars)
<1>1. CASE Open /\ Open'
  BY <1>1, OpenStepRefines
<1>2. CASE Open /\ ~Open'
  <2>1. Log!Erase
    BY <1>2, ClosedIsEmpty DEF Log!Erase, Served, Announced
  <2>2. QED
    BY <2>1 DEF Log!Next
<1>3. CASE ~Open /\ Open'
  <2>1. Log!Reopen
    BY <1>3, ClosedIsEmpty, OpensEmpty DEF Log!Reopen, Served, Announced
  <2>2. QED
    BY <2>1 DEF Log!Next
<1>4. CASE ~Open /\ ~Open'
  BY <1>4, ClosedIsEmpty DEF Log!vars, Served, Announced, Open
<1>5. QED
  BY <1>1, <1>2, <1>3, <1>4

\* However a fleet's id is reused, racing publishers, rollbacks and crashes
\* implement an append-only log whose last entry is served, in each life until
\* a request begun in an earlier one lands in it.
THEOREM Refinement == Spec => ImplementsLog
<1>1. Init => Log!Init
  BY DEF Init, Log!Init, Open, Entries
<1>2. /\ TypeOK /\ IInv
      /\ (TypeOK /\ IInv)'
      /\ [Next]_vars
      => [Log!Next]_(Log!vars)
  BY NextRefines
<1>3. QED
  BY <1>1, <1>2, TypeCorrect, InvariantHolds, PTL DEF Spec, ImplementsLog, Log!Spec
=============================================================================
