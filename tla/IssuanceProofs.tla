---------------------------- MODULE IssuanceProofs ----------------------------
(***************************************************************************)
(* Proofs about Issuance, for any number of workers, renewers, processes,  *)
(* names, domains, jobs, orders and crashes.  What a worker or a renewer   *)
(* holds is related to the rows it came from; a row may change under it,   *)
(* so the relation says what is still true of a stale copy.                *)
(***************************************************************************)
EXTENDS Issuance, TLAPS

-----------------------------------------------------------------------------
(* The invariant.                                                          *)

Types ==
    /\ jobs \in [Job -> JobRow \cup {NoJob}]
    /\ certs \in [Name -> Row \cup {NoCert}]
    /\ rows \in 0..MaxRows
    /\ act \in [Actor -> ActorState]

\* The variables no step of the code reads back, or only compares.
Ranges ==
    /\ due \subseteq Order
    /\ txt \subseteq Domain \X Order
    /\ orders \in 0..MaxOrders
    /\ served \subseteq Bundle
    /\ crashes \in 0..MaxCrashes
    /\ abandoned \subseteq Job
    /\ leaked \subseteq Domain \X Order
    /\ landed \subseteq RowId

ForeignKey ==
    \A j \in Job : jobs[j] # NoJob /\ jobs[j].cert # 0 =>
        \E n \in Existing : certs[n].id = jobs[j].cert

\* The primary key of certificates: handed out in order, and never twice.
PrimaryKey ==
    /\ \A n \in Existing : certs[n].id <= rows
    /\ \A m, n \in Existing : certs[m].id = certs[n].id => m = n

\* Records are planted for an order the CA has accepted.
OrderFits(f) ==
    f.pc \in {"authorize", "wait", "cleanup"} \/ f.planted # {} => f.order \in Order

\* What the state f of a renewer still knows of the rows it listed: whichever
\* of them exists under its id is not an upload.
RowsFit(f, C, R) ==
    \A c \in f.todo \cup {f.row} : c # NoCert =>
        /\ c.id <= R
        /\ \A n \in Name : C[n] # NoCert /\ C[n].id = c.id => C[n].source = "acme"

HasRow(f) == f.pc \in {"load", "authorize", "wait", "cleanup", "save"} => f.row \in Listed

\* The state f of a worker fits the rows J of acme_jobs.
JobFits(f, J) ==
    /\ f.pc = "idle" => f.job = 0
    /\ f.pc # "idle" =>
        /\ f.job \in Job
        /\ J[f.job] # NoJob
        /\ J[f.job].status \in {"running", "succeeded"}
        /\ f.pc \notin {"read", "commit", "fail"} => J[f.job].status = "running"
        /\ f.pc \in {"read", "commit"} => J[f.job].status = "succeeded"
        /\ f.pc = "commit" /\ J[f.job].cert # 0 => \E b \in f.snap : b[1] = J[f.job].cert

Fits(a, f, J, C, R) ==
    /\ OrderFits(f)
    /\ RowsFit(f, C, R)
    /\ a \in Renewer => HasRow(f)
    /\ a \in Worker => JobFits(f, J)

ActorsFit == \A a \in Actor : Fits(a, act[a], jobs, certs, rows)

IInv ==
    /\ Types /\ Ranges
    /\ ForeignKey /\ PrimaryKey
    /\ ActorsFit
    /\ OneWorkerPerJob /\ NoRecordLeft /\ SucceededIsServed

\* TypeOK in the parts the proofs use one at a time.
LEMMA TypeParts == TypeOK <=> Types /\ Ranges /\ ForeignKey
  BY DEF TypeOK, Types, Ranges, ForeignKey

-----------------------------------------------------------------------------
(* Facts about the data.                                                   *)

\* The assumptions on the constants, in the form they are used.
LEMMA Bounds ==
  /\ MaxJobs \in Nat /\ MaxOrders \in Nat /\ MaxRows \in Nat /\ MaxCrashes \in Nat
  /\ Worker \cap Renewer = {} /\ 0 \notin Job
  BY IssuanceAssumption DEF Job

\* An actor that does nothing holds nothing that could be stale.
LEMMA IdleFits ==
  /\ Idle \in ActorState
  /\ Idle.pc = "idle" /\ Idle.job = 0
  /\ \A a, J, C, R : Fits(a, Idle, J, C, R)
<1>1. /\ Idle \in ActorState
      /\ Idle.pc = "idle" /\ Idle.job = 0 /\ Idle.planted = {}
      /\ Idle.todo = {} /\ Idle.row = NoCert
  BY DEF Idle, ActorState, Pc
<1>2. QED
  BY <1>1 DEF Fits, OrderFits, RowsFit, HasRow, JobFits

\* What the invariant says of one actor.
LEMMA ActorIs ==
  ASSUME IInv, NEW a \in Actor
  PROVE  act[a] \in ActorState /\ Fits(a, act[a], jobs, certs, rows)
  BY DEF IInv, Types, ActorsFit

\* The status of a job, and the row it is read from.
LEMMA StatusIs ==
  ASSUME Types, NEW j \in Job
  PROVE  /\ StatusOf(j) = "absent" <=> jobs[j] = NoJob
         /\ jobs[j] # NoJob => jobs[j] \in JobRow /\ StatusOf(j) = jobs[j].status
<1>1. jobs[j] # NoJob => jobs[j] \in JobRow
  BY DEF Types
<1>2. \A row \in JobRow : row.status # "absent"
  BY DEF JobRow
<1>3. QED
  BY <1>1, <1>2 DEF StatusOf

\* Rows keep their id and source, or are new.
RowsKept(C, R, D, S) ==
    /\ R <= S
    /\ \A n \in Name : D[n] # NoCert =>
        \/ D[n].id > R
        \/ C[n] # NoCert /\ D[n].id = C[n].id /\ D[n].source = C[n].source

\* What a renewer knows of its rows outlives every change that keeps the primary key.
LEMMA RowsStillFit ==
  ASSUME NEW f \in ActorState, NEW C, NEW D, NEW R \in Nat, NEW S \in Nat,
         RowsFit(f, C, R), RowsKept(C, R, D, S),
         \A n \in Name : D[n] # NoCert => D[n].id \in Nat
  PROVE  RowsFit(f, D, S)
<1> SUFFICES ASSUME NEW c \in f.todo \cup {f.row}, c # NoCert
             PROVE  /\ c.id <= S
                    /\ \A n \in Name : D[n] # NoCert /\ D[n].id = c.id => D[n].source = "acme"
  BY DEF RowsFit
<1>1. c \in Listed
  BY DEF ActorState
<1>2. c.id \in Nat
  BY <1>1 DEF Listed, RowId
<1>3. /\ c.id <= R
      /\ \A n \in Name : C[n] # NoCert /\ C[n].id = c.id => C[n].source = "acme"
  BY DEF RowsFit
<1>4. c.id <= S
  BY <1>2, <1>3 DEF RowsKept
<1>5. ASSUME NEW n \in Name, D[n] # NoCert, D[n].id = c.id
      PROVE  D[n].source = "acme"
  <2>1. ~(D[n].id > R)
    BY <1>2, <1>3, <1>5
  <2>2. QED
    BY <1>3, <1>5, <2>1 DEF RowsKept
<1>6. QED
  BY <1>4, <1>5

-----------------------------------------------------------------------------
(* A step of one worker or renewer.                                        *)

\* Actor a goes to f; the rows of other jobs do not change.
LEMMA OneMoves ==
  ASSUME IInv, NEW a \in Actor, NEW f \in ActorState, To(a, f),
         Fits(a, f, jobs', certs', rows'),
         \A b \in Actor : RowsFit(act[b], certs', rows'),
         a \in Worker /\ f.pc # "idle" => \A v \in Worker \ {a} : act[v].job # f.job,
         \A k \in Job : (a \in Renewer \/ k # act[a].job) =>
            jobs'[k] = jobs[k] \/ \A v \in Worker : act[v].job # k
  PROVE  act' \in [Actor -> ActorState] /\ ActorsFit' /\ OneWorkerPerJob'
<1>1. act' = [act EXCEPT ![a] = f] /\ act' \in [Actor -> ActorState]
  BY DEF To, IInv, Types
<1>2. act'[a] = f /\ \A b \in Actor : b # a => act'[b] = act[b]
  BY <1>1 DEF IInv, Types
<1>3. ASSUME NEW b \in Actor, b # a
      PROVE  Fits(b, act'[b], jobs', certs', rows')
  <2>1. act'[b] = act[b] /\ act[b] \in ActorState /\ Fits(b, act[b], jobs, certs, rows)
    BY <1>2, <1>3, ActorIs
  <2>2. ASSUME b \in Worker
        PROVE  JobFits(act[b], jobs')
    <3>1. JobFits(act[b], jobs)
      BY <2>1, <2>2 DEF Fits
    <3>2. CASE act[b].pc = "idle"
      BY <3>1, <3>2 DEF JobFits
    <3>3. CASE act[b].pc # "idle"
      <4>1. act[b].job \in Job
        BY <3>1, <3>3 DEF JobFits
      <4>2. a \in Renewer \/ act[b].job # act[a].job
        BY <1>3, <2>2, <3>3 DEF IInv, OneWorkerPerJob, Actor
      <4>3. jobs'[act[b].job] = jobs[act[b].job]
        BY <2>2, <4>1, <4>2
      <4>4. QED
        BY <3>1, <4>3 DEF JobFits
    <3>4. QED
      BY <3>2, <3>3
  <2>3. QED
    BY <2>1, <2>2 DEF Fits
<1>4. ActorsFit'
  BY <1>2, <1>3 DEF ActorsFit
<1>5. OneWorkerPerJob'
  <2>1. \A v \in Worker : v \in Actor /\ JobFits(act'[v], jobs')
    BY <1>4 DEF ActorsFit, Fits, Actor
  <2>2. \A v \in Worker : act'[v].pc # "idle" =>
           /\ jobs'[act'[v].job] # NoJob
           /\ jobs'[act'[v].job].status \in {"running", "succeeded"}
    BY <2>1 DEF JobFits
  <2>3. ASSUME NEW v \in Worker, NEW w \in Worker, v # w, act'[w].pc # "idle"
        PROVE  act'[v].job # act'[w].job
    <3>1. act'[w].job \in Job
      BY <2>1, <2>3 DEF JobFits
    <3>2. v \in Actor /\ w \in Actor
      BY DEF Actor
    <3>3. CASE v # a /\ w # a
      BY <1>2, <2>3, <3>2, <3>3 DEF IInv, OneWorkerPerJob
    <3>4. CASE w = a
      BY <1>2, <2>3, <3>2, <3>4
    <3>5. CASE v = a
      <4>1. f.pc = "idle" => f.job = 0
        BY <1>2, <2>1, <3>5 DEF JobFits
      <4>2. act'[w] = act[w] /\ act'[v] = f
        BY <1>2, <2>3, <3>2, <3>5
      <4>3. QED
        BY <2>3, <3>1, <3>5, <4>1, <4>2, Bounds
    <3>6. QED
      BY <3>3, <3>4, <3>5
  <2>4. QED
    BY <2>2, <2>3 DEF OneWorkerPerJob, StatusOf
<1>6. QED
  BY <1>1, <1>4, <1>5

\* No row of a table changes, and the actor keeps its job or lets go of it.
LEMMA QuietMoves ==
  ASSUME IInv, NEW a \in Actor, NEW f \in ActorState, To(a, f),
         Fits(a, f, jobs, certs, rows), f.job \in {0, act[a].job},
         UNCHANGED tables, Ranges', NoRecordLeft', SucceededIsServed'
  PROVE  IInv'
<1>1. UNCHANGED <<jobs, certs, rows>>
  BY DEF tables
<1>2. \A b \in Actor : RowsFit(act[b], certs', rows')
  BY <1>1, ActorIs DEF Fits
<1>3. a \in Worker /\ f.pc # "idle" => \A v \in Worker \ {a} : act[v].job # f.job
  <2> SUFFICES ASSUME a \in Worker, f.pc # "idle"
               PROVE  \A v \in Worker \ {a} : act[v].job # f.job
    OBVIOUS
  <2>1. f.job = act[a].job /\ f.job # 0
    BY Bounds DEF Fits, JobFits
  <2>2. act[a].pc # "idle"
    BY <2>1, ActorIs DEF Fits, JobFits
  <2>3. QED
    BY <2>1, <2>2 DEF IInv, OneWorkerPerJob
<1>4. Fits(a, f, jobs', certs', rows')
  BY <1>1
<1>5. act' \in [Actor -> ActorState] /\ ActorsFit' /\ OneWorkerPerJob'
  BY <1>1, <1>2, <1>3, <1>4, OneMoves
<1>6. Types'
  BY <1>1, <1>5 DEF IInv, Types
<1>7. ForeignKey' /\ PrimaryKey'
  BY <1>1 DEF IInv, ForeignKey, PrimaryKey, Existing
<1>8. QED
  BY <1>5, <1>6, <1>7 DEF IInv

\* The outcome of a job stays true while its worker keeps it.
LEMMA ServedStays ==
  ASSUME IInv, NEW a \in Actor, NEW f, To(a, f), a \in Worker => f.job = act[a].job,
         UNCHANGED jobs, abandoned \subseteq abandoned', landed \subseteq landed'
  PROVE  SucceededIsServed'
<1>1. \A w \in Worker : act'[w].job = act[w].job
  BY Bounds DEF To, IInv, Types, Actor
<1>2. \A j \in Job : StatusOf(j)' = StatusOf(j)
  BY DEF StatusOf
<1>3. QED
  BY <1>1, <1>2 DEF IInv, SucceededIsServed

\* A record stays somebody's while the actor goes on with its order.
LEMMA RecordsStay ==
  ASSUME IInv, NEW a \in Actor, NEW f, To(a, f), txt' \ leaked' \subseteq txt \ leaked,
         act[a].pc \in {"authorize", "wait", "cleanup"} =>
            /\ f.pc \in {"authorize", "wait", "cleanup"}
            /\ f.order = act[a].order
            /\ act[a].planted \subseteq f.planted
  PROVE  NoRecordLeft'
<1>1. act'[a] = f /\ \A b \in Actor : b # a => act'[b] = act[b]
  BY DEF To, IInv, Types
<1> SUFFICES ASSUME NEW rec \in txt' \ leaked'
             PROVE  \E b \in Actor :
                       /\ act'[b].pc \in {"authorize", "wait", "cleanup"}
                       /\ act'[b].order = rec[2]
                       /\ rec[1] \in act'[b].planted
  BY DEF NoRecordLeft
<1>2. PICK b \in Actor :
         /\ act[b].pc \in {"authorize", "wait", "cleanup"}
         /\ act[b].order = rec[2]
         /\ rec[1] \in act[b].planted
  BY DEF IInv, NoRecordLeft
<1>3. QED
  BY <1>1, <1>2

\* An actor that gives up its order keeps its job, to mark it failed.
LEMMA FailsFits ==
  ASSUME IInv, NEW a \in Actor, act[a].pc # "idle"
  PROVE  /\ Fails(a) \in ActorState
         /\ Fits(a, Fails(a), jobs, certs, rows)
         /\ Fails(a).job \in {0, act[a].job}
         /\ a \in Worker => Fails(a).job = act[a].job
<1>1. act[a] \in ActorState /\ Fits(a, act[a], jobs, certs, rows)
  BY ActorIs
<1>2. CASE a \in Worker
  <2> DEFINE f == [Idle EXCEPT !.pc = "fail", !.job = act[a].job]
  <2>1. Fails(a) = f
    BY <1>2 DEF Fails
  <2>2. JobFits(act[a], jobs) /\ act[a].job \in Job
    BY <1>1, <1>2 DEF Fits, JobFits
  <2>3. /\ f \in ActorState /\ f.pc = "fail" /\ f.job = act[a].job
        /\ f.planted = {} /\ f.todo = {} /\ f.row = NoCert
    BY <2>2, IdleFits DEF ActorState, Pc, Idle
  <2> HIDE DEF f
  <2>4. OrderFits(f) /\ RowsFit(f, certs, rows)
    BY <2>3 DEF OrderFits, RowsFit
  <2>5. JobFits(f, jobs)
    BY <2>2, <2>3 DEF JobFits
  <2>6. QED
    BY <1>2, <2>1, <2>3, <2>4, <2>5, Bounds DEF Fits
<1>3. CASE a \notin Worker
  <2> DEFINE f == [Idle EXCEPT !.pc = "next", !.todo = act[a].todo, !.renewed = act[a].renewed]
  <2>1. Fails(a) = f
    BY <1>3 DEF Fails
  <2>2. /\ f \in ActorState /\ f.pc = "next" /\ f.job = 0
        /\ f.planted = {} /\ f.todo = act[a].todo /\ f.row = NoCert
    BY <1>1, IdleFits DEF ActorState, Pc, Idle
  <2> HIDE DEF f
  <2>3. OrderFits(f) /\ HasRow(f)
    BY <2>2 DEF OrderFits, HasRow
  <2>4. RowsFit(f, certs, rows)
    BY <1>1, <2>2 DEF Fits, RowsFit
  <2>5. QED
    BY <1>3, <2>1, <2>2, <2>3, <2>4 DEF Fits
<1>4. QED
  BY <1>2, <1>3

\* ... and so the step that gives up keeps the invariant.
LEMMA FailsInv ==
  ASSUME IInv, NEW a \in Actor, To(a, Fails(a)),
         act[a].pc \notin {"idle", "authorize", "wait", "cleanup"},
         UNCHANGED <<tables, ca, served, history>>
  PROVE  IInv'
<1>1. Ranges'
  BY DEF IInv, Ranges, ca, history
<1>2. NoRecordLeft'
  BY RecordsStay DEF ca, history
<1>3. SucceededIsServed'
  BY FailsFits, ServedStays DEF tables, history
<1>4. QED
  BY <1>1, <1>2, <1>3, FailsFits, QuietMoves

-----------------------------------------------------------------------------
(* One DNS-01 order.                                                       *)

\* What an actor that goes on with its order keeps.
Continues(f, g) ==
    /\ g.job = f.job /\ g.row = f.row /\ g.todo = f.todo
    /\ g.pc \notin {"idle", "read", "commit"}
    /\ f.pc \in {"load", "authorize", "wait", "cleanup"}

\* An actor that goes on with its order keeps what it holds.
LEMMA ContinuesFits ==
  ASSUME IInv, NEW a \in Actor, NEW f, Continues(act[a], f), OrderFits(f)
  PROVE  Fits(a, f, jobs, certs, rows) /\ f.job \in {0, act[a].job}
<1>1. Fits(a, act[a], jobs, certs, rows)
  BY ActorIs
<1>2. QED
  BY <1>1 DEF Fits, RowsFit, HasRow, JobFits, Continues

\* A new order has planted no record.
LEMMA AuthorizeOrderInv ==
  ASSUME IInv, NEW a \in Actor, AuthorizeOrder(a)
  PROVE  IInv'
<1> DEFINE f == [act[a] EXCEPT !.pc = "authorize", !.order = orders + 1,
                               !.left = Domain, !.planted = {}]
<1>1. /\ act[a].pc = "load" /\ orders < MaxOrders /\ orders' = orders + 1
      /\ To(a, f) /\ UNCHANGED <<tables, due, txt, served, history>>
  BY DEF AuthorizeOrder
<1>2. orders + 1 \in Order /\ orders + 1 \in 0..MaxOrders
  BY <1>1, Bounds DEF IInv, Ranges, Order
<1>3. f \in ActorState /\ f.order \in Order /\ Continues(act[a], f)
  BY <1>1, <1>2, ActorIs DEF ActorState, Pc, Continues
<1> HIDE DEF f
<1>4. Ranges'
  BY <1>1, <1>2 DEF IInv, Ranges, history
<1>5. NoRecordLeft'
  BY <1>1, RecordsStay DEF history
<1>6. SucceededIsServed'
  BY <1>1, <1>3, ServedStays DEF tables, history, Continues
<1>7. Fits(a, f, jobs, certs, rows) /\ f.job \in {0, act[a].job}
  BY <1>3, ContinuesFits DEF OrderFits
<1>8. QED
  BY <1>1, <1>3, <1>4, <1>5, <1>6, <1>7, QuietMoves

\* Between two steps of one order: more records may be planted, none is dropped.
LEMMA OrderGoesOn ==
  ASSUME IInv, NEW a \in Actor, NEW f \in ActorState, To(a, f),
         act[a].pc \in {"authorize", "wait"}, f.pc \in {"authorize", "wait", "cleanup"},
         f.order = act[a].order, act[a].planted \subseteq f.planted,
         f.job = act[a].job, f.row = act[a].row, f.todo = act[a].todo,
         UNCHANGED <<tables, due, orders, served, crashes, abandoned, landed>>,
         txt' \subseteq Domain \X Order, leaked' \subseteq Domain \X Order,
         txt' \ leaked' \subseteq (txt \ leaked) \cup {<<d, f.order>> : d \in f.planted}
  PROVE  IInv'
<1>1. Continues(act[a], f) /\ OrderFits(f)
  BY ActorIs DEF Continues, OrderFits, Fits
<1>2. Fits(a, f, jobs, certs, rows)
  BY <1>1, ContinuesFits
<1>3. Ranges'
  BY DEF IInv, Ranges
<1>4. SucceededIsServed'
  BY ServedStays DEF tables
<1>5. NoRecordLeft'
  <2>1. act'[a] = f /\ \A b \in Actor : b # a => act'[b] = act[b]
    BY DEF To, IInv, Types
  <2> SUFFICES ASSUME NEW rec \in txt' \ leaked'
               PROVE  \E b \in Actor :
                         /\ act'[b].pc \in {"authorize", "wait", "cleanup"}
                         /\ act'[b].order = rec[2]
                         /\ rec[1] \in act'[b].planted
    BY DEF NoRecordLeft
  <2>2. CASE rec \in txt \ leaked
    <3>1. PICK b \in Actor :
             /\ act[b].pc \in {"authorize", "wait", "cleanup"}
             /\ act[b].order = rec[2]
             /\ rec[1] \in act[b].planted
      BY <2>2 DEF IInv, NoRecordLeft
    <3>2. QED
      BY <2>1, <3>1
  <2>3. CASE rec \in {<<d, f.order>> : d \in f.planted}
    BY <2>1, <2>3
  <2>4. QED
    BY <2>2, <2>3
<1>6. QED
  BY <1>2, <1>3, <1>4, <1>5, QuietMoves

\* A record that is planted is on the list the deferred clean-up goes through.
LEMMA PresentInv ==
  ASSUME IInv, NEW a \in Actor, Present(a)
  PROVE  IInv'
<1>1. PICK d \in act[a].left :
         /\ txt' = txt \cup {<<d, act[a].order>>}
         /\ To(a, [act[a] EXCEPT !.pc = "wait", !.left = @ \ {d}, !.planted = @ \cup {d}])
  BY DEF Present
<1> DEFINE f == [act[a] EXCEPT !.pc = "wait", !.left = @ \ {d}, !.planted = @ \cup {d}]
<1>2. /\ act[a].pc = "authorize"
      /\ UNCHANGED <<tables, due, orders, served, crashes, abandoned, leaked, landed>>
  BY DEF Present, history
<1>3. act[a] \in ActorState /\ act[a].order \in Order /\ d \in Domain
  BY <1>2, ActorIs DEF Fits, OrderFits, ActorState
<1>4. /\ f \in ActorState /\ f.pc = "wait" /\ f.order = act[a].order
      /\ f.planted = act[a].planted \cup {d}
      /\ f.job = act[a].job /\ f.row = act[a].row /\ f.todo = act[a].todo
  BY <1>3 DEF ActorState, Pc
<1>5. To(a, f)
  BY <1>1
<1> HIDE DEF f
<1>6. txt' \subseteq Domain \X Order /\ leaked' \subseteq Domain \X Order
  BY <1>1, <1>2, <1>3 DEF IInv, Ranges
<1>7. txt' \ leaked' \subseteq (txt \ leaked) \cup {<<e, f.order>> : e \in f.planted}
  BY <1>1, <1>2, <1>4
<1>8. QED
  BY <1>2, <1>4, <1>5, <1>6, <1>7, OrderGoesOn

\* A record whose answer is lost counts as leaked, not as planted.
LEMMA PresentFailsInv ==
  ASSUME IInv, NEW a \in Actor, PresentFails(a)
  PROVE  IInv'
<1>1. PICK d \in act[a].left : \E made \in SUBSET {<<d, act[a].order>>} :
         txt' = txt \cup made /\ leaked' = leaked \cup made
  BY DEF PresentFails
<1>2. PICK made \in SUBSET {<<d, act[a].order>>} :
         txt' = txt \cup made /\ leaked' = leaked \cup made
  BY <1>1
<1> DEFINE f == [act[a] EXCEPT !.pc = "cleanup", !.left = {}]
<1>3. /\ act[a].pc = "authorize" /\ To(a, f)
      /\ UNCHANGED <<tables, due, orders, served, crashes, abandoned, landed>>
  BY DEF PresentFails
<1>4. act[a] \in ActorState /\ act[a].order \in Order /\ d \in Domain
  BY <1>3, ActorIs DEF Fits, OrderFits, ActorState
<1>5. /\ f \in ActorState /\ f.pc = "cleanup" /\ f.order = act[a].order
      /\ f.planted = act[a].planted
      /\ f.job = act[a].job /\ f.row = act[a].row /\ f.todo = act[a].todo
  BY <1>4 DEF ActorState, Pc
<1> HIDE DEF f
<1>6. txt' \subseteq Domain \X Order /\ leaked' \subseteq Domain \X Order
  BY <1>2, <1>4 DEF IInv, Ranges
<1>7. txt' \ leaked' \subseteq txt \ leaked
  BY <1>2
<1>8. QED
  BY <1>3, <1>5, <1>6, <1>7, OrderGoesOn

\* AlreadyValid, WaitAuthorization, AuthorizationFails and Finalize.
LEMMA AuthorizationInv ==
  ASSUME IInv, NEW a \in Actor,
         AlreadyValid(a) \/ WaitAuthorization(a) \/ AuthorizationFails(a) \/ Finalize(a)
  PROVE  IInv'
<1>1. ASSUME NEW f \in ActorState, To(a, f),
             act[a].pc \in {"authorize", "wait"}, f.pc \in {"authorize", "wait", "cleanup"},
             f.order = act[a].order, f.planted = act[a].planted,
             f.job = act[a].job, f.row = act[a].row, f.todo = act[a].todo,
             UNCHANGED <<tables, ca, served, history>>
      PROVE  IInv'
  <2>1. txt' \subseteq Domain \X Order /\ leaked' \subseteq Domain \X Order
    BY <1>1 DEF IInv, Ranges, ca, history
  <2>2. txt' \ leaked' \subseteq txt \ leaked
    BY <1>1 DEF ca, history
  <2>3. UNCHANGED <<tables, due, orders, served, crashes, abandoned, landed>>
    BY <1>1 DEF ca, history
  <2>4. QED
    BY <1>1, <2>1, <2>2, <2>3, OrderGoesOn
<1>2. act[a] \in ActorState
  BY ActorIs
<1>3. CASE AlreadyValid(a)
  <2>1. PICK d \in act[a].left : To(a, [act[a] EXCEPT !.left = @ \ {d}])
    BY <1>3 DEF AlreadyValid
  <2> DEFINE f == [act[a] EXCEPT !.left = @ \ {d}]
  <2>2. /\ f \in ActorState /\ f.pc = act[a].pc /\ f.order = act[a].order
        /\ f.planted = act[a].planted
        /\ f.job = act[a].job /\ f.row = act[a].row /\ f.todo = act[a].todo
    BY <1>2 DEF ActorState
  <2>3. act[a].pc = "authorize" /\ UNCHANGED <<tables, ca, served, history>>
    BY <1>3 DEF AlreadyValid
  <2> HIDE DEF f
  <2>4. To(a, f)
    BY <2>1 DEF f
  <2>5. QED
    BY <1>1, <2>2, <2>3, <2>4
<1>4. CASE WaitAuthorization(a)
  <2> DEFINE f == [act[a] EXCEPT !.pc = "authorize"]
  <2>1. /\ f \in ActorState /\ f.pc = "authorize" /\ f.order = act[a].order
        /\ f.planted = act[a].planted
        /\ f.job = act[a].job /\ f.row = act[a].row /\ f.todo = act[a].todo
    BY <1>2 DEF ActorState, Pc
  <2>2. act[a].pc = "wait" /\ To(a, f) /\ UNCHANGED <<tables, ca, served, history>>
    BY <1>4 DEF WaitAuthorization
  <2> HIDE DEF f
  <2>3. QED
    BY <1>1, <2>1, <2>2
<1>5. CASE AuthorizationFails(a)
  <2> DEFINE f == [act[a] EXCEPT !.pc = "cleanup", !.left = {}]
  <2>1. /\ f \in ActorState /\ f.pc = "cleanup" /\ f.order = act[a].order
        /\ f.planted = act[a].planted
        /\ f.job = act[a].job /\ f.row = act[a].row /\ f.todo = act[a].todo
    BY <1>2 DEF ActorState, Pc
  <2>2. /\ act[a].pc \in {"wait", "authorize"} /\ To(a, f)
        /\ UNCHANGED <<tables, ca, served, history>>
    BY <1>5 DEF AuthorizationFails
  <2> HIDE DEF f
  <2>3. QED
    BY <1>1, <2>1, <2>2
<1>6. CASE Finalize(a)
  <2> DEFINE f == [act[a] EXCEPT !.pc = "cleanup", !.ok = TRUE]
  <2>1. /\ f \in ActorState /\ f.pc = "cleanup" /\ f.order = act[a].order
        /\ f.planted = act[a].planted
        /\ f.job = act[a].job /\ f.row = act[a].row /\ f.todo = act[a].todo
    BY <1>2 DEF ActorState, Pc
  <2>2. act[a].pc = "authorize" /\ To(a, f) /\ UNCHANGED <<tables, ca, served, history>>
    BY <1>6 DEF Finalize
  <2> HIDE DEF f
  <2>3. QED
    BY <1>1, <2>1, <2>2
<1>7. QED
  BY <1>3, <1>4, <1>5, <1>6

\* The deferred loop removes what was planted, or names it leaked.
LEMMA CleanUpInv ==
  ASSUME IInv, NEW a \in Actor, CleanUp(a)
  PROVE  IInv'
<1> DEFINE mine == {<<d, act[a].order>> : d \in act[a].planted}
           saves == [act[a] EXCEPT !.pc = "save", !.planted = {}, !.ok = FALSE]
<1>1. PICK kept \in SUBSET mine :
         /\ txt' = txt \ (mine \ kept)
         /\ leaked' = leaked \cup kept
         /\ To(a, IF act[a].ok /\ kept = {} THEN saves ELSE Fails(a))
  BY DEF CleanUp
<1> DEFINE f == IF act[a].ok /\ kept = {} THEN saves ELSE Fails(a)
<1>2. /\ act[a].pc = "cleanup" /\ To(a, f)
      /\ UNCHANGED <<tables, due, orders, served, crashes, abandoned, landed>>
  BY <1>1 DEF CleanUp
<1>3. act[a] \in ActorState /\ act[a].order \in Order
  BY <1>2, ActorIs DEF Fits, OrderFits
<1>4. saves \in ActorState /\ Continues(act[a], saves) /\ OrderFits(saves)
  BY <1>2, <1>3 DEF ActorState, Pc, Continues, OrderFits
<1>5. Fits(a, saves, jobs, certs, rows) /\ saves.job = act[a].job
  BY <1>4, ContinuesFits DEF Continues
<1>6. /\ Fails(a) \in ActorState /\ Fits(a, Fails(a), jobs, certs, rows)
      /\ Fails(a).job \in {0, act[a].job}
      /\ a \in Worker => Fails(a).job = act[a].job
  BY <1>2, FailsFits
<1>7. mine \subseteq Domain \X Order
  BY <1>3 DEF ActorState
<1>8. /\ f \in ActorState /\ Fits(a, f, jobs, certs, rows) /\ f.job \in {0, act[a].job}
      /\ a \in Worker => f.job = act[a].job
  BY <1>4, <1>5, <1>6
<1> HIDE DEF f, saves
<1>9. Ranges'
  BY <1>1, <1>2, <1>7 DEF IInv, Ranges
<1>10. SucceededIsServed'
  BY <1>2, <1>8, ServedStays DEF tables
<1>11. NoRecordLeft'
  <2>1. \A b \in Actor : b # a => act'[b] = act[b]
    BY <1>2 DEF To, IInv, Types
  <2> SUFFICES ASSUME NEW rec \in txt' \ leaked'
               PROVE  \E b \in Actor :
                         /\ act'[b].pc \in {"authorize", "wait", "cleanup"}
                         /\ act'[b].order = rec[2]
                         /\ rec[1] \in act'[b].planted
    BY DEF NoRecordLeft
  <2>2. rec \in txt \ leaked /\ rec \notin mine
    BY <1>1
  <2>3. PICK b \in Actor :
           /\ act[b].pc \in {"authorize", "wait", "cleanup"}
           /\ act[b].order = rec[2]
           /\ rec[1] \in act[b].planted
    BY <2>2 DEF IInv, NoRecordLeft
  <2>4. rec = <<rec[1], rec[2]>>
    BY <2>2 DEF IInv, Ranges
  <2>5. b # a
    BY <2>2, <2>3, <2>4
  <2>6. QED
    BY <2>1, <2>3, <2>5
<1>12. QED
  BY <1>2, <1>8, <1>9, <1>10, <1>11, QuietMoves

-----------------------------------------------------------------------------
(* The end of a job or of a pass, and the renewer's list.                  *)

\* An actor is done: its job is abandoned, or what it says has happened.
LEMMA ToIdle ==
  ASSUME IInv, NEW a \in Actor, To(a, Idle),
         act[a].pc \notin {"authorize", "wait", "cleanup"},
         UNCHANGED <<tables, txt, leaked>>, Ranges',
         abandoned \subseteq abandoned', landed \subseteq landed',
         a \in Worker =>
            \/ act[a].job \in abandoned'
            \/ StatusOf(act[a].job) = "succeeded" /\ jobs[act[a].job].cert # 0 =>
                  jobs[act[a].job].cert \in landed'
  PROVE  IInv'
<1>1. NoRecordLeft'
  BY RecordsStay
<1>2. SucceededIsServed'
  <2>1. act'[a] = Idle /\ \A b \in Actor : b # a => act'[b] = act[b]
    BY DEF To, IInv, Types
  <2> SUFFICES ASSUME NEW j \in Job \ abandoned',
                      StatusOf(j)' = "succeeded", jobs'[j].cert # 0,
                      \A w \in Worker : act'[w].job # j
               PROVE  jobs'[j].cert \in landed'
    BY DEF SucceededIsServed
  <2>2. UNCHANGED jobs /\ StatusOf(j)' = StatusOf(j)
    BY DEF tables, StatusOf
  <2>3. CASE \A w \in Worker : act[w].job # j
    BY <2>2, <2>3 DEF IInv, SucceededIsServed
  <2>4. CASE \E w \in Worker : act[w].job = j
    <3>1. PICK w \in Worker : act[w].job = j
      BY <2>4
    <3>2. w = a
      BY <2>1, <3>1 DEF Actor
    <3>3. QED
      BY <2>2, <3>1, <3>2
  <2>5. QED
    BY <2>3, <2>4
<1>3. QED
  BY <1>1, <1>2, IdleFits, QuietMoves

\* The snapshot a worker reads holds the certificate its job names, if it exists.
LEMMA ReadCertsInv ==
  ASSUME IInv, NEW a \in Actor, ReadCerts(a)
  PROVE  IInv'
<1> DEFINE f == [act[a] EXCEPT !.pc = "commit", !.snap = Current]
<1>1. act[a].pc = "read" /\ To(a, f) /\ UNCHANGED <<tables, ca, served, history>>
  BY DEF ReadCerts
<1>2. act[a] \in ActorState /\ Fits(a, act[a], jobs, certs, rows)
  BY ActorIs
<1>3. Current \in SUBSET Bundle
  BY DEF Current, Existing, Bundle, IInv, Types, Row
<1>4. /\ f \in ActorState /\ f.pc = "commit" /\ f.snap = Current
      /\ f.planted = act[a].planted /\ f.order = act[a].order
      /\ f.job = act[a].job /\ f.row = act[a].row /\ f.todo = act[a].todo
  BY <1>2, <1>3 DEF ActorState, Pc
<1> HIDE DEF f
<1>5. ASSUME a \in Worker, jobs[f.job].cert # 0
      PROVE  \E b \in f.snap : b[1] = jobs[f.job].cert
  <2>1. f.job \in Job /\ jobs[f.job] # NoJob
    BY <1>1, <1>2, <1>4, <1>5 DEF Fits, JobFits
  <2>2. PICK n \in Existing : certs[n].id = jobs[f.job].cert
    BY <1>5, <2>1 DEF IInv, ForeignKey
  <2>3. <<certs[n].id, certs[n].material>> \in f.snap
    BY <1>4, <2>2 DEF Current
  <2>4. QED
    BY <2>2, <2>3
<1>6. OrderFits(f) /\ RowsFit(f, certs, rows) /\ (a \in Renewer => HasRow(f))
  BY <1>2, <1>4 DEF Fits, OrderFits, RowsFit, HasRow
<1>7. a \in Worker => JobFits(f, jobs)
  BY <1>1, <1>2, <1>4, <1>5 DEF Fits, JobFits
<1>8. Fits(a, f, jobs, certs, rows)
  BY <1>6, <1>7 DEF Fits
<1>9. Ranges'
  BY <1>1 DEF IInv, Ranges, ca, history
<1>10. NoRecordLeft'
  BY <1>1, RecordsStay DEF ca, history
<1>11. SucceededIsServed'
  BY <1>1, <1>4, ServedStays DEF tables, history
<1>12. QED
  BY <1>1, <1>4, <1>8, <1>9, <1>10, <1>11, QuietMoves

\* The snapshot that becomes the revision makes the jobs that name it served.
LEMMA CommitInv ==
  ASSUME IInv, NEW a \in Actor, Commit(a)
  PROVE  IInv'
<1>1. /\ act[a].pc = "commit" /\ To(a, Idle)
      /\ served' = act[a].snap
      /\ landed' = landed \cup {b[1] : b \in act[a].snap}
      /\ UNCHANGED <<tables, ca, crashes, abandoned, leaked>>
  BY DEF Commit
<1>2. act[a].snap \subseteq Bundle
  BY ActorIs DEF ActorState
<1>3. Ranges'
  BY <1>1, <1>2 DEF IInv, Ranges, ca, Bundle
<1>4. ASSUME a \in Worker, jobs[act[a].job].cert # 0
      PROVE  jobs[act[a].job].cert \in landed'
  <2>1. \E b \in act[a].snap : b[1] = jobs[act[a].job].cert
    BY <1>1, <1>4, ActorIs DEF Fits, JobFits
  <2>2. QED
    BY <1>1, <2>1
<1>5. QED
  BY <1>1, <1>3, <1>4, ToIdle DEF ca

\* A publish that fails leads a worker to mark its job failed.
LEMMA PublishFailsInv ==
  ASSUME IInv, NEW a \in Actor, PublishFails(a)
  PROVE  IInv'
<1>1. act[a].pc \in {"read", "commit"} /\ UNCHANGED <<tables, ca, served, history>>
  BY DEF PublishFails
<1>2. CASE a \in Worker
  <2>1. To(a, Fails(a))
    BY <1>2 DEF PublishFails
  <2>2. QED
    BY <1>1, <2>1, FailsInv
<1>3. CASE a \notin Worker
  <2>1. To(a, Idle)
    BY <1>3 DEF PublishFails
  <2>2. Ranges'
    BY <1>1 DEF IInv, Ranges, ca, history
  <2>3. QED
    BY <1>1, <1>3, <2>1, <2>2, ToIdle DEF ca, history
<1>4. QED
  BY <1>2, <1>3

\* A job whose last UPDATE failed is abandoned.
LEMMA MarkFailedFailsInv ==
  ASSUME IInv, NEW w \in Worker, MarkFailedFails(w)
  PROVE  IInv'
<1>1. /\ w \in Actor /\ act[w].pc = "fail" /\ To(w, Idle)
      /\ abandoned' = abandoned \cup {act[w].job}
      /\ UNCHANGED <<tables, ca, served, crashes, leaked, landed>>
  BY DEF MarkFailedFails, Actor
<1>2. act[w].job \in Job
  BY <1>1, ActorIs DEF Fits, JobFits
<1>3. Ranges'
  BY <1>1, <1>2 DEF IInv, Ranges, ca
<1>4. QED
  BY <1>1, <1>3, ToIdle DEF ca

\* A renewer lists rows that came from the CA.
LEMMA ListDueInv ==
  ASSUME IInv, NEW r \in Renewer, ListDue(r)
  PROVE  IInv'
<1> DEFINE list == {[name |-> n, id |-> certs[n].id] : n \in {m \in Existing : IsDue(m)}}
           f == [Idle EXCEPT !.pc = "next", !.todo = list]
<1>1. /\ r \in Actor /\ act[r].pc = "idle" /\ To(r, f)
      /\ UNCHANGED <<tables, ca, served, history>>
  BY DEF ListDue, Actor
<1>2. \A n \in Existing : n \in Name /\ certs[n] # NoCert /\ certs[n] \in Row
  BY DEF Existing, IInv, Types
<1>3. list \subseteq Listed
  BY <1>2 DEF Listed, Row
<1>4. \A c \in list : \E n \in Existing : IsDue(n) /\ c.id = certs[n].id
  OBVIOUS
<1> HIDE DEF list
<1>5. /\ f \in ActorState /\ f.pc = "next" /\ f.todo = list
      /\ f.planted = {} /\ f.row = NoCert /\ f.job = 0
  BY <1>3, IdleFits DEF ActorState, Pc, Idle
<1> HIDE DEF f
<1>6. RowsFit(f, certs, rows)
  <2> SUFFICES ASSUME NEW c \in list
               PROVE  /\ c.id <= rows
                      /\ \A n \in Name : certs[n] # NoCert /\ certs[n].id = c.id =>
                                            certs[n].source = "acme"
    BY <1>5 DEF RowsFit
  <2>1. PICK m \in Existing : IsDue(m) /\ c.id = certs[m].id
    BY <1>4
  <2>2. certs[m].source = "acme" /\ c.id <= rows
    BY <2>1 DEF IsDue, IInv, PrimaryKey
  <2>3. QED
    BY <2>1, <2>2 DEF IInv, PrimaryKey, Existing
<1>7. Fits(r, f, jobs, certs, rows)
  BY <1>5, <1>6, Bounds DEF Fits, OrderFits, HasRow
<1>8. Ranges'
  BY <1>1 DEF IInv, Ranges, ca, history
<1>9. NoRecordLeft'
  BY <1>1, RecordsStay DEF ca, history
<1>10. SucceededIsServed'
  BY <1>1, Bounds, ServedStays DEF tables, history
<1>11. QED
  BY <1>1, <1>5, <1>7, <1>8, <1>9, <1>10, QuietMoves

\* A renewer takes a row of its list, or is done with it.
LEMMA NextRowInv ==
  ASSUME IInv, NEW r \in Renewer, NextRow(r)
  PROVE  IInv'
<1>1. /\ r \in Actor /\ act[r].pc = "next" /\ r \notin Worker
      /\ UNCHANGED <<tables, ca, served, history>>
  BY Bounds DEF NextRow, Actor
<1>2. act[r] \in ActorState /\ Fits(r, act[r], jobs, certs, rows)
  BY <1>1, ActorIs
<1>3. Ranges'
  BY <1>1 DEF IInv, Ranges, ca, history
<1>4. ASSUME NEW f \in ActorState, To(r, f), Fits(r, f, jobs, certs, rows),
             f.job \in {0, act[r].job}
      PROVE  IInv'
  <2>1. NoRecordLeft'
    BY <1>1, <1>4, RecordsStay DEF ca, history
  <2>2. SucceededIsServed'
    BY <1>1, <1>4, ServedStays DEF tables, history
  <2>3. QED
    BY <1>1, <1>3, <1>4, <2>1, <2>2, QuietMoves
<1>5. ASSUME NEW c \in act[r].todo,
             To(r, [act[r] EXCEPT !.pc = "load", !.row = c, !.todo = @ \ {c}])
      PROVE  IInv'
  <2> DEFINE f == [act[r] EXCEPT !.pc = "load", !.row = c, !.todo = @ \ {c}]
  <2>1. /\ f \in ActorState /\ f.pc = "load" /\ f.row = c /\ f.row \in Listed
        /\ f.todo \cup {f.row} \subseteq act[r].todo \cup {act[r].row}
        /\ f.planted = act[r].planted /\ f.order = act[r].order /\ f.job = act[r].job
    BY <1>2 DEF ActorState, Pc
  <2>2. To(r, f)
    BY <1>5
  <2> HIDE DEF f
  <2>3. Fits(r, f, jobs, certs, rows)
    BY <1>1, <1>2, <2>1 DEF Fits, OrderFits, RowsFit, HasRow
  <2>4. QED
    BY <1>4, <2>1, <2>2, <2>3
<1>6. CASE To(r, Idle)
  BY <1>4, <1>6, IdleFits
<1>7. CASE To(r, [Idle EXCEPT !.pc = "read"])
  <2> DEFINE f == [Idle EXCEPT !.pc = "read"]
  <2>1. /\ f \in ActorState /\ f.pc = "read" /\ f.job = 0
        /\ f.planted = {} /\ f.todo = {} /\ f.row = NoCert
    BY IdleFits DEF ActorState, Pc, Idle
  <2>2. To(r, f)
    BY <1>7
  <2> HIDE DEF f
  <2>3. Fits(r, f, jobs, certs, rows)
    BY <1>1, <2>1 DEF Fits, OrderFits, RowsFit, HasRow
  <2>4. QED
    BY <1>4, <2>1, <2>2, <2>3
<1>8. QED
  BY <1>5, <1>6, <1>7 DEF NextRow

-----------------------------------------------------------------------------
(* Changes of the tables.                                                  *)

\* A row of certificates, and its id.
LEMMA CertIs ==
  ASSUME Types
  PROVE  \A n \in Name : certs[n] # NoCert => certs[n] \in Row /\ certs[n].id \in Nat
<1>1. \A n \in Name : certs[n] # NoCert => certs[n] \in Row
  BY DEF Types
<1>2. \A row \in Row : row.id \in Nat
  BY DEF Row, RowId
<1>3. QED
  BY <1>1, <1>2

\* What an INSERT into certificates does to the keys.
LEMMA NewRow ==
  ASSUME Types, PrimaryKey, NEW n \in Name, n \notin Existing, rows < MaxRows,
         NEW s \in {"acme", "upload"}, NEW m \in Material, rows' = rows + 1,
         certs' = [certs EXCEPT ![n] = [id |-> rows + 1, source |-> s, material |-> m]]
  PROVE  /\ certs' \in [Name -> Row \cup {NoCert}] /\ rows' \in 0..MaxRows
         /\ rows + 1 \in RowId
         /\ PrimaryKey' /\ RowsKept(certs, rows, certs', rows')
         /\ Existing' = Existing \cup {n}
         /\ \A k \in Existing : certs'[k] = certs[k]
<1> DEFINE new == [id |-> rows + 1, source |-> s, material |-> m]
<1>1. rows \in Nat /\ rows + 1 \in RowId /\ rows' \in 0..MaxRows
  BY Bounds DEF Types, RowId
<1>2. new \in Row /\ new # NoCert /\ new.id = rows + 1
  BY <1>1, NullAssumption DEF Row
<1> HIDE DEF new
<1>3. certs' = [certs EXCEPT ![n] = new] /\ certs' \in [Name -> Row \cup {NoCert}]
  BY <1>2 DEF Types, new
<1>4. certs'[n] = new /\ \A k \in Name : k # n => certs'[k] = certs[k]
  BY <1>3 DEF Types
<1>5. Existing' = Existing \cup {n} /\ \A k \in Existing : k # n /\ certs'[k] = certs[k]
  BY <1>2, <1>4 DEF Existing
<1>6. \A k \in Existing : certs[k].id \in Nat /\ certs[k].id <= rows
  BY CertIs DEF PrimaryKey, Existing
<1>7. \A k \in Existing' : certs'[k].id <= rows'
  BY <1>1, <1>2, <1>4, <1>5, <1>6
<1>8. ASSUME NEW k \in Existing', NEW l \in Existing', certs'[k].id = certs'[l].id
      PROVE  k = l
  <2>1. CASE k = n \/ l = n
    BY <1>1, <1>2, <1>4, <1>5, <1>6, <1>8, <2>1
  <2>2. CASE k # n /\ l # n
    BY <1>5, <1>8, <2>2 DEF PrimaryKey
  <2>3. QED
    BY <2>1, <2>2
<1>9. RowsKept(certs, rows, certs', rows')
  BY <1>1, <1>2, <1>4 DEF RowsKept
<1>10. QED
  BY <1>1, <1>3, <1>5, <1>7, <1>8, <1>9 DEF PrimaryKey

\* What every renewer knows of its rows outlives the present change of the table.
LEMMA RowsFitAll ==
  ASSUME IInv, RowsKept(certs, rows, certs', rows'),
         certs' \in [Name -> Row \cup {NoCert}], rows' \in 0..MaxRows
  PROVE  \A b \in Actor : RowsFit(act[b], certs', rows')
<1> SUFFICES ASSUME NEW b \in Actor
             PROVE  RowsFit(act[b], certs', rows')
  OBVIOUS
<1>1. rows \in Nat /\ rows' \in Nat
  BY Bounds DEF IInv, Types
<1>2. \A n \in Name : certs'[n] # NoCert => certs'[n] \in Row
  OBVIOUS
<1>3. \A row \in Row : row.id \in Nat
  BY DEF Row, RowId
<1>4. act[b] \in ActorState /\ RowsFit(act[b], certs, rows)
  BY ActorIs DEF Fits
<1>5. QED
  BY <1>1, <1>2, <1>3, <1>4, RowsStillFit

\* An administrator changes the tables: what is there keeps its status.
LEMMA StoreMoves ==
  ASSUME IInv, UNCHANGED <<act, txt, leaked, abandoned, landed>>, Ranges',
         jobs' \in [Job -> JobRow \cup {NoJob}],
         certs' \in [Name -> Row \cup {NoCert}], rows' \in 0..MaxRows,
         ForeignKey', PrimaryKey', RowsKept(certs, rows, certs', rows'),
         \A k \in Job :
            \/ /\ jobs[k] # NoJob /\ jobs'[k] # NoJob
               /\ jobs'[k].status = jobs[k].status
               /\ jobs'[k].cert \in {0, jobs[k].cert}
            \/ /\ jobs[k] = NoJob
               /\ jobs'[k] = NoJob \/ jobs'[k].status = "pending"
  PROVE  IInv'
<1>1. Types'
  BY DEF IInv, Types
<1>2. NoRecordLeft'
  BY DEF IInv, NoRecordLeft
<1>3. ASSUME NEW w \in Worker
      PROVE  w \in Actor /\ JobFits(act[w], jobs) /\ JobFits(act[w], jobs')
  <2>1. w \in Actor /\ JobFits(act[w], jobs)
    BY ActorIs DEF Fits, Actor
  <2>2. CASE act[w].pc = "idle"
    BY <2>1, <2>2 DEF JobFits
  <2>3. CASE act[w].pc # "idle"
    BY <2>1, <2>3 DEF JobFits
  <2>4. QED
    BY <2>1, <2>2, <2>3
<1>4. ActorsFit'
  BY <1>3, ActorIs, RowsFitAll DEF ActorsFit, Fits
<1>5. OneWorkerPerJob'
  BY <1>3 DEF IInv, OneWorkerPerJob, JobFits, StatusOf
<1>6. SucceededIsServed'
  BY DEF IInv, SucceededIsServed, StatusOf
<1>7. QED
  BY <1>1, <1>2, <1>4, <1>5, <1>6 DEF IInv

\* A job is enqueued.
LEMMA RequestCertificateInv ==
  ASSUME IInv, NEW n \in Name, RequestCertificate(n)
  PROVE  IInv'
<1> DEFINE row == [status |-> "pending", name |-> n, cert |-> 0]
<1>1. PICK j \in Job : jobs[j] = NoJob /\ jobs' = [jobs EXCEPT ![j] = row]
  BY DEF RequestCertificate
<1>2. UNCHANGED <<certs, rows, ca, served, act, history>>
  BY DEF RequestCertificate
<1>3. row \in JobRow /\ row # NoJob /\ row.status = "pending" /\ row.cert = 0
  BY NullAssumption DEF JobRow
<1> HIDE DEF row
<1>4. jobs' \in [Job -> JobRow \cup {NoJob}]
  BY <1>1, <1>3 DEF IInv, Types
<1>5. jobs'[j] = row /\ \A k \in Job : k # j => jobs'[k] = jobs[k]
  BY <1>1 DEF IInv, Types
<1>6. ForeignKey'
  BY <1>2, <1>3, <1>5 DEF IInv, ForeignKey, Existing
<1>7. Ranges'
  BY <1>2 DEF IInv, Ranges, ca, history
<1>8. PrimaryKey' /\ certs' \in [Name -> Row \cup {NoCert}] /\ rows' \in 0..MaxRows
  BY <1>2 DEF IInv, PrimaryKey, Existing, Types
<1>9. RowsKept(certs, rows, certs', rows')
  BY <1>2, Bounds DEF RowsKept, IInv, Types
<1>10. QED
  BY <1>1, <1>2, <1>3, <1>4, <1>5, <1>6, <1>7, <1>8, <1>9, StoreMoves DEF ca, history

\* An upload takes an id no renewer has listed.
LEMMA UploadCertificateInv ==
  ASSUME IInv, NEW n \in Name, UploadCertificate(n)
  PROVE  IInv'
<1>1. /\ n \notin Existing /\ rows < MaxRows /\ rows' = rows + 1
      /\ certs' = [certs EXCEPT ![n] = [id |-> rows + 1, source |-> "upload", material |-> 0]]
      /\ UNCHANGED <<jobs, ca, served, act, history>>
  BY DEF UploadCertificate
<1>2. Types /\ PrimaryKey /\ 0 \in Material
  BY Bounds DEF IInv, Material
<1>3. /\ certs' \in [Name -> Row \cup {NoCert}] /\ rows' \in 0..MaxRows
      /\ PrimaryKey' /\ RowsKept(certs, rows, certs', rows')
      /\ Existing' = Existing \cup {n}
      /\ \A k \in Existing : certs'[k] = certs[k]
  BY <1>1, <1>2, NewRow
<1>4. ForeignKey'
  BY <1>1, <1>3 DEF IInv, ForeignKey
<1>5. Ranges'
  BY <1>1 DEF IInv, Ranges, ca, history
<1>6. jobs' \in [Job -> JobRow \cup {NoJob}]
  BY <1>1 DEF IInv, Types
<1>7. QED
  BY <1>1, <1>3, <1>4, <1>5, <1>6, StoreMoves DEF ca, history

\* A deletion sets cert_id to NULL in the jobs that name the row.
LEMMA DeleteCertificateInv ==
  ASSUME IInv, NEW n \in Name, DeleteCertificate(n)
  PROVE  IInv'
<1> DEFINE gone(j) == jobs[j] # NoJob /\ jobs[j].cert = certs[n].id
<1>1. /\ n \in Existing /\ certs' = [certs EXCEPT ![n] = NoCert]
      /\ jobs' = [j \in Job |-> IF gone(j) THEN [jobs[j] EXCEPT !.cert = 0] ELSE jobs[j]]
      /\ UNCHANGED <<rows, ca, served, act, history>>
  BY DEF DeleteCertificate
<1>2. /\ certs' \in [Name -> Row \cup {NoCert}] /\ Existing' = Existing \ {n}
      /\ \A m \in Existing' : certs'[m] = certs[m]
  BY <1>1 DEF IInv, Types, Existing
<1>3. \A row \in JobRow : /\ [row EXCEPT !.cert = 0] \in JobRow
                          /\ [row EXCEPT !.cert = 0].cert = 0
                          /\ [row EXCEPT !.cert = 0].status = row.status
  BY DEF JobRow
<1>4. ASSUME NEW j \in Job
      PROVE  /\ jobs'[j] \in JobRow \cup {NoJob}
             /\ ~gone(j) => jobs'[j] = jobs[j]
             /\ gone(j) => /\ jobs'[j] # NoJob /\ jobs'[j].cert = 0
                           /\ jobs'[j].status = jobs[j].status
  <2>1. jobs[j] \in JobRow \cup {NoJob}
    BY DEF IInv, Types
  <2>2. jobs'[j] = IF gone(j) THEN [jobs[j] EXCEPT !.cert = 0] ELSE jobs[j]
    BY <1>1
  <2>3. QED
    BY <1>3, <2>1, <2>2, NullAssumption
<1>5. jobs' \in [Job -> JobRow \cup {NoJob}]
  BY <1>1, <1>4
<1>6. ForeignKey'
  <2> SUFFICES ASSUME NEW j \in Job, jobs'[j] # NoJob, jobs'[j].cert # 0
               PROVE  \E m \in Existing' : certs'[m].id = jobs'[j].cert
    BY DEF ForeignKey
  <2>1. jobs'[j] = jobs[j] /\ jobs[j].cert # certs[n].id
    BY <1>4
  <2>2. PICK m \in Existing : certs[m].id = jobs[j].cert
    BY <2>1 DEF IInv, ForeignKey
  <2>3. m \in Existing'
    BY <1>2, <2>1, <2>2
  <2>4. QED
    BY <1>2, <2>1, <2>2, <2>3
<1>7. PrimaryKey'
  BY <1>1, <1>2 DEF IInv, PrimaryKey
<1>8. RowsKept(certs, rows, certs', rows')
  BY <1>1, <1>2, Bounds DEF RowsKept, Existing, IInv, Types
<1>9. Ranges' /\ rows' \in 0..MaxRows
  BY <1>1 DEF IInv, Ranges, ca, history, Types
<1>10. \A k \in Job :
            \/ /\ jobs[k] # NoJob /\ jobs'[k] # NoJob
               /\ jobs'[k].status = jobs[k].status
               /\ jobs'[k].cert \in {0, jobs[k].cert}
            \/ jobs[k] = NoJob /\ jobs'[k] = NoJob
  BY <1>4
<1> HIDE DEF gone
<1>11. QED
  BY <1>1, <1>2, <1>5, <1>6, <1>7, <1>8, <1>9, <1>10, StoreMoves DEF ca, history

\* Time passes, or nothing happens.
LEMMA ComesDueInv ==
  ASSUME IInv, UNCHANGED <<tables, txt, orders, served, act, history>>, due' \subseteq Order
  PROVE  IInv'
<1>1. Ranges'
  BY DEF IInv, Ranges, history
<1>2. /\ jobs' \in [Job -> JobRow \cup {NoJob}]
      /\ certs' \in [Name -> Row \cup {NoCert}] /\ rows' \in 0..MaxRows
      /\ ForeignKey' /\ PrimaryKey'
  BY DEF tables, IInv, Types, ForeignKey, PrimaryKey, Existing
<1>3. RowsKept(certs, rows, certs', rows')
  BY Bounds DEF tables, RowsKept, IInv, Types
<1>4. \A k \in Job : jobs'[k] = jobs[k]
  BY DEF tables
<1>5. QED
  BY <1>1, <1>2, <1>3, <1>4, StoreMoves DEF history

-----------------------------------------------------------------------------
(* Workers change the tables.                                              *)

\* The row of one job is written, and no certificate.
LEMMA JobWritten ==
  ASSUME IInv, NEW j \in Job, NEW row \in JobRow, jobs' = [jobs EXCEPT ![j] = row],
         UNCHANGED <<certs, rows>>,
         row.cert # 0 => \E n \in Existing : certs[n].id = row.cert
  PROVE  /\ jobs' \in [Job -> JobRow \cup {NoJob}]
         /\ jobs'[j] = row /\ jobs'[j] # NoJob
         /\ \A k \in Job : k # j => jobs'[k] = jobs[k] /\ StatusOf(k)' = StatusOf(k)
         /\ StatusOf(j)' = row.status
         /\ ForeignKey' /\ PrimaryKey'
         /\ \A b \in Actor : RowsFit(act[b], certs', rows')
<1>1. jobs' \in [Job -> JobRow \cup {NoJob}]
  BY DEF IInv, Types
<1>2. /\ jobs'[j] = row /\ jobs'[j] # NoJob
      /\ \A k \in Job : k # j => jobs'[k] = jobs[k]
  BY NullAssumption DEF IInv, Types
<1>3. \A k \in Job : k # j => StatusOf(k)' = StatusOf(k)
  BY <1>2 DEF StatusOf
<1>4. StatusOf(j)' = row.status
  BY <1>2 DEF StatusOf
<1>5. ForeignKey' /\ PrimaryKey'
  BY <1>2 DEF IInv, ForeignKey, PrimaryKey, Existing
<1>6. \A b \in Actor : RowsFit(act[b], certs', rows')
  BY ActorIs DEF Fits
<1>7. QED
  BY <1>1, <1>2, <1>3, <1>4, <1>5, <1>6

\* A claimed job was pending, so nobody has it.
LEMMA ClaimInv ==
  ASSUME IInv, NEW w \in Worker, Claim(w)
  PROVE  IInv'
<1>1. PICK j \in Job :
         /\ IsNextJob(j)
         /\ jobs' = [jobs EXCEPT ![j].status = "running"]
         /\ To(w, [Idle EXCEPT !.pc = "load", !.job = j])
  BY DEF Claim
<1>2. /\ w \in Actor /\ act[w].pc = "idle"
      /\ UNCHANGED <<certs, rows, ca, served, history>>
  BY DEF Claim, Actor
<1> DEFINE row == [jobs[j] EXCEPT !.status = "running"]
           f == [Idle EXCEPT !.pc = "load", !.job = j]
<1>3. jobs[j] \in JobRow /\ jobs[j] # NoJob /\ jobs[j].status = "pending"
  BY <1>1, StatusIs DEF IsNextJob, IInv, StatusOf
<1>4. /\ row \in JobRow /\ row.status = "running" /\ row.cert = jobs[j].cert
      /\ jobs' = [jobs EXCEPT ![j] = row]
  BY <1>1, <1>3 DEF JobRow, IInv, Types
<1>5. /\ f \in ActorState /\ f.pc = "load" /\ f.job = j
      /\ f.planted = {} /\ f.todo = {} /\ f.row = NoCert
  BY IdleFits DEF ActorState, Pc, Idle
<1>6. To(w, f)
  BY <1>1
<1> HIDE DEF row, f
<1>7. row.cert # 0 => \E n \in Existing : certs[n].id = row.cert
  BY <1>3, <1>4 DEF IInv, ForeignKey
<1>8. /\ jobs' \in [Job -> JobRow \cup {NoJob}]
      /\ jobs'[j] = row /\ jobs'[j] # NoJob
      /\ \A k \in Job : k # j => jobs'[k] = jobs[k] /\ StatusOf(k)' = StatusOf(k)
      /\ StatusOf(j)' = row.status
      /\ ForeignKey' /\ PrimaryKey'
      /\ \A b \in Actor : RowsFit(act[b], certs', rows')
  BY <1>2, <1>4, <1>7, JobWritten
<1>9. \A v \in Worker : act[v].job # j
  <2>1. \A v \in Worker : JobFits(act[v], jobs)
    BY ActorIs DEF Fits, Actor
  <2>2. QED
    BY <1>3, <2>1, Bounds DEF JobFits
<1>10. Fits(w, f, jobs', certs', rows')
  BY <1>4, <1>5, <1>8, Bounds DEF Fits, OrderFits, RowsFit, JobFits
<1>11. act' \in [Actor -> ActorState] /\ ActorsFit' /\ OneWorkerPerJob'
  BY <1>2, <1>5, <1>6, <1>8, <1>9, <1>10, OneMoves
<1>12. Types' /\ Ranges'
  BY <1>2, <1>8, <1>11 DEF IInv, Types, Ranges, ca, history
<1>13. NoRecordLeft'
  BY <1>2, <1>6, RecordsStay DEF ca, history
<1>14. SucceededIsServed'
  <2>1. act'[w] = f /\ \A v \in Worker : v # w => act'[v] = act[v]
    BY <1>6 DEF To, IInv, Types, Actor
  <2>2. act[w].job = 0
    BY <1>2, ActorIs DEF Fits, JobFits
  <2>3. \A k \in Job \ {j} : (\A v \in Worker : act'[v].job # k) => \A v \in Worker : act[v].job # k
    BY <2>1, <2>2, Bounds
  <2>4. abandoned' = abandoned /\ landed' = landed
    BY <1>2 DEF history
  <2>5. QED
    BY <1>4, <1>8, <2>3, <2>4 DEF IInv, SucceededIsServed
<1>15. QED
  BY <1>8, <1>11, <1>12, <1>13, <1>14 DEF IInv

\* A worker stores its certificate under a fresh id, or meets the unique name.
LEMMA CreateCertificateInv ==
  ASSUME IInv, NEW w \in Worker, CreateCertificate(w)
  PROVE  IInv'
<1>1. w \in Actor /\ act[w].pc = "save" /\ UNCHANGED <<jobs, ca, served, history>>
  BY DEF CreateCertificate, Actor
<1>2. act[w] \in ActorState /\ JobFits(act[w], jobs) /\ act[w].job \in Job
  BY <1>1, ActorIs DEF Fits, JobFits
<1>3. jobs[act[w].job] # NoJob /\ jobs[act[w].job] \in JobRow
  BY <1>1, <1>2 DEF JobFits, IInv, Types
<1>4. jobs[act[w].job].name \in Name
  BY <1>3 DEF JobRow
<1>5. PICK n \in Name : n = jobs[act[w].job].name
  BY <1>4
<1> DEFINE f == [Idle EXCEPT !.pc = "mark", !.job = act[w].job, !.id = rows + 1]
<1>6. /\ n \notin Existing /\ rows < MaxRows /\ rows' = rows + 1
      /\ certs' = [certs EXCEPT ![n] = [id |-> rows + 1, source |-> "acme",
                                        material |-> act[w].order]]
      /\ To(w, f)
  BY <1>5 DEF CreateCertificate
<1>7. act[w].order \in Material
  BY <1>2, Bounds DEF ActorState, Order, Material
<1>8. Types /\ PrimaryKey
  BY DEF IInv
<1>9. /\ certs' \in [Name -> Row \cup {NoCert}] /\ rows' \in 0..MaxRows
      /\ rows + 1 \in RowId
      /\ PrimaryKey' /\ RowsKept(certs, rows, certs', rows')
      /\ Existing' = Existing \cup {n}
      /\ \A k \in Existing : certs'[k] = certs[k]
  BY <1>6, <1>7, <1>8, NewRow
<1>10. /\ f \in ActorState /\ f.pc = "mark" /\ f.job = act[w].job
       /\ f.planted = {} /\ f.todo = {} /\ f.row = NoCert
  BY <1>2, <1>9, IdleFits DEF ActorState, Pc, Idle
<1> HIDE DEF f
<1>11. Fits(w, f, jobs', certs', rows')
  BY <1>1, <1>2, <1>10, Bounds DEF Fits, OrderFits, RowsFit, JobFits
<1>12. \A b \in Actor : RowsFit(act[b], certs', rows')
  BY <1>9, RowsFitAll
<1>13. \A v \in Worker \ {w} : act[v].job # f.job
  BY <1>1, <1>10 DEF IInv, OneWorkerPerJob
<1>14. act' \in [Actor -> ActorState] /\ ActorsFit' /\ OneWorkerPerJob'
  BY <1>1, <1>6, <1>10, <1>11, <1>12, <1>13, OneMoves
<1>15. Types' /\ Ranges'
  BY <1>1, <1>9, <1>14 DEF IInv, Types, Ranges, ca, history
<1>16. ForeignKey'
  BY <1>1, <1>9 DEF IInv, ForeignKey
<1>17. NoRecordLeft'
  BY <1>1, <1>6, RecordsStay DEF ca, history
<1>18. SucceededIsServed'
  BY <1>1, <1>6, <1>10, ServedStays DEF history
<1>19. QED
  BY <1>9, <1>14, <1>15, <1>16, <1>17, <1>18 DEF IInv

\* A worker writes the status of its own job, and goes on to f.
LEMMA OwnJobWritten ==
  ASSUME IInv, NEW w \in Worker, act[w].pc \notin {"idle", "authorize", "wait", "cleanup"},
         NEW j \in Job, j = act[w].job,
         NEW row \in JobRow, jobs' = [jobs EXCEPT ![j] = row],
         row.cert # 0 => \E n \in Existing : certs[n].id = row.cert,
         UNCHANGED <<certs, rows, ca, served, history>>,
         NEW f \in ActorState, To(w, f),
         f.planted = {}, f.todo = {}, f.row = NoCert,
         \/ f.pc = "read" /\ f.job = j /\ row.status = "succeeded"
         \/ f.pc = "idle" /\ f.job = 0 /\ row.status = "failed"
  PROVE  IInv'
<1>1. w \in Actor
  BY DEF Actor
<1>2. /\ jobs' \in [Job -> JobRow \cup {NoJob}]
      /\ jobs'[j] = row /\ jobs'[j] # NoJob
      /\ \A k \in Job : k # j => jobs'[k] = jobs[k] /\ StatusOf(k)' = StatusOf(k)
      /\ StatusOf(j)' = row.status
      /\ ForeignKey' /\ PrimaryKey'
      /\ \A b \in Actor : RowsFit(act[b], certs', rows')
  BY JobWritten
<1>3. Fits(w, f, jobs', certs', rows')
  BY <1>2, Bounds DEF Fits, OrderFits, RowsFit, JobFits
<1>4. \A v \in Worker \ {w} : act[v].job # j
  BY DEF IInv, OneWorkerPerJob
<1>5. act' \in [Actor -> ActorState] /\ ActorsFit' /\ OneWorkerPerJob'
  <2>1. f.pc # "idle" => \A v \in Worker \ {w} : act[v].job # f.job
    BY <1>4
  <2>2. \A k \in Job : (w \in Renewer \/ k # act[w].job) =>
           jobs'[k] = jobs[k] \/ \A v \in Worker : act[v].job # k
    BY <1>2, Bounds
  <2>3. QED
    BY <1>1, <1>2, <1>3, <2>1, <2>2, OneMoves
<1>6. Types' /\ Ranges'
  BY <1>2, <1>5 DEF IInv, Types, Ranges, ca, history
<1>7. NoRecordLeft'
  BY <1>1, RecordsStay DEF ca, history
<1>8. SucceededIsServed'
  <2>1. act'[w] = f /\ \A v \in Worker : v # w => act'[v] = act[v]
    BY <1>1 DEF To, IInv, Types, Actor
  <2>2. \A k \in Job \ {j} : (\A v \in Worker : act'[v].job # k) => \A v \in Worker : act[v].job # k
    BY <2>1
  <2>3. StatusOf(j)' = "succeeded" => act'[w].job = j
    BY <1>2, <2>1
  <2>4. abandoned' = abandoned /\ landed' = landed
    BY DEF history
  <2>5. QED
    BY <1>2, <2>2, <2>3, <2>4 DEF IInv, SucceededIsServed
<1>9. QED
  BY <1>2, <1>5, <1>6, <1>7, <1>8 DEF IInv

\* A worker marks its own job succeeded, before the publish.
LEMMA MarkSucceededInv ==
  ASSUME IInv, NEW w \in Worker, MarkSucceeded(w)
  PROVE  IInv'
<1>1. act[w].pc = "mark" /\ act[w] \in ActorState /\ act[w].job \in Job
  BY ActorIs DEF MarkSucceeded, Actor, Fits, JobFits
<1>2. PICK j \in Job : j = act[w].job
  BY <1>1
<1> DEFINE row == [jobs[j] EXCEPT !.status = "succeeded", !.cert = act[w].id]
           f == [Idle EXCEPT !.pc = "read", !.job = j]
<1>3. /\ jobs' = [jobs EXCEPT ![j] = row] /\ To(w, f)
      /\ \E n \in Existing : certs[n].id = act[w].id
      /\ UNCHANGED <<certs, rows, ca, served, history>>
  BY <1>2 DEF MarkSucceeded, IInv, Types
<1>4. jobs[j] \in JobRow
  BY <1>1, <1>2, ActorIs DEF Fits, JobFits, Actor, IInv, Types
<1>5. act[w].id \in RowId \cup {0}
  BY <1>1 DEF ActorState
<1>6. row \in JobRow /\ row.status = "succeeded" /\ row.cert = act[w].id
  BY <1>4, <1>5 DEF JobRow
<1>7. /\ f \in ActorState /\ f.pc = "read" /\ f.job = j
      /\ f.planted = {} /\ f.todo = {} /\ f.row = NoCert
  BY IdleFits DEF ActorState, Pc, Idle
<1> HIDE DEF row, f
<1>8. QED
  BY <1>1, <1>2, <1>3, <1>6, <1>7, OwnJobWritten

\* A worker marks its own job failed and lets go of it.
LEMMA MarkFailedInv ==
  ASSUME IInv, NEW w \in Worker, MarkFailed(w)
  PROVE  IInv'
<1>1. act[w].pc = "fail" /\ act[w].job \in Job
  BY ActorIs DEF MarkFailed, Actor, Fits, JobFits
<1>2. PICK j \in Job : j = act[w].job
  BY <1>1
<1> DEFINE row == [jobs[j] EXCEPT !.status = "failed"]
<1>3. /\ jobs' = [jobs EXCEPT ![j] = row] /\ To(w, Idle)
      /\ UNCHANGED <<certs, rows, ca, served, history>>
  BY <1>2 DEF MarkFailed, IInv, Types
<1>4. jobs[j] \in JobRow /\ jobs[j] # NoJob
  BY <1>1, <1>2, ActorIs DEF Fits, JobFits, Actor, IInv, Types
<1>5. row \in JobRow /\ row.status = "failed" /\ row.cert = jobs[j].cert
  BY <1>4 DEF JobRow
<1> HIDE DEF row
<1>6. row.cert # 0 => \E n \in Existing : certs[n].id = row.cert
  BY <1>4, <1>5 DEF IInv, ForeignKey
<1>7. Idle \in ActorState /\ Idle.planted = {} /\ Idle.todo = {} /\ Idle.row = NoCert
  BY IdleFits DEF Idle
<1>8. QED
  BY <1>1, <1>2, <1>3, <1>5, <1>6, <1>7, IdleFits, OwnJobWritten

\* A renewer writes the material of a row, under an id that is not an upload's.
LEMMA UpdateMaterialInv ==
  ASSUME IInv, NEW r \in Renewer, UpdateMaterial(r)
  PROVE  IInv'
<1>1. PICK n \in Name :
         IsRow(n, act[r].row) /\ certs' = [certs EXCEPT ![n].material = act[r].order]
  BY DEF UpdateMaterial
<1> DEFINE f == [Idle EXCEPT !.pc = "next", !.todo = act[r].todo, !.renewed = TRUE]
           row == [certs[n] EXCEPT !.material = act[r].order]
<1>2. /\ r \in Actor /\ r \notin Worker /\ act[r].pc = "save" /\ To(r, f)
      /\ UNCHANGED <<jobs, rows, ca, served, history>>
  BY Bounds DEF UpdateMaterial, Actor
<1>3. act[r] \in ActorState /\ Fits(r, act[r], jobs, certs, rows)
  BY <1>2, ActorIs
<1>4. n \in Existing /\ certs[n] \in Row /\ certs[n] # NoCert
  BY <1>1 DEF IsRow, Existing, IInv, Types
<1>5. act[r].order \in Material
  BY <1>3, Bounds DEF ActorState, Order, Material
<1>6. row \in Row /\ row # NoCert /\ row.id = certs[n].id /\ row.source = certs[n].source
  BY <1>4, <1>5, NullAssumption DEF Row
<1>7. certs' = [certs EXCEPT ![n] = row]
  BY <1>1
<1>8. /\ f \in ActorState /\ f.pc = "next" /\ f.job = 0
      /\ f.planted = {} /\ f.todo = act[r].todo /\ f.row = NoCert
  BY <1>3, IdleFits DEF ActorState, Pc, Idle
<1> HIDE DEF row, f
<1>9. /\ certs' \in [Name -> Row \cup {NoCert}] /\ certs'[n] = row
      /\ \A k \in Name : k # n => certs'[k] = certs[k]
  BY <1>6, <1>7 DEF IInv, Types
<1>10. Existing' = Existing /\ \A k \in Existing : certs'[k].id = certs[k].id
  BY <1>4, <1>6, <1>9 DEF Existing
<1>11. RowsKept(certs, rows, certs', rows')
  BY <1>2, <1>4, <1>6, <1>9, Bounds DEF RowsKept, IInv, Types
<1>12. \A b \in Actor : RowsFit(act[b], certs', rows')
  BY <1>2, <1>9, <1>11, RowsFitAll DEF IInv, Types
<1>13. RowsFit(f, certs', rows')
  BY <1>2, <1>8, <1>12 DEF RowsFit
<1>14. Fits(r, f, jobs', certs', rows')
  BY <1>2, <1>8, <1>13 DEF Fits, OrderFits, HasRow
<1>15. act' \in [Actor -> ActorState] /\ ActorsFit' /\ OneWorkerPerJob'
  BY <1>2, <1>8, <1>12, <1>14, OneMoves
<1>16. Types' /\ Ranges'
  BY <1>2, <1>9, <1>15 DEF IInv, Types, Ranges, ca, history
<1>17. ForeignKey' /\ PrimaryKey'
  BY <1>2, <1>10 DEF IInv, ForeignKey, PrimaryKey
<1>18. NoRecordLeft'
  BY <1>2, RecordsStay DEF ca, history
<1>19. SucceededIsServed'
  BY <1>2, ServedStays DEF history
<1>20. QED
  BY <1>15, <1>16, <1>17, <1>18, <1>19 DEF IInv

-----------------------------------------------------------------------------
(* Processes die.                                                          *)

\* A process dies with its worker and its renewer: their jobs are abandoned, their
\* records leaked.
LEMMA CrashInv ==
  ASSUME IInv, NEW P \in Process, Crash(P)
  PROVE  IInv'
<1> DEFINE dead == {a \in P : act[a].pc # "idle"}
           lost == UNION {{<<d, act[a].order>> : d \in act[a].planted} : a \in dead}
<1>1. /\ crashes < MaxCrashes /\ crashes' = crashes + 1
      /\ act' = [a \in Actor |-> IF a \in P THEN Idle ELSE act[a]]
      /\ abandoned' = abandoned \cup {act[w].job : w \in dead \cap Worker}
      /\ leaked' = leaked \cup lost
      /\ UNCHANGED <<tables, ca, served, landed>>
  BY DEF Crash
<1>2. P \subseteq Actor
  BY IssuanceAssumption DEF Actor
<1>3. \A a \in Actor : act'[a] = Idle \/ (a \notin P /\ act'[a] = act[a])
  BY <1>1
<1>4. act' \in [Actor -> ActorState]
  BY <1>1, IdleFits DEF IInv, Types
<1>5. UNCHANGED <<jobs, certs, rows, txt>> /\ landed' = landed
  BY <1>1 DEF tables, ca
<1>6. ActorsFit'
  BY <1>3, <1>5, ActorIs, IdleFits DEF ActorsFit
<1>7. \A w \in Worker : w \in Actor /\ JobFits(act[w], jobs)
  BY ActorIs DEF Fits, Actor
<1>8. OneWorkerPerJob'
  <2> SUFFICES ASSUME NEW w \in Worker, act'[w].pc # "idle"
               PROVE  /\ StatusOf(act[w].job) \in {"running", "succeeded"}
                      /\ act'[w] = act[w] /\ act[w].job # 0
                      /\ \A v \in Worker \ {w} : act[v].job # act[w].job
    BY <1>3, <1>5, <1>7, IdleFits DEF OneWorkerPerJob, StatusOf
  <2>1. act'[w] = act[w] /\ act[w].pc # "idle"
    BY <1>3, <1>7, IdleFits
  <2>2. act[w].job # 0
    BY <1>7, <2>1, Bounds DEF JobFits
  <2>3. QED
    BY <2>1, <2>2 DEF IInv, OneWorkerPerJob
<1>9. Ranges'
  <2>1. {act[w].job : w \in dead \cap Worker} \subseteq Job
    BY <1>7 DEF JobFits
  <2>2. lost \subseteq Domain \X Order
    <3>1. ASSUME NEW a \in dead, NEW d \in act[a].planted
          PROVE  d \in Domain /\ act[a].order \in Order
      BY <1>2, ActorIs DEF ActorState, Fits, OrderFits
    <3>2. QED
      BY <3>1
  <2>3. crashes' \in 0..MaxCrashes
    BY <1>1, Bounds DEF IInv, Ranges
  <2>4. UNCHANGED <<due, txt, orders, served, landed>>
    BY <1>1 DEF ca
  <2> HIDE DEF dead, lost
  <2>5. QED
    BY <1>1, <2>1, <2>2, <2>3, <2>4 DEF IInv, Ranges
<1>10. NoRecordLeft'
  <2> SUFFICES ASSUME NEW rec \in txt' \ leaked'
               PROVE  \E b \in Actor :
                         /\ act'[b].pc \in {"authorize", "wait", "cleanup"}
                         /\ act'[b].order = rec[2]
                         /\ rec[1] \in act'[b].planted
    BY DEF NoRecordLeft
  <2>1. rec \in txt \ leaked /\ rec \notin lost
    BY <1>1, <1>5
  <2>2. PICK b \in Actor :
           /\ act[b].pc \in {"authorize", "wait", "cleanup"}
           /\ act[b].order = rec[2]
           /\ rec[1] \in act[b].planted
    BY <2>1 DEF IInv, NoRecordLeft
  <2>3. rec = <<rec[1], rec[2]>>
    BY <2>1 DEF IInv, Ranges
  <2>4. b \notin P
    BY <2>1, <2>2, <2>3
  <2>5. QED
    BY <1>1, <2>2, <2>4
<1>11. SucceededIsServed'
  <2> SUFFICES ASSUME NEW j \in Job \ abandoned',
                      StatusOf(j)' = "succeeded", jobs'[j].cert # 0,
                      \A w \in Worker : act'[w].job # j
               PROVE  jobs'[j].cert \in landed'
    BY DEF SucceededIsServed
  <2>1. jobs'[j] = jobs[j] /\ StatusOf(j)' = StatusOf(j) /\ j \notin abandoned
    BY <1>1, <1>5 DEF StatusOf
  <2>2. ASSUME NEW w \in Worker
        PROVE  act[w].job # j
    <3>1. CASE w \in P /\ act[w].pc # "idle"
      BY <1>1, <3>1
    <3>2. CASE act[w].pc = "idle"
      BY <1>7, <3>2, Bounds DEF JobFits
    <3>3. CASE w \notin P
      BY <1>1, <1>7, <3>3
    <3>4. QED
      BY <3>1, <3>2, <3>3
  <2>3. QED
    BY <1>5, <2>1, <2>2 DEF IInv, SucceededIsServed
<1>12. Types' /\ ForeignKey' /\ PrimaryKey'
  BY <1>4, <1>5 DEF IInv, Types, ForeignKey, PrimaryKey, Existing
<1>13. QED
  BY <1>6, <1>8, <1>9, <1>10, <1>11, <1>12 DEF IInv

-----------------------------------------------------------------------------
(* The invariant holds.                                                    *)

\* The invariant: the start.
LEMMA InitInv ==
  ASSUME Init
  PROVE  IInv
<1>1. Types /\ Ranges
  BY IdleFits, Bounds DEF Init, Types, Ranges
<1>2. ForeignKey /\ PrimaryKey
  BY DEF Init, ForeignKey, PrimaryKey, Existing
<1>3. ActorsFit
  BY IdleFits DEF Init, ActorsFit
<1>4. OneWorkerPerJob /\ NoRecordLeft
  BY IdleFits DEF Init, OneWorkerPerJob, NoRecordLeft, Actor
<1>5. SucceededIsServed
  BY DEF Init, SucceededIsServed, StatusOf
<1>6. QED
  BY <1>1, <1>2, <1>3, <1>4, <1>5 DEF IInv

\* The invariant: every step of an order.
LEMMA IssueInv ==
  ASSUME IInv, NEW a \in Actor, Issue(a)
  PROVE  IInv'
<1>1. CASE LoadFails(a) \/ SaveFails(a)
  BY <1>1, FailsInv DEF LoadFails, SaveFails
<1>2. QED
  BY <1>1, AuthorizeOrderInv, PresentInv, PresentFailsInv, AuthorizationInv, CleanUpInv,
     ReadCertsInv, CommitInv, PublishFailsInv DEF Issue

\* The invariant: every step.
LEMMA NextInv ==
  ASSUME IInv, [Next]_vars
  PROVE  IInv'
<1>1. ASSUME NEW n \in Name,
             RequestCertificate(n) \/ UploadCertificate(n) \/ DeleteCertificate(n)
      PROVE  IInv'
  BY <1>1, RequestCertificateInv, UploadCertificateInv, DeleteCertificateInv
<1>2. ASSUME NEW m \in Order, ComesDue(m)
      PROVE  IInv'
  <2>1. /\ UNCHANGED <<tables, txt, orders, served, act, history>>
        /\ due' \subseteq Order
    BY <1>2 DEF ComesDue, IInv, Ranges
  <2>2. QED
    BY <2>1, ComesDueInv
<1>3. ASSUME NEW w \in Worker, RunJobs(w)
      PROVE  IInv'
  <2>1. w \in Actor
    BY DEF Actor
  <2>2. CASE MarkSucceededFails(w)
    BY <2>1, <2>2, FailsInv DEF MarkSucceededFails
  <2>3. QED
    BY <1>3, <2>1, <2>2, ClaimInv, CreateCertificateInv, MarkSucceededInv, MarkFailedInv,
       MarkFailedFailsInv, IssueInv DEF RunJobs
<1>4. ASSUME NEW r \in Renewer, Renew(r)
      PROVE  IInv'
  BY <1>4, ListDueInv, NextRowInv, UpdateMaterialInv, IssueInv DEF Renew, Actor
<1>5. CASE UNCHANGED vars
  <2>1. /\ UNCHANGED <<tables, txt, orders, served, act, history>>
        /\ due' \subseteq Order
    BY <1>5 DEF vars, ca, IInv, Ranges
  <2>2. QED
    BY <2>1, ComesDueInv
<1>6. QED
  BY <1>1, <1>2, <1>3, <1>4, <1>5, CrashInv DEF Next

\* The invariant holds at all times.
LEMMA Invariance == Spec => []IInv
<1>1. Init => IInv
  BY InitInv
<1>2. IInv /\ [Next]_vars => IInv'
  BY NextInv
<1>3. QED
  BY <1>1, <1>2, PTL DEF Spec

-----------------------------------------------------------------------------
(* The theorems.                                                           *)

\* TypeOK holds: the rows are typed, and the cert_id of a job is a row that
\* exists, through every order of saving, deleting and marking.
THEOREM TypeCorrect == Spec => []TypeOK
<1>1. IInv => TypeOK
  BY TypeParts DEF IInv
<1>2. QED
  BY <1>1, Invariance, PTL

\* A step after which no job is forgotten: a job becomes running in the hands of a
\* worker, and is let go of when it is running no more, or abandoned.
LEMMA StillHeld ==
  ASSUME NoJobForgotten, abandoned \subseteq abandoned',
         \A j \in Job : StatusOf(j)' = "running" =>
             StatusOf(j) = "running" \/ \E w \in Worker : act'[w].job = j,
         \A w \in Worker, j \in Job : act[w].job = j =>
             act'[w].job = j \/ j \in abandoned' \/ StatusOf(j)' # "running"
  PROVE  NoJobForgotten'
<1>1. SUFFICES ASSUME NEW j \in Job, j \notin abandoned', StatusOf(j)' = "running",
                      StatusOf(j) = "running"
               PROVE  \E w \in Worker : act'[w].job = j
  BY DEF NoJobForgotten
<1>2. PICK w \in Worker : act[w].job = j
  BY <1>1 DEF NoJobForgotten
<1>3. QED
  BY <1>1, <1>2

\* Whoever moves, if the job table does not change: a worker keeps its job, or
\* lets go of one that is running no more, or abandoned.
LEMMA MoveStillHeld ==
  ASSUME IInv, NoJobForgotten, NEW a \in Actor, NEW f, To(a, f),
         UNCHANGED jobs, abandoned \subseteq abandoned',
         a \in Worker => \/ f.job = act[a].job
                         \/ act[a].pc \in {"idle", "read", "commit"}
                         \/ act[a].job \in abandoned'
  PROVE  NoJobForgotten'
<1>1. act'[a] = f /\ \A b \in Actor \ {a} : act'[b] = act[b]
  BY DEF To, IInv, Types
<1>2. \A j \in Job : StatusOf(j)' = StatusOf(j)
  BY DEF StatusOf
<1>3. a \in Worker /\ act[a].pc \in {"idle", "read", "commit"} =>
          \A j \in Job : act[a].job = j => StatusOf(j) # "running"
  BY ActorIs DEF Fits, JobFits, StatusOf, Job
<1>4. \A w \in Worker : w \in Actor
  BY DEF Actor
<1>5. QED
  BY <1>1, <1>2, <1>3, <1>4, StillHeld

\* No step of an order forgets a job: an error is a worker's to mark, and only a
\* publish that was committed lets go.
LEMMA IssueForgetsNone ==
  ASSUME IInv, NoJobForgotten, NEW a \in Actor, Issue(a)
  PROVE  NoJobForgotten'
<1>1. act[a] \in ActorState
  BY ActorIs
<1>2. UNCHANGED <<jobs, abandoned>>
  BY DEF Issue, LoadFails, AuthorizeOrder, AlreadyValid, Present, PresentFails,
     WaitAuthorization, AuthorizationFails, Finalize, CleanUp, SaveFails, ReadCerts, Commit,
     PublishFails, tables, history
<1>3. ASSUME NEW f, To(a, f), f.job = act[a].job
      PROVE  NoJobForgotten'
  BY <1>2, <1>3, MoveStillHeld
<1>4. ASSUME To(a, Fails(a)), act[a].pc # "idle"
      PROVE  NoJobForgotten'
  BY <1>2, <1>4, FailsFits, MoveStillHeld
<1>5. CASE LoadFails(a) \/ SaveFails(a)
  BY <1>4, <1>5 DEF LoadFails, SaveFails
<1>6. CASE AuthorizeOrder(a)
  BY <1>1, <1>3, <1>6 DEF AuthorizeOrder, ActorState
<1>7. CASE AlreadyValid(a) \/ Present(a)
  BY <1>1, <1>3, <1>7 DEF AlreadyValid, Present, ActorState
<1>8. CASE PresentFails(a) \/ WaitAuthorization(a) \/ AuthorizationFails(a) \/ Finalize(a)
  BY <1>1, <1>3, <1>8 DEF PresentFails, WaitAuthorization, AuthorizationFails, Finalize,
     ActorState
<1>9. CASE CleanUp(a)
  <2> DEFINE saves == [act[a] EXCEPT !.pc = "save", !.planted = {}, !.ok = FALSE]
  <2>1. saves.job = act[a].job
    BY <1>1 DEF ActorState
  <2>2. act[a].pc # "idle" /\ (To(a, saves) \/ To(a, Fails(a)))
    BY <1>9 DEF CleanUp
  <2> HIDE DEF saves
  <2>3. QED
    BY <1>3, <1>4, <2>1, <2>2
<1>10. CASE ReadCerts(a)
  BY <1>1, <1>3, <1>10 DEF ReadCerts, ActorState
<1>11. CASE Commit(a) \/ PublishFails(a)
  <2>1. act[a].pc \in {"read", "commit"} /\ \E f : To(a, f)
    BY <1>11 DEF Commit, PublishFails
  <2>2. QED
    BY <1>2, <2>1, MoveStillHeld
<1>12. QED
  BY <1>5, <1>6, <1>7, <1>8, <1>9, <1>10, <1>11 DEF Issue

\* No other step of a worker forgets a job.
LEMMA WorkerForgetsNone ==
  ASSUME IInv, NoJobForgotten, NEW w \in Worker, RunJobs(w)
  PROVE  NoJobForgotten'
<1>1. w \in Actor /\ act[w] \in ActorState /\ JobFits(act[w], jobs)
  BY ActorIs DEF Fits, Actor
<1>2. \A v \in Worker : v \in Actor
  BY DEF Actor
<1>3. CASE Claim(w)
  <2>1. PICK j \in Job : /\ jobs' = [jobs EXCEPT ![j].status = "running"]
                         /\ To(w, [Idle EXCEPT !.pc = "load", !.job = j])
    BY <1>3 DEF Claim
  <2>2. act[w].job = 0 /\ UNCHANGED abandoned
    BY <1>1, <1>3 DEF Claim, JobFits, history
  <2>3. /\ act'[w].job = j
        /\ \A v \in Worker : v # w => act'[v] = act[v]
        /\ \A k \in Job : k # j => jobs'[k] = jobs[k]
    BY <1>1, <1>2, <2>1 DEF To, Idle, IInv, Types
  <2>4. \A k \in Job : StatusOf(k)' = "running" =>
            StatusOf(k) = "running" \/ \E v \in Worker : act'[v].job = k
    BY <2>3 DEF StatusOf
  <2>5. \A v \in Worker, k \in Job : act[v].job = k => act'[v].job = k
    BY <2>2, <2>3, Bounds
  <2>6. QED
    BY <2>2, <2>4, <2>5, StillHeld
<1>4. CASE MarkSucceeded(w) \/ MarkFailed(w)
  <2>1. PICK j \in Job : j = act[w].job
    BY <1>1, <1>4 DEF MarkSucceeded, MarkFailed, JobFits
  <2>2. jobs[j] \in JobRow
    BY <1>1, <1>4, <2>1 DEF MarkSucceeded, MarkFailed, JobFits, IInv, Types
  <2>3. \E row : /\ jobs' = [jobs EXCEPT ![j] = row]
                 /\ row.status \in {"succeeded", "failed"}
    <3> DEFINE won  == [jobs[j] EXCEPT !.status = "succeeded", !.cert = act[w].id]
               lost == [jobs[j] EXCEPT !.status = "failed"]
    <3>1. won.status = "succeeded" /\ lost.status = "failed"
      BY <2>2 DEF JobRow
    <3>2. CASE MarkSucceeded(w)
      <4>1. jobs' = [jobs EXCEPT ![j] = won]
        BY <2>1, <3>2 DEF MarkSucceeded
      <4> HIDE DEF won
      <4>2. QED
        BY <3>1, <4>1
    <3>3. CASE MarkFailed(w)
      <4>1. jobs' = [jobs EXCEPT ![j] = lost]
        BY <2>1, <3>3 DEF MarkFailed, IInv, Types
      <4> HIDE DEF lost
      <4>2. QED
        BY <3>1, <4>1
    <3>4. QED
      BY <1>4, <3>2, <3>3
  <2>4. StatusOf(j)' # "running" /\ \A k \in Job : k # j => jobs'[k] = jobs[k]
    BY <2>3 DEF StatusOf, IInv, Types
  <2>5. \A k \in Job : StatusOf(k)' = "running" => StatusOf(k) = "running"
    BY <2>4 DEF StatusOf
  <2>6. (\A v \in Worker : v # w => act'[v] = act[v]) /\ UNCHANGED abandoned
    BY <1>1, <1>2, <1>4 DEF MarkSucceeded, MarkFailed, To, IInv, Types, history
  <2>7. QED
    BY <2>1, <2>4, <2>5, <2>6, StillHeld
<1>5. CASE CreateCertificate(w)
  <2> DEFINE f == [Idle EXCEPT !.pc = "mark", !.job = act[w].job, !.id = rows + 1]
  <2>1. To(w, f) /\ UNCHANGED <<jobs, abandoned>>
    BY <1>5 DEF CreateCertificate, history
  <2>2. f.job = act[w].job
    BY DEF Idle
  <2> HIDE DEF f
  <2>3. QED
    BY <1>1, <2>1, <2>2, MoveStillHeld
<1>6. CASE MarkSucceededFails(w)
  <2>1. act[w].pc # "idle" /\ To(w, Fails(w)) /\ UNCHANGED <<jobs, abandoned>>
    BY <1>6 DEF MarkSucceededFails, tables, history
  <2>2. QED
    BY <1>1, <2>1, FailsFits, MoveStillHeld
<1>7. CASE MarkFailedFails(w)
  <2>1. To(w, Idle) /\ UNCHANGED jobs /\ abandoned' = abandoned \cup {act[w].job}
    BY <1>7 DEF MarkFailedFails, tables
  <2>2. QED
    BY <1>1, <2>1, MoveStillHeld
<1>8. QED
  BY <1>1, <1>3, <1>4, <1>5, <1>6, <1>7, IssueForgetsNone DEF RunJobs

\* No job is forgotten by a step.
LEMMA NextForgetsNone ==
  ASSUME IInv, NoJobForgotten, [Next]_vars
  PROVE  NoJobForgotten'
<1>1. ASSUME UNCHANGED <<act, abandoned>>,
             \A j \in Job : StatusOf(j)' = "running" => StatusOf(j) = "running"
      PROVE  NoJobForgotten'
  BY <1>1, StillHeld
<1>2. ASSUME NEW n \in Name, RequestCertificate(n)
      PROVE  NoJobForgotten'
  <2>1. PICK j \in Job :
          jobs' = [jobs EXCEPT ![j] = [status |-> "pending", name |-> n, cert |-> 0]]
    BY <1>2 DEF RequestCertificate
  <2>2. \A k \in Job : StatusOf(k)' = "running" => StatusOf(k) = "running"
    BY <2>1 DEF StatusOf, IInv, Types
  <2>3. QED
    BY <1>1, <1>2, <2>2 DEF RequestCertificate, history
<1>3. ASSUME NEW n \in Name, DeleteCertificate(n)
      PROVE  NoJobForgotten'
  <2>1. \A j \in Job : jobs'[j] = IF jobs[j] # NoJob /\ jobs[j].cert = certs[n].id
                                  THEN [jobs[j] EXCEPT !.cert = 0] ELSE jobs[j]
    BY <1>3 DEF DeleteCertificate
  <2>2. \A row \in JobRow : [row EXCEPT !.cert = 0].status = row.status
    BY DEF JobRow
  <2>3. \A j \in Job : jobs[j] # NoJob => jobs'[j].status = jobs[j].status
    BY <2>1, <2>2 DEF IInv, Types
  <2>4. \A j \in Job : StatusOf(j)' = "running" => StatusOf(j) = "running"
    BY <2>1, <2>3 DEF StatusOf
  <2>5. QED
    BY <1>1, <1>3, <2>4 DEF DeleteCertificate, history
<1>4. CASE (\E n \in Name : UploadCertificate(n)) \/ (\E m \in Order : ComesDue(m)) \/ UNCHANGED vars
  <2>1. UNCHANGED <<jobs, act, abandoned>>
    BY <1>4 DEF UploadCertificate, ComesDue, vars, tables, history
  <2>2. QED
    BY <1>1, <2>1 DEF StatusOf
<1>5. ASSUME NEW r \in Renewer, Renew(r)
      PROVE  NoJobForgotten'
  <2>1. r \in Actor /\ r \notin Worker
    BY Bounds DEF Actor
  <2>2. CASE ListDue(r) \/ NextRow(r) \/ UpdateMaterial(r)
    <3>1. UNCHANGED <<jobs, abandoned>> /\ \E f : To(r, f)
      BY <2>2 DEF ListDue, NextRow, UpdateMaterial, tables, history
    <3>2. QED
      BY <2>1, <3>1, MoveStillHeld
  <2>3. QED
    BY <1>5, <2>1, <2>2, IssueForgetsNone DEF Renew
<1>6. ASSUME NEW P \in Process, Crash(P)
      PROVE  NoJobForgotten'
  <2> DEFINE dead == {a \in P : act[a].pc # "idle"}
  <2>1. /\ act' = [a \in Actor |-> IF a \in P THEN Idle ELSE act[a]]
        /\ abandoned' = abandoned \cup {act[w].job : w \in dead \cap Worker}
        /\ UNCHANGED jobs
    BY <1>6 DEF Crash, tables
  <2>2. ASSUME NEW w \in Worker, NEW j \in Job, act[w].job = j
        PROVE  act'[w].job = j \/ j \in abandoned'
    <3>1. w \in Actor /\ act[w].pc # "idle"
      BY <2>2, ActorIs, Bounds DEF Fits, JobFits, Actor
    <3>2. QED
      BY <2>1, <2>2, <3>1
  <2>3. \A j \in Job : StatusOf(j)' = StatusOf(j)
    BY <2>1 DEF StatusOf
  <2>4. QED
    BY <2>1, <2>2, <2>3, StillHeld
<1>7. QED
  BY <1>2, <1>3, <1>4, <1>5, <1>6, WorkerForgetsNone DEF Next

\* JobsHaveOneWorker holds: a job taken is running or succeeded until its worker
\* lets go of it, nobody else has it (ClaimNextACMEJob), and runACMEJob lets go of
\* a running one only by marking it.
THEOREM JobsAreHeld == Spec => []JobsHaveOneWorker
<1>1. Init => NoJobForgotten
  BY DEF Init, NoJobForgotten, StatusOf
<1>2. IInv /\ NoJobForgotten /\ [Next]_vars => NoJobForgotten'
  BY NextForgetsNone
<1>3. IInv /\ NoJobForgotten => JobsHaveOneWorker
  BY DEF IInv, JobsHaveOneWorker
<1>4. QED
  BY <1>1, <1>2, <1>3, Invariance, PTL DEF Spec

\* NoRecordLeft holds: every way out of an order passes through the deferred
\* clean-up of what was planted (acme.Issue).
THEOREM RecordsRemoved == Spec => []NoRecordLeft
<1>1. IInv => NoRecordLeft
  BY DEF IInv
<1>2. QED
  BY <1>1, Invariance, PTL

\* SucceededIsServed holds: runACMEJob leaves a job succeeded only after the
\* revision with its certificate, whatever is deleted or renewed meanwhile.
THEOREM SuccessIsServed == Spec => []SucceededIsServed
<1>1. IInv => SucceededIsServed
  BY DEF IInv
<1>2. QED
  BY <1>1, Invariance, PTL

\* UploadsAreKept holds: whatever row a renewer still has in hand, the one it
\* finds under that id came from the CA (UpdateCertificateMaterial).
THEOREM UploadsUntouched == Spec => UploadsAreKept
<1> DEFINE A == \A n \in Existing : certs[n].source = "upload" => certs'[n] \in {certs[n], NoCert}
<1>1. IInv /\ [Next]_vars => A
  <2> SUFFICES ASSUME IInv, [Next]_vars
               PROVE  A
    OBVIOUS
  <2>1. ASSUME certs' = certs
        PROVE  A
    BY <2>1
  <2>2. ASSUME NEW n \in Name, NEW row, certs' = [certs EXCEPT ![n] = row],
               n \notin Existing \/ row = NoCert \/ certs[n].source = "acme"
        PROVE  A
    BY <2>2 DEF IInv, Types, Existing
  <2>3. ASSUME NEW n \in Name,
               RequestCertificate(n) \/ UploadCertificate(n) \/ DeleteCertificate(n)
        PROVE  A
    BY <2>1, <2>2, <2>3 DEF RequestCertificate, UploadCertificate, DeleteCertificate
  <2>4. ASSUME NEW a \in Actor, Issue(a)
        PROVE  certs' = certs
    BY <2>4 DEF Issue, LoadFails, AuthorizeOrder, AlreadyValid, Present, PresentFails,
       WaitAuthorization, AuthorizationFails, Finalize, CleanUp, SaveFails, ReadCerts, Commit,
       PublishFails, tables
  <2>5. ASSUME NEW w \in Worker, CreateCertificate(w)
        PROVE  A
    <3>1. jobs[act[w].job].name \in Name
      <4>1. act[w].pc = "save" /\ JobFits(act[w], jobs)
        BY <2>5, ActorIs DEF CreateCertificate, Fits, Actor
      <4>2. jobs[act[w].job] \in JobRow
        BY <4>1 DEF JobFits, IInv, Types
      <4>3. QED
        BY <4>2 DEF JobRow
    <3>2. PICK n \in Name : n = jobs[act[w].job].name
      BY <3>1
    <3>3. n \notin Existing
      BY <2>5, <3>2 DEF CreateCertificate
    <3>4. certs' = [certs EXCEPT ![n] = [id |-> rows + 1, source |-> "acme",
                                         material |-> act[w].order]]
      BY <2>5, <3>2 DEF CreateCertificate
    <3>5. QED
      BY <2>2, <3>3, <3>4
  <2>6. ASSUME NEW w \in Worker, RunJobs(w)
        PROVE  A
    <3>1. CASE Claim(w) \/ MarkSucceeded(w) \/ MarkSucceededFails(w) \/ MarkFailed(w)
                 \/ MarkFailedFails(w)
      BY <2>1, <3>1 DEF Claim, MarkSucceeded, MarkSucceededFails, MarkFailed,
         MarkFailedFails, tables
    <3>2. QED
      BY <2>1, <2>4, <2>5, <2>6, <3>1 DEF RunJobs, Actor
  <2>7. ASSUME NEW r \in Renewer, UpdateMaterial(r)
        PROVE  A
    <3>1. PICK n \in Name :
             IsRow(n, act[r].row) /\ certs' = [certs EXCEPT ![n].material = act[r].order]
      BY <2>7 DEF UpdateMaterial
    <3>2. act[r].pc = "save" /\ Fits(r, act[r], jobs, certs, rows)
      BY <2>7, ActorIs DEF UpdateMaterial, Actor
    <3>3. act[r].row \in Listed
      BY <3>2 DEF Fits, HasRow
    <3>4. act[r].row # NoCert
      BY <3>3, NullAssumption
    <3>5. certs[n].source = "acme"
      BY <3>1, <3>2, <3>4 DEF Fits, RowsFit, IsRow, Existing
    <3>6. certs' = [certs EXCEPT ![n] = [certs[n] EXCEPT !.material = act[r].order]]
      BY <3>1
    <3>7. QED
      BY <2>2, <3>5, <3>6
  <2>8. ASSUME NEW r \in Renewer, Renew(r)
        PROVE  A
    <3>1. CASE ListDue(r) \/ NextRow(r)
      BY <2>1, <3>1 DEF ListDue, NextRow, tables
    <3>2. QED
      BY <2>1, <2>4, <2>7, <2>8, <3>1 DEF Renew, Actor
  <2>9. ASSUME (\E m \in Order : ComesDue(m)) \/ (\E P \in Process : Crash(P)) \/ UNCHANGED vars
        PROVE  A
    BY <2>1, <2>9 DEF ComesDue, Crash, vars, tables
  <2>10. QED
    BY <2>3, <2>6, <2>8, <2>9 DEF Next
<1>2. QED
  BY <1>1, Invariance, PTL DEF Spec, UploadsAreKept

-----------------------------------------------------------------------------
(* The refinement of WorkQueue.                                            *)

statusOf == [j \in Job |-> StatusOf(j)]
holderOf == [w \in Worker |-> act[w].job]

\* The variables of the abstract queue, before and after a step.
LEMMA QueueVars ==
  /\ Queue!vars = <<statusOf, holderOf>>
  /\ Queue!vars' = <<statusOf', holderOf'>>
  BY DEF Queue!vars, statusOf, holderOf

\* Who holds what in the abstract queue, after a step of one actor.
LEMMA HolderMoves ==
  ASSUME IInv, NEW a \in Actor, NEW f, To(a, f)
  PROVE  /\ a \in Worker => holderOf' = [holderOf EXCEPT ![a] = f.job]
         /\ a \notin Worker \/ f.job = act[a].job => UNCHANGED holderOf
<1>1. act'[a] = f /\ \A b \in Actor : b # a => act'[b] = act[b]
  BY DEF To, IInv, Types
<1>2. \A w \in Worker : w \in Actor
  BY DEF Actor
<1>3. QED
  BY <1>1, <1>2 DEF holderOf

\* The abstract status of a job whose row is written.
LEMMA StatusMoves ==
  ASSUME IInv, NEW j \in Job, NEW row \in JobRow, jobs' = [jobs EXCEPT ![j] = row]
  PROVE  statusOf' = [statusOf EXCEPT ![j] = row.status]
<1>1. jobs'[j] = row /\ \A k \in Job : k # j => jobs'[k] = jobs[k]
  BY DEF IInv, Types
<1>2. StatusOf(j)' = row.status /\ \A k \in Job : k # j => StatusOf(k)' = StatusOf(k)
  BY <1>1, NullAssumption DEF StatusOf
<1>3. statusOf' = [k \in Job |-> StatusOf(k)']
  BY DEF statusOf
<1>4. QED
  BY <1>2, <1>3 DEF statusOf

\* No row, no status.
LEMMA StatusStays ==
  ASSUME UNCHANGED jobs
  PROVE  UNCHANGED statusOf
  BY DEF statusOf, StatusOf

\* An actor moves, and the job table does not change: its job is let go of or kept.
LEMMA MoveRefines ==
  ASSUME IInv, NEW a \in Actor, NEW f, To(a, f), UNCHANGED jobs,
         a \in Worker => f.job \in {0, act[a].job}
  PROVE  Queue!Next \/ UNCHANGED Queue!vars
<1>1. UNCHANGED statusOf
  BY StatusStays
<1>2. CASE a \notin Worker \/ f.job = act[a].job
  BY <1>1, <1>2, HolderMoves, QueueVars
<1>3. CASE a \in Worker /\ f.job = 0
  <2>1. holderOf' = [holderOf EXCEPT ![a] = 0]
    BY <1>3, HolderMoves
  <2>2. holderOf' = [v \in Worker |-> IF v \in {a} THEN 0 ELSE holderOf[v]]
    BY <2>1 DEF holderOf
  <2>3. Queue!Release({a})
    BY <1>1, <2>2 DEF Queue!Release, statusOf, holderOf
  <2>4. QED
    BY <1>3, <2>3 DEF Queue!Next
<1>4. QED
  BY <1>2, <1>3

\* Nobody moves, and no job changes its status.
LEMMA StillRefines ==
  ASSUME UNCHANGED <<jobs, act>>
  PROVE  UNCHANGED Queue!vars
<1>1. UNCHANGED <<statusOf, holderOf>>
  BY StatusStays DEF holderOf
<1>2. QED
  BY <1>1, QueueVars

\* The steps of an order are not seen by the queue.
LEMMA IssueRefines ==
  ASSUME IInv, NEW a \in Actor, Issue(a)
  PROVE  Queue!Next \/ UNCHANGED Queue!vars
<1>1. act[a] \in ActorState /\ Fits(a, act[a], jobs, certs, rows)
  BY ActorIs
<1>2. UNCHANGED jobs
  BY DEF Issue, LoadFails, AuthorizeOrder, AlreadyValid, Present, PresentFails,
     WaitAuthorization, AuthorizationFails, Finalize, CleanUp, SaveFails, ReadCerts, Commit,
     PublishFails, tables
<1>3. ASSUME To(a, Fails(a)), act[a].pc # "idle"
      PROVE  Queue!Next \/ UNCHANGED Queue!vars
  BY <1>2, <1>3, FailsFits, MoveRefines
<1>4. ASSUME To(a, Idle)
      PROVE  Queue!Next \/ UNCHANGED Queue!vars
  BY <1>2, <1>4, IdleFits, MoveRefines
<1>5. ASSUME NEW f, To(a, f), f.job = act[a].job
      PROVE  Queue!Next \/ UNCHANGED Queue!vars
  BY <1>2, <1>5, MoveRefines
<1>6. CASE LoadFails(a) \/ SaveFails(a)
  BY <1>3, <1>6 DEF LoadFails, SaveFails
<1>7. CASE AuthorizeOrder(a)
  BY <1>1, <1>5, <1>7 DEF AuthorizeOrder, ActorState
<1>8. CASE AlreadyValid(a) \/ Present(a)
  BY <1>1, <1>5, <1>8 DEF AlreadyValid, Present, ActorState
<1>9. CASE PresentFails(a) \/ WaitAuthorization(a) \/ AuthorizationFails(a) \/ Finalize(a)
  BY <1>1, <1>5, <1>9 DEF PresentFails, WaitAuthorization, AuthorizationFails, Finalize,
     ActorState
<1>10. CASE CleanUp(a)
  <2> DEFINE saves == [act[a] EXCEPT !.pc = "save", !.planted = {}, !.ok = FALSE]
  <2>1. saves.job = act[a].job
    BY <1>1 DEF ActorState
  <2>2. act[a].pc # "idle" /\ (To(a, saves) \/ To(a, Fails(a)))
    BY <1>10 DEF CleanUp
  <2> HIDE DEF saves
  <2>3. QED
    BY <1>3, <1>5, <2>1, <2>2
<1>11. CASE ReadCerts(a)
  BY <1>1, <1>5, <1>11 DEF ReadCerts, ActorState
<1>12. CASE Commit(a)
  BY <1>4, <1>12 DEF Commit
<1>13. CASE PublishFails(a)
  BY <1>3, <1>4, <1>13 DEF PublishFails
<1>14. QED
  BY <1>6, <1>7, <1>8, <1>9, <1>10, <1>11, <1>12, <1>13 DEF Issue

\* A worker claims, settles or releases the job it holds.
LEMMA WorkerRefines ==
  ASSUME IInv, NEW w \in Worker, RunJobs(w)
  PROVE  Queue!Next \/ UNCHANGED Queue!vars
<1>1. w \in Actor /\ JobFits(act[w], jobs)
  BY ActorIs DEF Fits, Actor
<1>2. CASE Claim(w)
  <2>1. PICK j \in Job :
           /\ IsNextJob(j)
           /\ jobs' = [jobs EXCEPT ![j].status = "running"]
           /\ To(w, [Idle EXCEPT !.pc = "load", !.job = j])
    BY <1>2 DEF Claim
  <2> DEFINE row == [jobs[j] EXCEPT !.status = "running"]
             f == [Idle EXCEPT !.pc = "load", !.job = j]
  <2>2. jobs[j] \in JobRow /\ StatusOf(j) = "pending"
    BY <2>1, StatusIs DEF IsNextJob, IInv
  <2>3. row \in JobRow /\ row.status = "running" /\ jobs' = [jobs EXCEPT ![j] = row]
    BY <2>1, <2>2 DEF JobRow, IInv, Types
  <2>4. f.job = j /\ To(w, f)
    BY <2>1 DEF Idle
  <2> HIDE DEF row, f
  <2>5. statusOf' = [statusOf EXCEPT ![j] = "running"]
    BY <2>3, StatusMoves
  <2>6. holderOf' = [holderOf EXCEPT ![w] = j]
    BY <1>1, <2>4, HolderMoves
  <2>7. holderOf[w] = 0 /\ statusOf[j] = "pending"
    BY <1>1, <1>2, <2>2 DEF Claim, JobFits, holderOf, statusOf
  <2>8. Queue!Claim(w, j)
    BY <2>5, <2>6, <2>7 DEF Queue!Claim, statusOf, holderOf
  <2>9. QED
    BY <2>8 DEF Queue!Next
<1>3. CASE CreateCertificate(w)
  <2> DEFINE f == [Idle EXCEPT !.pc = "mark", !.job = act[w].job, !.id = rows + 1]
  <2>1. To(w, f) /\ UNCHANGED jobs
    BY <1>3 DEF CreateCertificate
  <2>2. f.job = act[w].job
    BY DEF Idle
  <2> HIDE DEF f
  <2>3. QED
    BY <1>1, <2>1, <2>2, MoveRefines
<1>4. CASE MarkSucceeded(w)
  <2>1. act[w].pc = "mark" /\ act[w].job \in Job
    BY <1>1, <1>4 DEF MarkSucceeded, JobFits
  <2>2. PICK j \in Job : j = act[w].job
    BY <2>1
  <2> DEFINE row == [jobs[j] EXCEPT !.status = "succeeded", !.cert = act[w].id]
             f == [Idle EXCEPT !.pc = "read", !.job = j]
  <2>3. jobs' = [jobs EXCEPT ![j] = row] /\ To(w, f)
    BY <1>4, <2>2 DEF MarkSucceeded
  <2>4. jobs[j] \in JobRow /\ StatusOf(j) = "running"
    BY <1>1, <2>1, <2>2 DEF JobFits, StatusOf, IInv, Types
  <2>5. act[w].id \in RowId \cup {0}
    BY <1>1, ActorIs DEF ActorState
  <2>6. row \in JobRow /\ row.status = "succeeded" /\ f.job = j
    BY <2>4, <2>5 DEF JobRow, Idle
  <2> HIDE DEF row, f
  <2>7. statusOf' = [statusOf EXCEPT ![j] = "succeeded"]
    BY <2>3, <2>6, StatusMoves
  <2>8. UNCHANGED holderOf
    BY <1>1, <2>2, <2>3, <2>6, HolderMoves
  <2>9. holderOf[w] = j /\ j # 0 /\ statusOf[j] = "running"
    BY <2>2, <2>4, Bounds DEF holderOf, statusOf
  <2>10. Queue!Succeed(w)
    BY <2>7, <2>8, <2>9 DEF Queue!Succeed, statusOf, holderOf
  <2>11. QED
    BY <2>10 DEF Queue!Next
<1>5. CASE MarkSucceededFails(w)
  <2>1. act[w].pc # "idle" /\ To(w, Fails(w)) /\ UNCHANGED jobs
    BY <1>5 DEF MarkSucceededFails, tables
  <2>2. QED
    BY <1>1, <2>1, FailsFits, MoveRefines
<1>6. CASE MarkFailed(w)
  <2>1. act[w].pc = "fail" /\ act[w].job \in Job
    BY <1>1, <1>6 DEF MarkFailed, JobFits
  <2>2. PICK j \in Job : j = act[w].job
    BY <2>1
  <2> DEFINE row == [jobs[j] EXCEPT !.status = "failed"]
  <2>3. jobs' = [jobs EXCEPT ![j] = row] /\ To(w, Idle)
    BY <1>6, <2>2 DEF MarkFailed, IInv, Types
  <2>4. jobs[j] \in JobRow /\ StatusOf(j) \in {"running", "succeeded"}
    BY <1>1, <2>1, <2>2 DEF JobFits, StatusOf, IInv, Types
  <2>5. row \in JobRow /\ row.status = "failed"
    BY <2>4 DEF JobRow
  <2> HIDE DEF row
  <2>6. statusOf' = [statusOf EXCEPT ![j] = "failed"]
    BY <2>3, <2>5, StatusMoves
  <2>7. holderOf' = [holderOf EXCEPT ![w] = 0]
    BY <1>1, <2>3, IdleFits, HolderMoves
  <2>8. holderOf[w] = j /\ j # 0 /\ statusOf[j] \in {"running", "succeeded"}
    BY <2>2, <2>4, Bounds DEF holderOf, statusOf
  <2>9. statusOf'[j] = "failed"
    BY <2>6 DEF statusOf
  <2>10. Queue!Settle(w)
    BY <2>6, <2>7, <2>8, <2>9 DEF Queue!Settle, statusOf, holderOf
  <2>11. QED
    BY <2>10 DEF Queue!Next
<1>7. CASE MarkFailedFails(w)
  <2>1. To(w, Idle) /\ UNCHANGED jobs
    BY <1>7 DEF MarkFailedFails, tables
  <2>2. QED
    BY <1>1, <2>1, IdleFits, MoveRefines
<1>8. QED
  BY <1>1, <1>2, <1>3, <1>4, <1>5, <1>6, <1>7, IssueRefines DEF RunJobs

\* Every step is a step of WorkQueue or a stutter.
LEMMA NextRefines ==
  ASSUME IInv, [Next]_vars
  PROVE  Queue!Next \/ UNCHANGED Queue!vars
<1>1. ASSUME NEW n \in Name, RequestCertificate(n)
      PROVE  Queue!Next
  <2> DEFINE row == [status |-> "pending", name |-> n, cert |-> 0]
  <2>1. PICK j \in Job : jobs[j] = NoJob /\ jobs' = [jobs EXCEPT ![j] = row]
    BY <1>1 DEF RequestCertificate
  <2>2. row \in JobRow /\ row.status = "pending"
    BY DEF JobRow
  <2> HIDE DEF row
  <2>3. statusOf' = [statusOf EXCEPT ![j] = "pending"]
    BY <2>1, <2>2, StatusMoves
  <2>4. UNCHANGED holderOf
    BY <1>1 DEF RequestCertificate, holderOf
  <2>5. statusOf[j] = "absent"
    BY <2>1 DEF statusOf, StatusOf
  <2>6. Queue!Add(j)
    BY <2>3, <2>4, <2>5 DEF Queue!Add, statusOf, holderOf
  <2>7. QED
    BY <2>6 DEF Queue!Next
<1>2. ASSUME NEW n \in Name, UploadCertificate(n)
      PROVE  UNCHANGED Queue!vars
  BY <1>2, StillRefines DEF UploadCertificate
<1>3. ASSUME NEW n \in Name, DeleteCertificate(n)
      PROVE  UNCHANGED Queue!vars
  <2>1. \A row \in JobRow : /\ [row EXCEPT !.cert = 0] # NoJob
                            /\ [row EXCEPT !.cert = 0].status = row.status
    <3>1. \A row \in JobRow : [row EXCEPT !.cert = 0] \in JobRow
      BY DEF JobRow
    <3>2. QED
      BY <3>1, NullAssumption DEF JobRow
  <2>2. \A j \in Job : StatusOf(j)' = StatusOf(j)
    <3> SUFFICES ASSUME NEW j \in Job
                 PROVE  StatusOf(j)' = StatusOf(j)
      OBVIOUS
    <3>1. jobs'[j] = IF jobs[j] # NoJob /\ jobs[j].cert = certs[n].id
                     THEN [jobs[j] EXCEPT !.cert = 0] ELSE jobs[j]
      BY <1>3 DEF DeleteCertificate
    <3>2. jobs[j] \in JobRow \cup {NoJob}
      BY DEF IInv, Types
    <3>3. QED
      BY <2>1, <3>1, <3>2 DEF StatusOf
  <2>3. UNCHANGED <<statusOf, holderOf>>
    BY <1>3, <2>2 DEF DeleteCertificate, statusOf, holderOf
  <2>4. QED
    BY <2>3, QueueVars
<1>4. CASE (\E m \in Order : ComesDue(m)) \/ UNCHANGED vars
  BY <1>4, StillRefines DEF ComesDue, vars, tables
<1>5. ASSUME NEW r \in Renewer, Renew(r)
      PROVE  Queue!Next \/ UNCHANGED Queue!vars
  <2>1. r \in Actor /\ r \notin Worker
    BY Bounds DEF Actor
  <2>2. CASE Issue(r)
    BY <2>1, <2>2, IssueRefines
  <2>3. CASE ListDue(r) \/ NextRow(r) \/ UpdateMaterial(r)
    <3>1. UNCHANGED jobs /\ \E f : To(r, f)
      BY <2>3 DEF ListDue, NextRow, UpdateMaterial, tables
    <3>2. QED
      BY <2>1, <3>1, MoveRefines
  <2>4. QED
    BY <1>5, <2>2, <2>3 DEF Renew
<1>6. ASSUME NEW P \in Process, Crash(P)
      PROVE  Queue!Next
  <2>1. act' = [a \in Actor |-> IF a \in P THEN Idle ELSE act[a]] /\ UNCHANGED jobs
    BY <1>6 DEF Crash, tables
  <2>2. \A w \in Worker : act'[w].job = IF w \in P \cap Worker THEN 0 ELSE act[w].job
    BY <2>1, IdleFits DEF Actor
  <2>3. holderOf' = [w \in Worker |-> IF w \in P \cap Worker THEN 0 ELSE holderOf[w]]
    BY <2>2 DEF holderOf
  <2>4. UNCHANGED statusOf
    BY <2>1, StatusStays
  <2>5. Queue!Release(P \cap Worker)
    BY <2>3, <2>4 DEF Queue!Release, statusOf, holderOf
  <2>6. P \cap Worker \in SUBSET Worker
    OBVIOUS
  <2>7. QED
    BY <2>5, <2>6 DEF Queue!Next
<1>7. QED
  BY <1>1, <1>2, <1>3, <1>4, <1>5, <1>6, WorkerRefines DEF Next

\* The queue starts empty.
LEMMA InitRefines ==
  ASSUME Init
  PROVE  Queue!Init
<1>1. \A j \in Job : StatusOf(j) = "absent"
  BY DEF Init, StatusOf
<1>2. \A w \in Worker : act[w].job = 0
  BY IdleFits DEF Init, Actor
<1>3. QED
  BY <1>1, <1>2 DEF Queue!Init

\* The workers of any number of processes implement the abstract queue, and no
\* renewer touches it: a claim takes a pending job, and only its worker writes
\* the outcome.
THEOREM Refinement == Spec => ImplementsQueue
<1>1. Init => Queue!Init
  BY InitRefines
<1>2. IInv /\ [Next]_vars => [Queue!Next]_(Queue!vars)
  BY NextRefines
<1>3. QED
  BY <1>1, <1>2, Invariance, PTL DEF Spec, ImplementsQueue, Queue!Spec
=============================================================================
