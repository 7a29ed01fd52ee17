-------------------------- MODULE WebhookQueueProofs --------------------------
(***************************************************************************)
(* Proofs about WebhookQueue, for any number of workers, webhooks, jobs,   *)
(* attempts, lost secrets and crashes.  A worker's local state is related  *)
(* to the row it works on and to what was sent for it; since no two        *)
(* workers have one row, a step of one disturbs nothing another relies on. *)
(***************************************************************************)
EXTENDS WebhookQueue, TLAPS

-----------------------------------------------------------------------------
(* The invariant.                                                          *)

\* The pending jobs stand in one line, the due ones first.
Line ==
    /\ due \subseteq Pending
    /\ before \subseteq Pending \X Pending
    /\ \A j, k \in Pending : j # k => (<<j, k>> \in before <=> <<k, j>> \notin before)
    /\ \A j \in due, k \in Waiting : <<j, k>> \in before

Types ==
    /\ hooks \in [Hook -> {"readable", "unreadable", "deleted"}]
    /\ jobs \in [Job -> JobRow \cup {NoJob}]
    /\ worker \in [Worker -> WorkerState]
    /\ losses \in 0..MaxLosses
    /\ crashes \in 0..MaxCrashes
    /\ posts \in [Job -> 0..MaxAttempts]
    /\ received \in [Job -> 0..MaxAttempts]
    /\ abandoned \subseteq Job

\* What a worker about to write a result knows of the requests sent.
ResultFits(f, P, R) ==
    /\ f.result \in {"pending", "succeeded", "failed"}
    /\ f.result = "pending" => f.attempts = P[f.job] /\ P[f.job] < MaxAttempts
    /\ f.result = "succeeded" => R[f.job] >= 1
    /\ f.result = "failed" => P[f.job] = MaxAttempts \/ P[f.job] < f.attempts

\* The state f of a worker fits the rows J, the requests P sent and R taken.
Fits(f, J, P, R) ==
    /\ f.pc = "idle" => f.job = 0
    /\ f.pc # "idle" =>
        /\ f.job \in Job
        /\ J[f.job] # NoJob
        /\ f.pc = "locked" => J[f.job].status = "pending"
        /\ f.pc \in {"deliver", "finish"} => J[f.job].status \in {"running", "deleted"}
        /\ f.pc = "deliver" => f.attempts = P[f.job] /\ P[f.job] < MaxAttempts
        /\ f.pc = "finish" => ResultFits(f, P, R)

WorkersFit == \A w \in Worker : Fits(worker[w], jobs, posts, received)

\* What a row says of the requests sent for it.
RowIsTrue(row, p, r) ==
    /\ r <= p
    /\ row = NoJob => p = 0
    /\ row # NoJob =>
        /\ row.status = "pending" => p = row.attempts /\ p < MaxAttempts
        /\ row.status = "succeeded" => r >= 1
        /\ row.status = "failed" => p = MaxAttempts \/ p < row.attempts

RowsAreTrue == \A j \in Job : RowIsTrue(jobs[j], posts[j], received[j])

IInv == Types /\ Line /\ OneWorkerPerJob /\ WorkersFit /\ RowsAreTrue

\* TypeOK in the parts the proofs use one at a time.
LEMMA TypeParts == TypeOK <=> Types /\ Line
  BY DEF TypeOK, Types, Line

-----------------------------------------------------------------------------
(* The line of the pending jobs.                                           *)

\* A pending job, and the row it is read from.
LEMMA PendingIs ==
  ASSUME Types
  PROVE  \A j \in Job : j \in Pending <=> jobs[j] # NoJob /\ jobs[j].status = "pending"
  BY DEF Pending, StatusOf

\* The same after a step.
LEMMA PendingWillBe ==
  \A j \in Job : j \in Pending' <=> jobs'[j] # NoJob /\ jobs'[j].status = "pending"
  BY DEF Pending, StatusOf

\* The status of a job, and the row it is read from.
LEMMA StatusIs ==
  ASSUME Types, NEW j \in Job
  PROVE  /\ StatusOf(j) = "absent" <=> jobs[j] = NoJob
         /\ jobs[j] # NoJob => jobs[j] \in JobRow /\ StatusOf(j) = jobs[j].status
<1>1. jobs[j] # NoJob => jobs[j] \in JobRow
  BY DEF Types
<1>2. \A row \in JobRow : row.status # "absent"
  BY DEF JobRow
<1>3. QED
  BY <1>1, <1>2 DEF StatusOf

\* A job that becomes pending, behind the due ones.
LEMMA LineInserted ==
  ASSUME Line, NEW j \in Job, j \notin Pending, NEW A, NEW B,
         A \cup B = Pending, A \cap B = {}, due \subseteq A,
         Pending' = Pending \cup {j}, before' = Between(A, j, B),
         due' = due \/ (due' = due \cup {j} /\ A = due)
  PROVE  Line'
<1>1. due' \subseteq Pending'
  BY DEF Line
<1>2. before' \subseteq Pending' \X Pending'
  BY DEF Line, Between
<1>3. \A k, l \in Pending : <<k, l>> \in before' <=> <<k, l>> \in before
  BY DEF Between
<1>4. \A k \in Pending : (<<k, j>> \in before' <=> k \in A) /\ (<<j, k>> \in before' <=> k \in B)
  BY DEF Between, Line
<1>5. \A k, l \in Pending' : k # l => (<<k, l>> \in before' <=> <<l, k>> \notin before')
  BY <1>3, <1>4 DEF Line
<1>6. \A k \in due', l \in Waiting' : <<k, l>> \in before'
  <2>1. Waiting' = Pending' \ due'
    BY DEF Waiting
  <2>2. CASE due' = due
    BY <1>3, <1>4, <2>1, <2>2 DEF Line, Waiting
  <2>3. CASE due' = due \cup {j} /\ A = due
    BY <1>3, <1>4, <2>1, <2>3 DEF Line, Waiting
  <2>4. QED
    BY <2>2, <2>3
<1>7. QED
  BY <1>1, <1>2, <1>5, <1>6 DEF Line

\* Jobs that are pending no more.
LEMMA LineWithout ==
  ASSUME Line, NEW J, Pending' = Pending \ J, before' = Without(J), due' = due \ J
  PROVE  Line'
<1>1. due' \subseteq Pending'
  BY DEF Line
<1>2. before' \subseteq Pending' \X Pending'
  BY DEF Line, Without
<1>3. \A k, l \in Pending' : <<k, l>> \in before' <=> <<k, l>> \in before
  BY DEF Without
<1>4. Waiting' = Waiting \ J
  BY DEF Waiting
<1>5. QED
  BY <1>1, <1>2, <1>3, <1>4 DEF Line, Waiting

\* A step that changes no pending job leaves their line.
LEMMA LineUnchanged ==
  ASSUME Line, Pending' = Pending, UNCHANGED <<before, due>>
  PROVE  Line'
  BY DEF Line, Waiting

-----------------------------------------------------------------------------
(* A step of one worker.                                                   *)

\* A worker that does nothing.
LEMMA IdleFits ==
  Idle \in WorkerState /\ Idle.pc = "idle" /\ Idle.job = 0
  BY WebhookAssumption DEF Idle, WorkerState, Job

\* Worker w goes to f, and no row but its own, and no count of another row,
\* changes.
LEMMA OneMoves ==
  ASSUME Types, OneWorkerPerJob, WorkersFit,
         NEW w \in Worker, NEW f \in WorkerState, Step(w, f),
         Fits(f, jobs', posts', received'),
         f.pc # "idle" => \A v \in Worker \ {w} : worker[v].job # f.job,
         \A k \in Job : k # worker[w].job =>
            jobs'[k] = jobs[k] /\ posts'[k] = posts[k] /\ received'[k] = received[k]
  PROVE  /\ worker' \in [Worker -> WorkerState]
         /\ OneWorkerPerJob'
         /\ WorkersFit'
<1>1. worker' = [worker EXCEPT ![w] = f] /\ worker' \in [Worker -> WorkerState]
  BY DEF Step, Types
<1>2. worker'[w] = f /\ \A v \in Worker \ {w} : worker'[v] = worker[v]
  BY <1>1 DEF Types
<1>3. \A v \in Worker : worker[v].pc # "idle" => worker[v].job \in Job
  BY DEF WorkersFit, Fits
<1>4. 0 \notin Job
  BY DEF Job
<1>5. OneWorkerPerJob'
  <2> SUFFICES ASSUME NEW u \in Worker, NEW v \in Worker, u # v, worker'[u].pc # "idle"
               PROVE  worker'[u].job # worker'[v].job
    BY DEF OneWorkerPerJob
  <2>1. CASE u # w /\ v # w
    BY <1>2, <2>1 DEF OneWorkerPerJob
  <2>2. CASE u = w
    BY <1>2, <2>2
  <2>3. CASE v = w
    <3>1. worker[u].job \in Job /\ worker'[u] = worker[u]
      BY <1>2, <1>3, <2>3
    <3>2. f.pc = "idle" => f.job = 0
      BY DEF Fits
    <3>3. QED
      BY <1>2, <1>4, <2>3, <3>1, <3>2
  <2>4. QED
    BY <2>1, <2>2, <2>3
<1>6. ASSUME NEW v \in Worker
      PROVE  Fits(worker'[v], jobs', posts', received')
  <2>1. CASE v = w
    BY <1>2, <2>1
  <2>2. CASE v # w
    <3>1. worker'[v] = worker[v] /\ Fits(worker[v], jobs, posts, received)
      BY <1>2, <2>2 DEF WorkersFit
    <3>2. CASE worker[v].pc = "idle"
      BY <3>1, <3>2 DEF Fits
    <3>3. CASE worker[v].pc # "idle"
      <4>1. worker[v].job \in Job /\ worker[v].job # worker[w].job
        BY <1>3, <2>2, <3>3 DEF OneWorkerPerJob
      <4>2. /\ jobs'[worker[v].job] = jobs[worker[v].job]
            /\ posts'[worker[v].job] = posts[worker[v].job]
            /\ received'[worker[v].job] = received[worker[v].job]
        BY <4>1
      <4>3. QED
        BY <3>1, <4>2 DEF Fits, ResultFits
    <3>4. QED
      BY <3>2, <3>3
  <2>3. QED
    BY <2>1, <2>2
<1>7. WorkersFit'
  BY <1>6 DEF WorkersFit
<1>8. QED
  BY <1>1, <1>5, <1>7

\* Worker w goes to f, and the tables stay as they are.
LEMMA OnlyMoves ==
  ASSUME IInv, NEW w \in Worker, NEW f \in WorkerState, Step(w, f),
         Fits(f, jobs, posts, received),
         f.pc # "idle" => \A v \in Worker \ {w} : worker[v].job # f.job,
         UNCHANGED <<hooks, table, posts, received>>,
         losses' \in 0..MaxLosses, crashes' \in 0..MaxCrashes, abandoned' \subseteq Job
  PROVE  IInv'
<1>1. UNCHANGED <<hooks, jobs, before, due, posts, received>>
  BY DEF table
<1>2. /\ worker' \in [Worker -> WorkerState]
      /\ OneWorkerPerJob'
      /\ WorkersFit'
  <2>1. Fits(f, jobs', posts', received')
    BY <1>1
  <2>2. \A k \in Job : k # worker[w].job =>
            jobs'[k] = jobs[k] /\ posts'[k] = posts[k] /\ received'[k] = received[k]
    BY <1>1
  <2>3. QED
    BY <2>1, <2>2, OneMoves DEF IInv
<1>3. Types'
  BY <1>1, <1>2 DEF IInv, Types
<1>4. Line'
  <2>1. Pending' = Pending
    BY <1>1 DEF Pending, StatusOf
  <2>2. QED
    BY <1>1, <2>1, LineUnchanged DEF IInv
<1>5. RowsAreTrue'
  BY <1>1 DEF IInv, RowsAreTrue
<1>6. QED
  BY <1>2, <1>3, <1>4, <1>5 DEF IInv

\* What the invariant says of one worker: it alone has its job.
LEMMA WorkerIs ==
  ASSUME IInv, NEW w \in Worker
  PROVE  /\ worker[w] \in WorkerState
         /\ Fits(worker[w], jobs, posts, received)
         /\ worker[w].pc # "idle" =>
               /\ worker[w].job \in Job
               /\ jobs[worker[w].job] \in JobRow
               /\ \A v \in Worker \ {w} : worker[v].job # worker[w].job
<1>1. worker[w] \in WorkerState /\ Fits(worker[w], jobs, posts, received)
  BY DEF IInv, Types, WorkersFit
<1>2. ASSUME worker[w].pc # "idle"
      PROVE  worker[w].job \in Job /\ jobs[worker[w].job] \in JobRow
  BY <1>1, <1>2 DEF Fits, IInv, Types
<1>3. ASSUME worker[w].pc # "idle"
      PROVE  \A v \in Worker \ {w} : worker[v].job # worker[w].job
  BY <1>3 DEF IInv, OneWorkerPerJob
<1>4. QED
  BY <1>1, <1>2, <1>3

\* Worker w has job j of a table row; what a step of w does to that row and its
\* counts is what the next row, p and r say.
LEMMA OwnRow ==
  ASSUME IInv, NEW w \in Worker, NEW f \in WorkerState, Step(w, f),
         worker[w].pc # "idle", f.pc = "idle" \/ f.job = worker[w].job,
         NEW row \in JobRow, NEW p \in 0..MaxAttempts, NEW r \in 0..MaxAttempts,
         jobs' = [jobs EXCEPT ![worker[w].job] = row],
         posts' = [posts EXCEPT ![worker[w].job] = p],
         received' = [received EXCEPT ![worker[w].job] = r],
         Fits(f, jobs', posts', received'), RowIsTrue(row, p, r),
         UNCHANGED <<hooks, losses, crashes, abandoned>>
  PROVE  Types' /\ OneWorkerPerJob' /\ WorkersFit' /\ RowsAreTrue'
<1> DEFINE j == worker[w].job
<1>1. j \in Job /\ \A v \in Worker \ {w} : worker[v].job # j
  BY WorkerIs
<1>2. /\ jobs'[j] = row /\ posts'[j] = p /\ received'[j] = r
      /\ \A k \in Job : k # j => /\ jobs'[k] = jobs[k]
                                 /\ posts'[k] = posts[k]
                                 /\ received'[k] = received[k]
  BY <1>1 DEF IInv, Types
<1>3. /\ worker' \in [Worker -> WorkerState]
      /\ OneWorkerPerJob'
      /\ WorkersFit'
  <2>1. Types /\ OneWorkerPerJob /\ WorkersFit
    BY DEF IInv
  <2>2. f.pc # "idle" => \A v \in Worker \ {w} : worker[v].job # f.job
    BY <1>1
  <2>3. \A k \in Job : k # worker[w].job =>
            jobs'[k] = jobs[k] /\ posts'[k] = posts[k] /\ received'[k] = received[k]
    BY <1>2
  <2>4. QED
    BY <2>1, <2>2, <2>3, OneMoves
<1>4. Types'
  BY <1>1, <1>3 DEF IInv, Types
<1>5. RowsAreTrue'
  BY <1>2 DEF IInv, RowsAreTrue
<1>6. QED
  BY <1>3, <1>4, <1>5

-----------------------------------------------------------------------------
(* The initial states, administrators and time.                            *)

\* The invariant: the start.
LEMMA InitInv ==
  ASSUME Init
  PROVE  IInv
<1>1. \A j \in Job : jobs[j] = NoJob
  BY DEF Init
<1>2. Pending = {}
  BY <1>1 DEF Pending, StatusOf
<1>3. Types
  <2>1. 0 \in 0..MaxAttempts /\ 0 \in 0..MaxLosses /\ 0 \in 0..MaxCrashes
    BY WebhookAssumption
  <2>2. worker \in [Worker -> WorkerState]
    BY IdleFits DEF Init
  <2>3. QED
    BY <2>1, <2>2 DEF Init, Types
<1>4. Line
  BY <1>2 DEF Init, Line
<1>5. WorkersFit
  BY IdleFits DEF Init, WorkersFit, Fits
<1>6. OneWorkerPerJob
  BY IdleFits DEF Init, OneWorkerPerJob
<1>7. RowsAreTrue
  BY <1>1 DEF Init, RowsAreTrue, RowIsTrue
<1>8. QED
  BY <1>3, <1>4, <1>5, <1>6, <1>7 DEF IInv

\* A new job goes behind what is due and before what waits.
LEMMA EnqueueInv ==
  ASSUME IInv, NEW h \in Hook, Enqueue(h)
  PROVE  IInv'
<1>1. PICK j \in Job :
         /\ jobs[j] = NoJob
         /\ jobs' = [jobs EXCEPT ![j] = [status |-> "pending", hook |-> h, attempts |-> 0]]
         /\ before' = Between(due, j, Waiting)
         /\ due' = due \cup {j}
  BY DEF Enqueue
<1>2. UNCHANGED <<hooks, worker, losses, crashes, posts, received, abandoned>>
  BY DEF Enqueue, bounds, history
<1> DEFINE new == [status |-> "pending", hook |-> h, attempts |-> 0]
<1>3. new \in JobRow /\ new # NoJob
  BY WebhookAssumption, NoJobAssumption DEF JobRow
<1>4. jobs'[j] = new /\ \A k \in Job : k # j => jobs'[k] = jobs[k]
  BY <1>1 DEF IInv, Types
<1>5. Types'
  BY <1>1, <1>2, <1>3 DEF IInv, Types
<1>6. Line'
  <2>1. j \notin Pending /\ Pending' = Pending \cup {j}
    BY <1>1, <1>3, <1>4 DEF Pending, StatusOf
  <2>2. due \cup Waiting = Pending /\ due \cap Waiting = {}
    BY DEF Waiting, IInv, Line
  <2>3. QED
    BY <1>1, <2>1, <2>2, LineInserted DEF IInv
<1>7. OneWorkerPerJob'
  BY <1>2 DEF IInv, OneWorkerPerJob
<1>8. WorkersFit'
  BY <1>1, <1>2, <1>4 DEF IInv, WorkersFit, Fits, ResultFits
<1>9. RowsAreTrue'
  <2>1. posts[j] = 0 /\ received[j] <= posts[j]
    BY <1>1 DEF IInv, RowsAreTrue, RowIsTrue
  <2>2. RowIsTrue(new, posts[j], received[j])
    BY <1>3, <2>1, WebhookAssumption DEF RowIsTrue
  <2>3. QED
    BY <1>2, <1>4, <2>2 DEF IInv, RowsAreTrue
<1>10. QED
  BY <1>5, <1>6, <1>7, <1>8, <1>9 DEF IInv

\* A secret is lost or replaced.
LEMMA HookInv ==
  ASSUME IInv, UNCHANGED <<table, worker, crashes, history>>,
         hooks' \in [Hook -> {"readable", "unreadable", "deleted"}], losses' \in 0..MaxLosses
  PROVE  IInv'
<1>1. UNCHANGED <<jobs, before, due, worker, crashes, posts, received, abandoned>>
  BY DEF table, history
<1>2. Types'
  BY <1>1 DEF IInv, Types
<1>3. Line'
  <2>1. Pending' = Pending
    BY <1>1 DEF Pending, StatusOf
  <2>2. QED
    BY <1>1, <2>1, LineUnchanged DEF IInv
<1>4. OneWorkerPerJob' /\ WorkersFit' /\ RowsAreTrue'
  BY <1>1 DEF IInv, OneWorkerPerJob, WorkersFit, RowsAreTrue
<1>5. QED
  BY <1>2, <1>3, <1>4 DEF IInv

\* A deleted webhook takes its jobs out of the line.
LEMMA DeleteWebhookInv ==
  ASSUME IInv, NEW h \in Hook, DeleteWebhook(h)
  PROVE  IInv'
<1>1. UNCHANGED <<worker, losses, crashes, posts, received, abandoned>>
  BY DEF DeleteWebhook, bounds, history
<1>2. \A j \in Job : /\ j \notin JobsOf(h) => jobs'[j] = jobs[j]
                     /\ j \in JobsOf(h) => /\ jobs[j] # NoJob
                                           /\ jobs[j] \in JobRow
                                           /\ jobs'[j] = [jobs[j] EXCEPT !.status = "deleted"]
                                           /\ jobs'[j] \in JobRow
                                           /\ jobs'[j].status = "deleted"
                                           /\ jobs'[j] # NoJob
  <2>1. \A row \in JobRow : /\ [row EXCEPT !.status = "deleted"] \in JobRow
                            /\ [row EXCEPT !.status = "deleted"].status = "deleted"
    BY DEF JobRow
  <2>2. jobs' = [j \in Job |-> IF j \in JobsOf(h) THEN [jobs[j] EXCEPT !.status = "deleted"]
                               ELSE jobs[j]]
    BY DEF DeleteWebhook
  <2>3. \A j \in JobsOf(h) : jobs[j] # NoJob /\ jobs[j] \in JobRow
    BY DEF JobsOf, IInv, Types
  <2>4. QED
    BY <2>1, <2>2, <2>3, NoJobAssumption
<1>3. Types'
  <2>1. jobs' \in [Job -> JobRow \cup {NoJob}]
    <3>1. jobs' = [j \in Job |-> jobs'[j]]
      BY DEF DeleteWebhook
    <3>2. \A j \in Job : jobs'[j] \in JobRow \cup {NoJob}
      BY <1>2 DEF IInv, Types
    <3>3. QED
      BY <3>1, <3>2
  <2>2. hooks' \in [Hook -> {"readable", "unreadable", "deleted"}]
    BY DEF DeleteWebhook, IInv, Types
  <2>3. QED
    BY <1>1, <2>1, <2>2 DEF IInv, Types
<1>4. Line'
  <2>1. Pending' = Pending \ JobsOf(h)
    BY <1>2 DEF Pending, StatusOf
  <2>2. before' = Without(JobsOf(h)) /\ due' = due \ JobsOf(h)
    BY DEF DeleteWebhook
  <2>3. QED
    BY <2>1, <2>2, LineWithout DEF IInv
<1>5. OneWorkerPerJob'
  BY <1>1 DEF IInv, OneWorkerPerJob
<1>6. WorkersFit'
  <2> SUFFICES ASSUME NEW w \in Worker
               PROVE  Fits(worker[w], jobs', posts, received)
    BY <1>1 DEF WorkersFit
  <2>1. Fits(worker[w], jobs, posts, received)
    BY DEF IInv, WorkersFit
  <2>2. worker[w].pc = "locked" => worker[w].job \notin JobsOf(h)
    BY DEF DeleteWebhook
  <2>3. QED
    BY <1>2, <2>1, <2>2 DEF Fits
<1>7. RowsAreTrue'
  BY <1>1, <1>2 DEF IInv, RowsAreTrue, RowIsTrue
<1>8. QED
  BY <1>3, <1>4, <1>5, <1>6, <1>7 DEF IInv

\* The next of the waiting jobs becomes due.
LEMMA TimePassesInv ==
  ASSUME IInv, TimePasses
  PROVE  IInv'
<1>1. UNCHANGED <<hooks, jobs, before, worker, losses, crashes, posts, received, abandoned>>
  BY DEF TimePasses, bounds, history
<1>2. Types' /\ OneWorkerPerJob' /\ WorkersFit' /\ RowsAreTrue'
  BY <1>1 DEF IInv, Types, OneWorkerPerJob, WorkersFit, RowsAreTrue
<1>3. Line'
  <2>1. PICK j \in Waiting : /\ \A k \in Waiting \ {j} : <<j, k>> \in before
                             /\ due' = due \cup {j}
    BY DEF TimePasses
  <2>2. Pending' = Pending
    BY <1>1 DEF Pending, StatusOf
  <2>3. Waiting' = Waiting \ {j}
    BY <2>1, <2>2 DEF Waiting
  <2>4. QED
    BY <1>1, <2>1, <2>2, <2>3 DEF IInv, Line, Waiting
<1>4. QED
  BY <1>2, <1>3 DEF IInv

-----------------------------------------------------------------------------
(* The claim.                                                              *)

\* A worker that lets go of its job without writing it.
LEMMA ToIdle ==
  ASSUME IInv, NEW w \in Worker, Step(w, Idle), UNCHANGED <<hooks, table, posts, received>>,
         losses' \in 0..MaxLosses, crashes' \in 0..MaxCrashes, abandoned' \subseteq Job
  PROVE  IInv'
  BY IdleFits, OnlyMoves DEF Fits

\* What does not change stays within its bound.
LEMMA SameBounds ==
  ASSUME IInv
  PROVE  /\ UNCHANGED bounds => losses' \in 0..MaxLosses /\ crashes' \in 0..MaxCrashes
         /\ UNCHANGED abandoned => abandoned' \subseteq Job
  BY DEF IInv, Types, bounds

\* A row is locked for one worker at a time.
LEMMA LockInv ==
  ASSUME IInv, NEW w \in Worker, Lock(w)
  PROVE  IInv'
<1>1. PICK j \in due : IsClaimable(j) /\ Step(w, [Idle EXCEPT !.pc = "locked", !.job = j])
  BY DEF Lock
<1> DEFINE f == [Idle EXCEPT !.pc = "locked", !.job = j]
<1>2. j \in Job /\ jobs[j] # NoJob /\ jobs[j].status = "pending"
  <2>1. j \in Pending /\ j \in Job
    BY DEF IInv, Line, Pending
  <2>2. QED
    BY <2>1, PendingIs DEF IInv
<1>3. f \in WorkerState /\ f.pc = "locked" /\ f.job = j
  BY <1>2, IdleFits DEF Idle, WorkerState
<1>4. Fits(f, jobs, posts, received)
  BY <1>2, <1>3 DEF Fits
<1>5. \A v \in Worker \ {w} : worker[v].job # f.job
  <2> SUFFICES ASSUME NEW v \in Worker, worker[v].job = j
               PROVE  FALSE
    BY <1>3
  <2>1. worker[v] \in WorkerState /\ Fits(worker[v], jobs, posts, received)
    BY WorkerIs
  <2>2. worker[v].pc # "locked"
    BY <1>1 DEF IsClaimable, Locked
  <2>3. worker[v].pc # "idle"
    BY <1>2, <2>1 DEF Fits, Job
  <2>4. worker[v].pc \in {"deliver", "finish"}
    BY <2>1, <2>2, <2>3 DEF WorkerState
  <2>5. QED
    BY <1>2, <2>1, <2>4 DEF Fits
<1>6. UNCHANGED <<hooks, table, bounds, posts, received, abandoned>>
  BY DEF Lock, history
<1>7. UNCHANGED bounds /\ UNCHANGED abandoned
  BY <1>6
<1> HIDE DEF f
<1>8. Step(w, f)
  BY <1>1 DEF f
<1>9. QED
  BY <1>3, <1>4, <1>5, <1>6, <1>7, <1>8, SameBounds, OnlyMoves

\* A claim that commits takes its job out of the line, with the attempts it had.
LEMMA CommitClaimInv ==
  ASSUME IInv, NEW w \in Worker, CommitClaim(w)
  PROVE  IInv'
<1> DEFINE j == worker[w].job
           row == [jobs[j] EXCEPT !.status = "running"]
           f == [worker[w] EXCEPT !.pc = "deliver", !.attempts = jobs[j].attempts]
<1>1. /\ worker[w].pc = "locked"
      /\ jobs' = [jobs EXCEPT ![j].status = "running"]
      /\ before' = Without({j}) /\ due' = due \ {j}
      /\ Step(w, f)
      /\ UNCHANGED <<hooks, losses, crashes, posts, received, abandoned>>
  BY DEF CommitClaim, bounds, history
<1>2. /\ j \in Job /\ jobs[j] \in JobRow /\ worker[w] \in WorkerState
      /\ jobs[j] # NoJob /\ jobs[j].status = "pending"
  BY <1>1, WorkerIs DEF Fits
<1>3. jobs[j].attempts \in 0..MaxAttempts /\ row \in JobRow /\ row.status = "running"
  BY <1>2 DEF JobRow
<1>4. f \in WorkerState /\ f.pc = "deliver" /\ f.job = j /\ f.attempts = jobs[j].attempts
  BY <1>2, <1>3 DEF WorkerState
<1>5. row # NoJob /\ jobs' = [jobs EXCEPT ![j] = row] /\ jobs'[j] = row
  BY <1>1, <1>2, <1>3, NoJobAssumption DEF IInv, Types
<1>6. RowIsTrue(jobs[j], posts[j], received[j])
  BY <1>2 DEF IInv, RowsAreTrue
<1>7. Fits(f, jobs', posts', received')
  BY <1>1, <1>2, <1>3, <1>4, <1>5, <1>6 DEF Fits, RowIsTrue
<1>8. RowIsTrue(row, posts[j], received[j])
  BY <1>2, <1>3, <1>5, <1>6 DEF RowIsTrue
<1>9. /\ posts[j] \in 0..MaxAttempts /\ received[j] \in 0..MaxAttempts
      /\ posts' = [posts EXCEPT ![j] = posts[j]]
      /\ received' = [received EXCEPT ![j] = received[j]]
  BY <1>1, <1>2 DEF IInv, Types
<1>10. Line'
  <2>1. \A k \in Job : k # j => jobs'[k] = jobs[k]
    BY <1>5 DEF IInv, Types
  <2>2. Pending' = Pending \ {j}
    BY <1>2, <1>3, <1>5, <2>1 DEF Pending, StatusOf
  <2>3. QED
    BY <1>1, <2>2, LineWithout DEF IInv
<1> HIDE DEF j, row, f
<1>11. Types' /\ OneWorkerPerJob' /\ WorkersFit' /\ RowsAreTrue'
  <2>1. worker[w].pc # "idle" /\ j = worker[w].job
    BY <1>1 DEF j
  <2>2. QED
    BY <1>1, <1>3, <1>4, <1>5, <1>7, <1>8, <1>9, <2>1, OwnRow
<1>12. QED
  BY <1>10, <1>11 DEF IInv

-----------------------------------------------------------------------------
(* The delivery.                                                           *)

\* A worker that has a result counts the attempt it made for it.
LEMMA ResultState ==
  ASSUME IInv, NEW w \in Worker, worker[w].pc = "deliver",
         NEW r \in {"pending", "succeeded", "failed"}
  PROVE  LET f == [worker[w] EXCEPT !.pc = "finish", !.attempts = @ + 1, !.result = r] IN
         /\ f \in WorkerState /\ f.pc = "finish" /\ f.job = worker[w].job
         /\ f.result = r /\ f.attempts = posts[worker[w].job] + 1
<1>1. worker[w] \in WorkerState /\ Fits(worker[w], jobs, posts, received)
  BY WorkerIs
<1>2. /\ worker[w].attempts = posts[worker[w].job]
      /\ posts[worker[w].job] < MaxAttempts
      /\ worker[w].job \in Job
  BY <1>1 DEF Fits
<1>3. worker[w].attempts + 1 \in 0..MaxAttempts
  <2>1. worker[w].attempts \in 0..MaxAttempts
    BY <1>1 DEF WorkerState
  <2>2. QED
    BY <1>2, <2>1, WebhookAssumption
<1>4. QED
  BY <1>1, <1>2, <1>3 DEF WorkerState

\* A request that cannot be built ends the job without having been sent.
LEMMA BadRequestInv ==
  ASSUME IInv, NEW w \in Worker, BadRequest(w)
  PROVE  IInv'
<1> DEFINE f == [worker[w] EXCEPT !.pc = "finish", !.attempts = @ + 1, !.result = "failed"]
<1>1. /\ worker[w].pc = "deliver"
      /\ Step(w, f)
      /\ UNCHANGED <<hooks, table, bounds, posts, received, abandoned>>
  BY DEF BadRequest, Result, history
<1>2. /\ f \in WorkerState /\ f.pc = "finish" /\ f.job = worker[w].job
      /\ f.result = "failed" /\ f.attempts = posts[worker[w].job] + 1
  BY <1>1, ResultState
<1> HIDE DEF f
<1>3. posts[worker[w].job] \in Nat
  BY <1>1, WorkerIs DEF IInv, Types
<1>4. Fits(f, jobs, posts, received)
  <2>1. Fits(worker[w], jobs, posts, received)
    BY WorkerIs
  <2>2. QED
    BY <1>1, <1>2, <1>3, <2>1 DEF Fits, ResultFits
<1>5. \A v \in Worker \ {w} : worker[v].job # f.job
  BY <1>1, <1>2, WorkerIs
<1>6. UNCHANGED bounds /\ UNCHANGED abandoned
  BY <1>1
<1>7. QED
  BY <1>1, <1>2, <1>4, <1>5, <1>6, SameBounds, OnlyMoves

\* A request was sent; whether its receiver took it and what is to be written
\* go together.
LEMMA SentInv ==
  ASSUME IInv, NEW w \in Worker, worker[w].pc = "deliver",
         NEW taken \in {0, 1}, NEW s \in {"pending", "succeeded", "failed"},
         posts' = [posts EXCEPT ![worker[w].job] = @ + 1],
         received' = [received EXCEPT ![worker[w].job] = @ + taken],
         Result(w, s), UNCHANGED <<hooks, table, bounds, abandoned>>,
         s = "succeeded" => taken = 1,
         s = "pending" => worker[w].attempts + 1 < MaxAttempts,
         s = "failed" => worker[w].attempts + 1 >= MaxAttempts
  PROVE  IInv'
<1> DEFINE j == worker[w].job
           f == [worker[w] EXCEPT !.pc = "finish", !.attempts = @ + 1, !.result = s]
<1>1. /\ f \in WorkerState /\ f.pc = "finish" /\ f.job = j
      /\ f.result = s /\ f.attempts = posts[j] + 1
  BY ResultState
<1>2. /\ j \in Job /\ jobs[j] \in JobRow /\ jobs[j] # NoJob
      /\ jobs[j].status \in {"running", "deleted"}
      /\ worker[w].attempts = posts[j] /\ posts[j] < MaxAttempts
  BY WorkerIs DEF Fits
<1>3. /\ UNCHANGED <<hooks, jobs, before, due, losses, crashes, abandoned>>
      /\ Step(w, f)
  BY DEF Result, table, bounds
<1> DEFINE p == posts[j] + 1
           r == received[j] + taken
<1>4. posts[j] \in 0..MaxAttempts /\ received[j] \in 0..MaxAttempts /\ received[j] <= posts[j]
  BY <1>2 DEF IInv, Types, RowsAreTrue, RowIsTrue
<1>5. p \in 0..MaxAttempts /\ r \in 0..MaxAttempts /\ r <= p
  BY <1>2, <1>4, WebhookAssumption
<1>6. /\ posts' = [posts EXCEPT ![j] = p] /\ posts'[j] = p
      /\ received' = [received EXCEPT ![j] = r] /\ received'[j] = r
      /\ jobs' = [jobs EXCEPT ![j] = jobs[j]]
  BY <1>2, <1>3 DEF IInv, Types
<1>7. Fits(f, jobs', posts', received')
  <2>1. ResultFits(f, posts', received')
    BY <1>1, <1>2, <1>4, <1>5, <1>6, WebhookAssumption DEF ResultFits
  <2>2. QED
    BY <1>1, <1>2, <1>3, <2>1 DEF Fits
<1>8. RowIsTrue(jobs[j], p, r)
  BY <1>2, <1>5 DEF RowIsTrue
<1>9. Line'
  <2>1. Pending' = Pending
    BY <1>3 DEF Pending, StatusOf
  <2>2. QED
    BY <1>3, <2>1, LineUnchanged DEF IInv
<1>10. Types' /\ OneWorkerPerJob' /\ WorkersFit' /\ RowsAreTrue'
  <2> HIDE DEF f, p, r
  <2>1. QED
    BY <1>1, <1>2, <1>3, <1>5, <1>6, <1>7, <1>8, OwnRow
<1>11. QED
  BY <1>9, <1>10 DEF IInv

\* A delivery that succeeded was taken by the receiver.
LEMMA DeliveredInv ==
  ASSUME IInv, NEW w \in Worker, Delivered(w)
  PROVE  IInv'
  BY SentInv DEF Delivered

\* A delivery that failed was sent, and may have been taken all the same.
LEMMA NotDeliveredInv ==
  ASSUME IInv, NEW w \in Worker, NotDelivered(w)
  PROVE  IInv'
<1>1. PICK taken \in {0, 1} : received' = [received EXCEPT ![worker[w].job] = @ + taken]
  BY DEF NotDelivered
<1> DEFINE s == AfterFailure(worker[w].attempts + 1)
<1>2. /\ worker[w].pc = "deliver"
      /\ posts' = [posts EXCEPT ![worker[w].job] = @ + 1]
      /\ Result(w, s) /\ UNCHANGED <<hooks, table, bounds, abandoned>>
  BY DEF NotDelivered
<1>3. worker[w].attempts \in Nat
  <2>1. worker[w].attempts \in 0..MaxAttempts
    BY WorkerIs DEF WorkerState
  <2>2. QED
    BY <2>1, WebhookAssumption
<1>4. /\ s \in {"pending", "failed"}
      /\ s = "pending" => worker[w].attempts + 1 < MaxAttempts
      /\ s = "failed" => worker[w].attempts + 1 >= MaxAttempts
  BY <1>3, WebhookAssumption DEF AfterFailure
<1> HIDE DEF s
<1>5. s # "succeeded" /\ s \in {"pending", "succeeded", "failed"}
  BY <1>4
<1>6. QED
  BY <1>1, <1>2, <1>4, <1>5, SentInv

-----------------------------------------------------------------------------
(* The result is written, or is not.                                       *)

\* The result is written; a retry goes back into the line.
LEMMA FinishWebhookJobInv ==
  ASSUME IInv, NEW w \in Worker, FinishWebhookJob(w)
  PROVE  IInv'
<1> DEFINE j == worker[w].job
           row == [jobs[j] EXCEPT !.status = worker[w].result,
                                  !.attempts = worker[w].attempts]
<1>1. /\ worker[w].pc = "finish" /\ Step(w, Idle)
      /\ UNCHANGED <<hooks, due, losses, crashes, posts, received, abandoned>>
  BY DEF FinishWebhookJob, bounds, history
<1>2. /\ j \in Job /\ jobs[j] \in JobRow /\ jobs[j] # NoJob
      /\ jobs[j].status \in {"running", "deleted"}
      /\ ResultFits(worker[w], posts, received)
      /\ worker[w] \in WorkerState
  BY <1>1, WorkerIs DEF Fits
<1>3. CASE StatusOf(j) = "deleted"
  <2>1. UNCHANGED <<hooks, table, posts, received, bounds, abandoned>>
    BY <1>1, <1>3 DEF FinishWebhookJob, table, bounds
  <2>2. UNCHANGED bounds /\ UNCHANGED abandoned
    BY <2>1
  <2>3. QED
    BY <1>1, <2>1, <2>2, SameBounds, ToIdle
<1>4. CASE StatusOf(j) # "deleted"
  <2>1. jobs' = [jobs EXCEPT ![j] = row]
    BY <1>4 DEF FinishWebhookJob
  <2>2. worker[w].attempts \in 0..MaxAttempts /\ worker[w].result \in {"pending", "succeeded", "failed"}
    BY <1>2 DEF WorkerState, ResultFits
  <2>3. /\ row \in JobRow /\ row # NoJob
        /\ row.status = worker[w].result /\ row.attempts = worker[w].attempts
    BY <1>2, <2>2, NoJobAssumption DEF JobRow
  <2>4. RowIsTrue(jobs[j], posts[j], received[j])
    BY <1>2 DEF IInv, RowsAreTrue
  <2>5. RowIsTrue(row, posts[j], received[j])
    BY <1>2, <2>3, <2>4 DEF RowIsTrue, ResultFits
  <2>6. /\ posts[j] \in 0..MaxAttempts /\ received[j] \in 0..MaxAttempts
        /\ posts' = [posts EXCEPT ![j] = posts[j]]
        /\ received' = [received EXCEPT ![j] = received[j]]
    BY <1>1, <1>2 DEF IInv, Types
  <2>7. jobs'[j] = row /\ \A k \in Job : k # j => jobs'[k] = jobs[k]
    BY <1>2, <2>1 DEF IInv, Types
  <2>8. Line'
    <3>1. j \notin Pending
      BY <1>2 DEF Pending, StatusOf
    <3>2. CASE worker[w].result = "pending"
      <4>1. PICK A \in SUBSET Waiting : before' = Between(due \cup A, j, Waiting \ A)
        BY <1>4, <3>2 DEF FinishWebhookJob
      <4>2. Pending' = Pending \cup {j}
        BY <1>2, <2>3, <2>7, <3>2 DEF Pending, StatusOf
      <4>3. /\ (due \cup A) \cup (Waiting \ A) = Pending
            /\ (due \cup A) \cap (Waiting \ A) = {}
            /\ due \subseteq due \cup A
        BY DEF Waiting, IInv, Line
      <4>4. QED
        BY <1>1, <1>2, <3>1, <4>1, <4>2, <4>3, LineInserted DEF IInv
    <3>3. CASE worker[w].result # "pending"
      <4>1. UNCHANGED before
        BY <1>4, <3>3 DEF FinishWebhookJob
      <4>2. Pending' = Pending
        BY <1>2, <2>3, <2>7, <3>3 DEF Pending, StatusOf
      <4>3. QED
        BY <1>1, <4>1, <4>2, LineUnchanged DEF IInv
    <3>4. QED
      BY <3>2, <3>3
  <2>9. Types' /\ OneWorkerPerJob' /\ WorkersFit' /\ RowsAreTrue'
    <3> HIDE DEF row
    <3>1. Fits(Idle, jobs', posts', received')
      BY IdleFits DEF Fits
    <3>2. QED
      BY <1>1, <2>1, <2>3, <2>5, <2>6, <3>1, IdleFits, OwnRow
  <2>10. QED
    BY <2>8, <2>9 DEF IInv
<1>5. QED
  BY <1>3, <1>4

\* A worker that lets go of what it has.
LEMMA LetsGoInv ==
  ASSUME IInv, NEW w \in Worker, RollbackClaim(w) \/ FinishFails(w) \/ Crash(w)
  PROVE  IInv'
<1>1. CASE RollbackClaim(w)
  <2>1. /\ Step(w, Idle) /\ UNCHANGED <<hooks, table, posts, received>>
        /\ UNCHANGED bounds /\ UNCHANGED abandoned
    BY <1>1 DEF RollbackClaim, history
  <2>2. QED
    BY <2>1, SameBounds, ToIdle
<1>2. CASE FinishFails(w)
  <2>1. /\ Step(w, Idle) /\ UNCHANGED <<hooks, table, posts, received>>
        /\ UNCHANGED bounds
        /\ worker[w].pc = "finish" /\ abandoned' = abandoned \cup {worker[w].job}
    BY <1>2 DEF FinishFails
  <2>2. abandoned' \subseteq Job
    BY <2>1, WorkerIs DEF IInv, Types
  <2>3. QED
    BY <2>1, <2>2, SameBounds, ToIdle
<1>3. CASE Crash(w)
  <2>1. /\ Step(w, Idle) /\ UNCHANGED <<hooks, table, posts, received, losses>>
        /\ worker[w].pc # "idle" /\ crashes < MaxCrashes /\ crashes' = crashes + 1
        /\ abandoned' \in {abandoned, abandoned \cup {worker[w].job}}
    BY <1>3 DEF Crash
  <2>2. abandoned' \subseteq Job
    BY <2>1, WorkerIs DEF IInv, Types
  <2>3. crashes' \in 0..MaxCrashes /\ losses' \in 0..MaxLosses
    BY <2>1, WebhookAssumption DEF IInv, Types
  <2>4. QED
    BY <2>1, <2>2, <2>3, ToIdle
<1>4. QED
  BY <1>1, <1>2, <1>3

-----------------------------------------------------------------------------
(* The invariant holds.                                                    *)

\* A secret that is lost or replaced changes no job.
LEMMA SecretInv ==
  ASSUME IInv, NEW h \in Hook, SecretLost(h) \/ SecretReplaced(h)
  PROVE  IInv'
<1>1. CASE SecretLost(h)
  <2>1. /\ hooks' = [hooks EXCEPT ![h] = "unreadable"]
        /\ losses < MaxLosses /\ losses' = losses + 1
        /\ UNCHANGED <<table, worker, crashes, history>>
    BY <1>1 DEF SecretLost
  <2>2. losses' \in 0..MaxLosses
    BY <2>1, WebhookAssumption DEF IInv, Types
  <2>3. QED
    BY <2>1, <2>2, HookInv DEF IInv, Types
<1>2. CASE SecretReplaced(h)
  <2>1. /\ hooks' = [hooks EXCEPT ![h] = "readable"]
        /\ UNCHANGED <<table, worker, losses, crashes, history>>
    BY <1>2 DEF SecretReplaced, bounds
  <2>2. QED
    BY <2>1, HookInv DEF IInv, Types
<1>3. QED
  BY <1>1, <1>2

\* The invariant: every step.
LEMMA NextInv ==
  ASSUME IInv, [Next]_vars
  PROVE  IInv'
<1>1. ASSUME NEW h \in Hook,
             Enqueue(h) \/ SecretLost(h) \/ SecretReplaced(h) \/ DeleteWebhook(h)
      PROVE  IInv'
  BY <1>1, EnqueueInv, SecretInv, DeleteWebhookInv
<1>2. CASE TimePasses
  BY <1>2, TimePassesInv
<1>3. ASSUME NEW w \in Worker, Work(w) \/ Crash(w)
      PROVE  IInv'
  BY <1>3, LockInv, CommitClaimInv, BadRequestInv, DeliveredInv, NotDeliveredInv,
     FinishWebhookJobInv, LetsGoInv DEF Work
<1>4. CASE UNCHANGED vars
  <2>1. UNCHANGED <<hooks, table, worker, losses, crashes, history>>
    BY <1>4 DEF vars, bounds
  <2>2. QED
    BY <2>1, HookInv DEF IInv, Types
<1>5. QED
  BY <1>1, <1>2, <1>3, <1>4 DEF Next

\* The invariant holds at all times.
LEMMA Invariance == Spec => []IInv
<1>1. Init => IInv
  BY InitInv
<1>2. IInv /\ [Next]_vars => IInv'
  BY NextInv
<1>3. QED
  BY <1>1, <1>2, PTL DEF Spec

-----------------------------------------------------------------------------
(* The theorems.                                                           *)

\* TypeOK holds: the rows are typed, and the pending ones stand in one line of
\* which the due ones are the front (webhook_jobs, next_run_at).
THEOREM TypeCorrect == Spec => []TypeOK
<1>1. IInv => TypeOK
  BY TypeParts DEF IInv
<1>2. QED
  BY <1>1, Invariance, PTL

\* A step after which no job is forgotten: a job becomes running in the hands of a
\* worker, and is let go of when it is running no more, or abandoned.
LEMMA StillHeld ==
  ASSUME NoJobForgotten, abandoned \subseteq abandoned',
         \A j \in Job : StatusOf(j)' = "running" =>
             StatusOf(j) = "running" \/ \E w \in Worker : worker'[w].job = j,
         \A w \in Worker, j \in Job : worker[w].job = j =>
             worker'[w].job = j \/ j \in abandoned' \/ StatusOf(j)' # "running"
  PROVE  NoJobForgotten'
<1>1. SUFFICES ASSUME NEW j \in Job, j \notin abandoned', StatusOf(j)' = "running",
                      StatusOf(j) = "running"
               PROVE  \E w \in Worker : worker'[w].job = j
  BY DEF NoJobForgotten
<1>2. PICK w \in Worker : worker[w].job = j
  BY <1>1 DEF NoJobForgotten
<1>3. QED
  BY <1>1, <1>2

\* A worker moves, and keeps its job or may let go of it.
LEMMA StepStillHeld ==
  ASSUME IInv, NoJobForgotten, NEW w \in Worker, NEW f, Step(w, f),
         UNCHANGED jobs, abandoned \subseteq abandoned',
         \/ f.job = worker[w].job
         \/ worker[w].pc \in {"idle", "locked"}
         \/ worker[w].job \in abandoned'
  PROVE  NoJobForgotten'
<1>1. worker'[w] = f /\ \A v \in Worker \ {w} : worker'[v] = worker[v]
  BY DEF Step, IInv, Types
<1>2. \A j \in Job : StatusOf(j)' = StatusOf(j)
  BY DEF StatusOf
<1>3. worker[w].pc \in {"idle", "locked"} =>
          \A j \in Job : worker[w].job = j => StatusOf(j) # "running"
  BY WorkerIs DEF Fits, StatusOf, Job
<1>4. QED
  BY <1>1, <1>2, <1>3, StillHeld

\* No job is forgotten by a step.
LEMMA NextForgetsNone ==
  ASSUME IInv, NoJobForgotten, [Next]_vars
  PROVE  NoJobForgotten'
<1>1. ASSUME UNCHANGED worker, UNCHANGED abandoned,
             \A j \in Job : StatusOf(j)' = "running" => StatusOf(j) = "running"
      PROVE  NoJobForgotten'
  BY <1>1, StillHeld
<1>2. ASSUME NEW h \in Hook, Enqueue(h)
      PROVE  NoJobForgotten'
  <2>1. PICK j \in Job :
          jobs' = [jobs EXCEPT ![j] = [status |-> "pending", hook |-> h, attempts |-> 0]]
    BY <1>2 DEF Enqueue
  <2>2. \A k \in Job : StatusOf(k)' = "running" => StatusOf(k) = "running"
    BY <2>1 DEF StatusOf, IInv, Types
  <2>3. QED
    BY <1>1, <1>2, <2>2 DEF Enqueue, history
<1>3. ASSUME NEW h \in Hook, DeleteWebhook(h)
      PROVE  NoJobForgotten'
  <2>1. \A j \in Job : jobs'[j] = IF j \in JobsOf(h)
                                  THEN [jobs[j] EXCEPT !.status = "deleted"] ELSE jobs[j]
    BY <1>3 DEF DeleteWebhook
  <2>2. \A j \in JobsOf(h) : jobs[j] \in JobRow
    BY DEF JobsOf, IInv, Types
  <2>3. \A j \in JobsOf(h) : jobs'[j].status = "deleted"
    BY <2>1, <2>2 DEF JobsOf, JobRow
  <2>4. \A j \in Job : StatusOf(j)' = "running" => StatusOf(j) = "running"
    BY <2>1, <2>3 DEF StatusOf
  <2>5. QED
    BY <1>1, <1>3, <2>4 DEF DeleteWebhook, history
<1>4. CASE (\E h \in Hook : SecretLost(h) \/ SecretReplaced(h)) \/ TimePasses \/ UNCHANGED vars
  <2>1. UNCHANGED <<jobs, worker, abandoned>>
    BY <1>4 DEF SecretLost, SecretReplaced, TimePasses, vars, table, history
  <2>2. QED
    BY <1>1, <2>1 DEF StatusOf
<1>5. ASSUME NEW w \in Worker, CommitClaim(w)
      PROVE  NoJobForgotten'
  <2>1. worker[w] \in WorkerState /\ worker[w].job \in Job
    BY <1>5, WorkerIs DEF CommitClaim
  <2>2. /\ \A j \in Job : j # worker[w].job => jobs'[j] = jobs[j]
        /\ worker'[w].job = worker[w].job
        /\ \A v \in Worker : v # w => worker'[v] = worker[v]
    BY <1>5, <2>1 DEF CommitClaim, Step, IInv, Types, WorkerState
  <2>3. \A j \in Job : StatusOf(j)' = "running" =>
            StatusOf(j) = "running" \/ \E v \in Worker : worker'[v].job = j
    BY <2>2 DEF StatusOf
  <2>4. QED
    BY <1>5, <2>2, <2>3, StillHeld DEF CommitClaim, history
<1>6. ASSUME NEW w \in Worker, FinishWebhookJob(w)
      PROVE  NoJobForgotten'
  <2>1. PICK j \in Job : j = worker[w].job
    BY <1>6, WorkerIs DEF FinishWebhookJob
  <2>2. /\ worker[w] \in WorkerState /\ jobs[j] \in JobRow
        /\ worker[w].result \in {"pending", "succeeded", "failed"}
    BY <1>6, <2>1, WorkerIs DEF FinishWebhookJob, Fits, ResultFits
  <2>3. StatusOf(j)' # "running"
    <3>1. CASE StatusOf(j) = "deleted"
      BY <1>6, <2>1, <3>1 DEF FinishWebhookJob, StatusOf
    <3>2. CASE StatusOf(j) # "deleted"
      <4> DEFINE row == [jobs[j] EXCEPT !.status = worker[w].result,
                                        !.attempts = worker[w].attempts]
      <4>1. jobs' = [jobs EXCEPT ![j] = row]
        BY <1>6, <2>1, <3>2 DEF FinishWebhookJob
      <4>2. row.status = worker[w].result
        BY <2>2 DEF JobRow
      <4> HIDE DEF row
      <4>3. jobs'[j].status = worker[w].result
        BY <4>1, <4>2 DEF IInv, Types
      <4>4. QED
        BY <2>2, <4>3 DEF StatusOf
    <3>3. QED
      BY <3>1, <3>2
  <2>4. /\ \A k \in Job : k # j => jobs'[k] = jobs[k]
        /\ \A v \in Worker : v # w => worker'[v] = worker[v]
    BY <1>6, <2>1 DEF FinishWebhookJob, Step, IInv, Types
  <2>5. \A k \in Job : StatusOf(k)' = "running" => StatusOf(k) = "running"
    BY <2>3, <2>4 DEF StatusOf
  <2>6. UNCHANGED abandoned
    BY <1>6 DEF FinishWebhookJob, history
  <2>7. QED
    BY <2>1, <2>3, <2>4, <2>5, <2>6, StillHeld
<1>7. ASSUME NEW w \in Worker, Lock(w) \/ RollbackClaim(w)
      PROVE  NoJobForgotten'
  <2>1. /\ worker[w].pc \in {"idle", "locked"} /\ \E f : Step(w, f)
        /\ UNCHANGED <<jobs, abandoned>>
    BY <1>7 DEF Lock, RollbackClaim, table, history
  <2>2. QED
    BY <2>1, StepStillHeld
<1>8. ASSUME NEW w \in Worker, BadRequest(w) \/ Delivered(w) \/ NotDelivered(w)
      PROVE  NoJobForgotten'
  <2>1. /\ \E r : Result(w, r)
        /\ UNCHANGED <<jobs, abandoned>>
    BY <1>8 DEF BadRequest, Delivered, NotDelivered, table, history
  <2>2. \A r : [worker[w] EXCEPT !.pc = "finish", !.attempts = @ + 1, !.result = r].job
                = worker[w].job
    BY WorkerIs DEF WorkerState
  <2>3. QED
    BY <2>1, <2>2, StepStillHeld DEF Result
<1>9. ASSUME NEW w \in Worker, FinishFails(w) \/ Crash(w)
      PROVE  NoJobForgotten'
  <2>1. /\ Step(w, Idle) /\ UNCHANGED jobs /\ abandoned \subseteq abandoned'
        /\ worker[w].pc = "locked" \/ worker[w].job \in abandoned'
    BY <1>9 DEF FinishFails, Crash, table
  <2>2. QED
    BY <2>1, StepStillHeld
<1>10. QED
  BY <1>2, <1>3, <1>4, <1>5, <1>6, <1>7, <1>8, <1>9 DEF Next, Work

\* JobsHaveOneWorker holds: SKIP LOCKED and the status keep two workers apart
\* (ClaimNextWebhookJob), and deliverWebhook lets go of a row only by writing it.
THEOREM JobsAreHeld == Spec => []JobsHaveOneWorker
<1>1. Init => NoJobForgotten
  BY DEF Init, NoJobForgotten, StatusOf
<1>2. IInv /\ NoJobForgotten /\ [Next]_vars => NoJobForgotten'
  BY NextForgetsNone
<1>3. IInv /\ NoJobForgotten => JobsHaveOneWorker
  BY DEF IInv, JobsHaveOneWorker
<1>4. QED
  BY <1>1, <1>2, <1>3, Invariance, PTL DEF Spec

\* AttemptsAreCounted holds: whatever answers, restarts and replicas, the row's
\* count is the number of requests sent, never more than maxWebhookAttempts.
THEOREM AttemptsCounted == Spec => []AttemptsAreCounted
<1>1. IInv => AttemptsAreCounted
  <2> SUFFICES ASSUME IInv, NEW j \in Job
               PROVE  /\ posts[j] <= MaxAttempts
                      /\ StatusOf(j) = "pending" => posts[j] = jobs[j].attempts
                      /\ StatusOf(j) = "pending" => posts[j] < MaxAttempts
    BY DEF AttemptsAreCounted
  <2>1. posts[j] \in 0..MaxAttempts /\ RowIsTrue(jobs[j], posts[j], received[j])
    BY DEF IInv, Types, RowsAreTrue
  <2>2. posts[j] <= MaxAttempts
    BY <2>1, WebhookAssumption
  <2>3. QED
    BY <2>1, <2>2 DEF RowIsTrue, StatusOf
<1>2. QED
  BY <1>1, Invariance, PTL

\* OutcomeIsTrue holds: succeeded means taken, failed means given up after the
\* last attempt, or at a URL that makes no request (deliverWebhook).
THEOREM OutcomesTrue == Spec => []OutcomeIsTrue
<1>1. IInv => OutcomeIsTrue
  <2> SUFFICES ASSUME IInv, NEW j \in Job
               PROVE  /\ StatusOf(j) = "succeeded" => received[j] >= 1
                      /\ StatusOf(j) = "failed" => \/ posts[j] = MaxAttempts
                                                   \/ posts[j] < jobs[j].attempts
    BY DEF OutcomeIsTrue
  <2>1. RowIsTrue(jobs[j], posts[j], received[j])
    BY DEF IInv, RowsAreTrue
  <2>2. QED
    BY <2>1 DEF RowIsTrue, StatusOf
<1>2. QED
  BY <1>1, Invariance, PTL

-----------------------------------------------------------------------------
(* The refinement of WorkQueue.                                            *)

HeldIn(f) == IF f.pc \in {"deliver", "finish"} THEN f.job ELSE 0

statusOf == [j \in Job |-> StatusOf(j)]
holderOf == [w \in Worker |-> HeldIn(worker[w])]

\* The variables of the abstract queue, before and after a step.
LEMMA QueueVars ==
  /\ Queue!vars = <<statusOf, holderOf>>
  /\ Queue!vars' = <<statusOf', holderOf'>>
  BY DEF Queue!vars, statusOf, holderOf, HeldIn

\* Who holds what in the abstract queue, after a step of one worker.
LEMMA HolderMoves ==
  ASSUME IInv, NEW w \in Worker, NEW f, Step(w, f)
  PROVE  holderOf' = [holderOf EXCEPT ![w] = HeldIn(f)]
<1>1. worker'[w] = f /\ \A v \in Worker : v # w => worker'[v] = worker[v]
  BY DEF Step, IInv, Types
<1>2. holderOf' = [v \in Worker |-> HeldIn(worker'[v])]
  BY DEF holderOf, HeldIn
<1>3. QED
  BY <1>1, <1>2 DEF holderOf

\* The abstract status of a job whose row is written.
LEMMA StatusMoves ==
  ASSUME IInv, NEW j \in Job, NEW row \in JobRow, jobs' = [jobs EXCEPT ![j] = row]
  PROVE  statusOf' = [statusOf EXCEPT ![j] = row.status]
<1>1. jobs'[j] = row /\ \A k \in Job : k # j => jobs'[k] = jobs[k]
  BY DEF IInv, Types
<1>2. StatusOf(j)' = row.status /\ \A k \in Job : k # j => StatusOf(k)' = StatusOf(k)
  BY <1>1, NoJobAssumption DEF StatusOf
<1>3. statusOf' = [k \in Job |-> StatusOf(k)']
  BY DEF statusOf
<1>4. QED
  BY <1>2, <1>3 DEF statusOf

\* No row, no status.
LEMMA StatusStays ==
  ASSUME UNCHANGED jobs
  PROVE  UNCHANGED statusOf
  BY DEF statusOf, StatusOf

\* No worker, no holder.
LEMMA HolderStays ==
  ASSUME UNCHANGED worker
  PROVE  UNCHANGED holderOf
  BY DEF holderOf

\* What the abstract actions say of the two abstract variables.
LEMMA AbstractRelease ==
  ASSUME NEW w \in Worker, UNCHANGED statusOf, holderOf' = [holderOf EXCEPT ![w] = 0]
  PROVE  Queue!Next
<1>1. holderOf' = [v \in Worker |-> IF v \in {w} THEN 0 ELSE holderOf[v]]
  BY DEF holderOf
<1>2. Queue!Release({w})
  BY <1>1 DEF Queue!Release, statusOf, holderOf, HeldIn
<1>3. QED
  BY <1>2 DEF Queue!Next

\* A worker claims, settles or releases the job it holds.
LEMMA WorkerRefines ==
  ASSUME IInv, NEW w \in Worker, Work(w) \/ Crash(w)
  PROVE  Queue!Next \/ UNCHANGED Queue!vars
<1>1. HeldIn(Idle) = 0
  BY IdleFits DEF HeldIn
<1>2. /\ worker[w] \in WorkerState
      /\ Fits(worker[w], jobs, posts, received)
      /\ holderOf[w] = HeldIn(worker[w])
      /\ holderOf = [holderOf EXCEPT ![w] = HeldIn(worker[w])]
  BY WorkerIs DEF holderOf
<1>3. CASE Lock(w)
  <2>1. PICK j \in due : Step(w, [Idle EXCEPT !.pc = "locked", !.job = j])
    BY <1>3 DEF Lock
  <2>2. worker[w].pc = "idle" /\ UNCHANGED jobs
    BY <1>3 DEF Lock, table
  <2>3. HeldIn([Idle EXCEPT !.pc = "locked", !.job = j]) = 0
    BY DEF HeldIn, Idle
  <2>4. HeldIn(worker[w]) = 0
    BY <2>2 DEF HeldIn
  <2>5. UNCHANGED holderOf
    BY <1>2, <2>1, <2>3, <2>4, HolderMoves
  <2>6. QED
    BY <2>2, <2>5, StatusStays, QueueVars
<1>4. CASE CommitClaim(w)
  <2>1. worker[w].pc = "locked" /\ worker[w].job \in Job
    BY <1>4, WorkerIs DEF CommitClaim
  <2>2. PICK j \in Job : j = worker[w].job
    BY <2>1
  <2> DEFINE row == [jobs[j] EXCEPT !.status = "running"]
             f == [worker[w] EXCEPT !.pc = "deliver", !.attempts = jobs[j].attempts]
  <2>3. Step(w, f) /\ jobs' = [jobs EXCEPT ![j].status = "running"]
    BY <1>4, <2>2 DEF CommitClaim
  <2>4. jobs[j] \in JobRow /\ jobs[j] # NoJob /\ jobs[j].status = "pending"
    BY <2>1, <2>2, WorkerIs DEF Fits
  <2>5. row \in JobRow /\ row.status = "running" /\ jobs' = [jobs EXCEPT ![j] = row]
    BY <2>3, <2>4 DEF JobRow, IInv, Types
  <2>6. HeldIn(f) = j
    BY <1>2, <2>2 DEF HeldIn, WorkerState
  <2>7. holderOf' = [holderOf EXCEPT ![w] = j]
    BY <2>3, <2>6, HolderMoves
  <2>8. statusOf' = [statusOf EXCEPT ![j] = "running"]
    BY <2>5, StatusMoves
  <2>9. holderOf[w] = 0 /\ statusOf[j] = "pending"
    BY <1>2, <2>1, <2>4 DEF HeldIn, statusOf, StatusOf
  <2>10. Queue!Claim(w, j)
    BY <2>7, <2>8, <2>9 DEF Queue!Claim, statusOf, holderOf, HeldIn
  <2>11. QED
    BY <2>10 DEF Queue!Next
<1>5. ASSUME NEW r, worker[w].pc = "deliver", Result(w, r), UNCHANGED jobs
      PROVE  UNCHANGED Queue!vars
  <2> DEFINE f == [worker[w] EXCEPT !.pc = "finish", !.attempts = @ + 1, !.result = r]
  <2>1. Step(w, f)
    BY <1>5 DEF Result
  <2>2. HeldIn(f) = HeldIn(worker[w])
    BY <1>2, <1>5 DEF HeldIn, WorkerState
  <2> HIDE DEF f
  <2>3. UNCHANGED holderOf
    BY <1>2, <2>1, <2>2, HolderMoves
  <2>4. QED
    BY <1>5, <2>3, StatusStays, QueueVars
<1>6. CASE BadRequest(w)
  BY <1>5, <1>6 DEF BadRequest, table
<1>7. CASE Delivered(w)
  BY <1>5, <1>7 DEF Delivered, table
<1>8. CASE NotDelivered(w)
  BY <1>5, <1>8 DEF NotDelivered, table
<1>9. CASE FinishWebhookJob(w)
  <2> DEFINE j == worker[w].job
             row == [jobs[j] EXCEPT !.status = worker[w].result,
                                    !.attempts = worker[w].attempts]
  <2>1. worker[w].pc = "finish" /\ Step(w, Idle)
    BY <1>9 DEF FinishWebhookJob
  <2>2. holderOf' = [holderOf EXCEPT ![w] = 0]
    BY <1>1, <2>1, HolderMoves
  <2>3. CASE StatusOf(j) = "deleted"
    <3>1. UNCHANGED jobs
      BY <1>9, <2>3 DEF FinishWebhookJob
    <3>2. QED
      BY <2>2, <3>1, StatusStays, AbstractRelease
  <2>4. CASE StatusOf(j) # "deleted"
    <3>1. jobs' = [jobs EXCEPT ![j] = row]
      BY <1>9, <2>4 DEF FinishWebhookJob
    <3>2. /\ j \in Job /\ j # 0 /\ jobs[j] \in JobRow /\ jobs[j] # NoJob
          /\ worker[w].result \in {"pending", "succeeded", "failed"}
          /\ StatusOf(j) = "running"
      BY <2>1, <2>4, WorkerIs DEF Fits, ResultFits, StatusOf, Job
    <3>3. worker[w].attempts \in 0..MaxAttempts
      BY <1>2 DEF WorkerState
    <3>4. row \in JobRow /\ row.status = worker[w].result
      BY <3>2, <3>3 DEF JobRow
    <3>5. statusOf' = [statusOf EXCEPT ![j] = worker[w].result]
      BY <3>1, <3>2, <3>4, StatusMoves
    <3>6. holderOf[w] = j /\ statusOf[j] = "running"
      BY <1>2, <2>1, <3>2 DEF HeldIn, statusOf
    <3>7. Queue!Settle(w)
      BY <2>2, <3>2, <3>5, <3>6 DEF Queue!Settle, statusOf, holderOf, HeldIn
    <3>8. QED
      BY <3>7 DEF Queue!Next
  <2>5. QED
    BY <2>3, <2>4
<1>10. CASE RollbackClaim(w) \/ FinishFails(w) \/ Crash(w)
  <2>1. Step(w, Idle) /\ UNCHANGED jobs
    BY <1>10 DEF RollbackClaim, FinishFails, Crash, table
  <2>2. holderOf' = [holderOf EXCEPT ![w] = 0]
    BY <1>1, <2>1, HolderMoves
  <2>3. QED
    BY <2>1, <2>2, StatusStays, AbstractRelease
<1>11. QED
  BY <1>3, <1>4, <1>6, <1>7, <1>8, <1>9, <1>10 DEF Work

\* Every step is a step of WorkQueue or a stutter.
LEMMA NextRefines ==
  ASSUME IInv, [Next]_vars
  PROVE  Queue!Next \/ UNCHANGED Queue!vars
<1>1. ASSUME NEW h \in Hook, Enqueue(h)
      PROVE  Queue!Next
  <2>1. PICK j \in Job :
          /\ jobs[j] = NoJob
          /\ jobs' = [jobs EXCEPT ![j] = [status |-> "pending", hook |-> h, attempts |-> 0]]
    BY <1>1 DEF Enqueue
  <2>2. [status |-> "pending", hook |-> h, attempts |-> 0] \in JobRow
    BY WebhookAssumption DEF JobRow
  <2>3. statusOf' = [statusOf EXCEPT ![j] = "pending"]
    BY <2>1, <2>2, StatusMoves
  <2>4. UNCHANGED holderOf
    BY <1>1, HolderStays DEF Enqueue
  <2>5. statusOf[j] = "absent"
    BY <2>1 DEF statusOf, StatusOf
  <2>6. Queue!Add(j)
    BY <2>3, <2>4, <2>5 DEF Queue!Add, statusOf, holderOf, HeldIn
  <2>7. QED
    BY <2>6 DEF Queue!Next
<1>2. ASSUME NEW h \in Hook, DeleteWebhook(h)
      PROVE  Queue!Next
  <2> DEFINE I == JobsOf(h)
  <2>1. \A j \in Job : /\ j \notin I => jobs'[j] = jobs[j]
                       /\ j \in I => jobs'[j] # NoJob /\ jobs'[j].status = "deleted"
    <3>1. \A j \in I : jobs[j] \in JobRow
      BY DEF JobsOf, IInv, Types
    <3>2. \A row \in JobRow : /\ [row EXCEPT !.status = "deleted"] \in JobRow
                              /\ [row EXCEPT !.status = "deleted"].status = "deleted"
      BY DEF JobRow
    <3>3. jobs' = [j \in Job |-> IF j \in I THEN [jobs[j] EXCEPT !.status = "deleted"]
                                 ELSE jobs[j]]
      BY <1>2 DEF DeleteWebhook
    <3>4. QED
      BY <3>1, <3>2, <3>3, NoJobAssumption
  <2>2. \A j \in Job : StatusOf(j)' = IF j \in I THEN "deleted" ELSE StatusOf(j)
    BY <2>1 DEF StatusOf
  <2>3. statusOf' = [j \in Job |-> IF j \in I THEN "deleted" ELSE statusOf[j]]
    <3>1. statusOf' = [j \in Job |-> StatusOf(j)']
      BY DEF statusOf
    <3>2. QED
      BY <2>2, <3>1 DEF statusOf
  <2>4. \A j \in I : j \in Job /\ statusOf[j] # "absent"
    BY StatusIs DEF JobsOf, statusOf, IInv
  <2>5. UNCHANGED holderOf
    BY <1>2, HolderStays DEF DeleteWebhook
  <2> HIDE DEF I
  <2>6. Queue!Delete(I)
    BY <2>3, <2>4, <2>5 DEF Queue!Delete, statusOf, holderOf, HeldIn
  <2>7. I \in SUBSET Job
    BY <2>4
  <2>8. QED
    BY <2>6, <2>7 DEF Queue!Next
<1>3. ASSUME UNCHANGED <<jobs, worker>>
      PROVE  UNCHANGED Queue!vars
  BY <1>3, StatusStays, HolderStays, QueueVars
<1>4. CASE TimePasses \/ UNCHANGED vars
  BY <1>3, <1>4 DEF TimePasses, vars, table
<1>5. ASSUME NEW h \in Hook, SecretLost(h) \/ SecretReplaced(h)
      PROVE  UNCHANGED Queue!vars
  BY <1>3, <1>5 DEF SecretLost, SecretReplaced, table
<1>6. QED
  BY <1>1, <1>2, <1>4, <1>5, WorkerRefines DEF Next

\* The queue starts empty.
LEMMA InitRefines ==
  ASSUME Init
  PROVE  Queue!Init
<1>1. \A j \in Job : StatusOf(j) = "absent"
  BY DEF Init, StatusOf
<1>2. \A w \in Worker : HeldIn(worker[w]) = 0
  BY IdleFits DEF Init, HeldIn
<1>3. QED
  BY <1>1, <1>2 DEF Queue!Init, HeldIn

\* The workers of any number of processes implement the abstract queue: a claim
\* takes a pending job, a result is written to a running one, and what goes with
\* its webhook stays gone.
THEOREM Refinement == Spec => ImplementsQueue
<1>1. Init => Queue!Init
  BY InitRefines
<1>2. IInv /\ [Next]_vars => [Queue!Next]_(Queue!vars)
  BY NextRefines
<1>3. QED
  BY <1>1, <1>2, Invariance, PTL DEF Spec, ImplementsQueue, Queue!Spec
=============================================================================
