----------------------------- MODULE WebhookQueue -----------------------------
(***************************************************************************)
(* Delivery of webhooks: the rows of webhook_jobs, the workers of the      *)
(* manager's processes (cmd/manager-api/webhook_worker.go), the claim and  *)
(* the final update in the store, and the receivers behind the URLs.       *)
(*                                                                         *)
(* next_run_at is only ever compared, with now and with itself: "before"   *)
(* orders the pending jobs by it, and "due" are the ones whose time has    *)
(* come, which are before all others.                                      *)
(***************************************************************************)
EXTENDS Naturals

CONSTANTS
    Worker,      \* delivery workers, one per process of the manager
    Hook,        \* webhooks, each of a fleet of its own
    NoJob,       \* no row in webhook_jobs
    MaxAttempts, \* maxWebhookAttempts (5 in the code)
    MaxJobs,     \* bound: rows of webhook_jobs
    MaxLosses,   \* bound: times secrets become unreadable
    MaxCrashes   \* bound: processes that die

ASSUME WebhookAssumption ==
    /\ MaxAttempts \in Nat \ {0}
    /\ MaxJobs \in Nat /\ MaxLosses \in Nat /\ MaxCrashes \in Nat

Job == 1..MaxJobs

\* Rows of webhook_jobs; deleted is kept to tell a row that is gone from one
\* that was never there.
JobRow == [status : {"pending", "running", "succeeded", "failed", "deleted"},
           hook : Hook, attempts : 0..MaxAttempts]

ASSUME NoJobAssumption == NoJob \notin JobRow

VARIABLES
    hooks,     \* webhooks: readable, unreadable (its secret does not decrypt), deleted
    jobs,      \* webhook_jobs, by id
    before,    \* the order of the pending jobs by next_run_at, as pairs
    due,       \* the pending jobs that are due
    worker,    \* where each worker is
    losses,    \* how often a secret became unreadable
    crashes,   \* how many processes died
    posts,     \* of every job, the requests sent (history)
    received,  \* of every job, the requests its receiver took (history)
    abandoned  \* jobs left running by a death or a failed update (history)

table   == <<jobs, before, due>>
bounds  == <<losses, crashes>>
history == <<posts, received, abandoned>>
vars    == <<hooks, table, worker, bounds, history>>

\* idle; in the claim's transaction, holding the row's lock; delivering; about
\* to write the result.
WorkerState == [pc : {"idle", "locked", "deliver", "finish"}, job : Job \cup {0},
                attempts : 0..MaxAttempts, result : {"", "pending", "succeeded", "failed"}]

Idle == [pc |-> "idle", job |-> 0, attempts |-> 0, result |-> ""]

StatusOf(j) == IF jobs[j] = NoJob THEN "absent" ELSE jobs[j].status

Pending == {j \in Job : StatusOf(j) = "pending"}
Waiting == Pending \ due

\* A pending job comes between those in A and those in B; jobs leave the order.
Between(A, j, B) == before \cup (A \X {j}) \cup ({j} \X B)
Without(J) == {e \in before : e[1] \notin J /\ e[2] \notin J}

Init ==
    /\ hooks = [h \in Hook |-> "readable"]
    /\ jobs = [j \in Job |-> NoJob]
    /\ before = {}
    /\ due = {}
    /\ worker = [w \in Worker |-> Idle]
    /\ losses = 0
    /\ crashes = 0
    /\ posts = [j \in Job |-> 0]
    /\ received = [j \in Job |-> 0]
    /\ abandoned = {}

-----------------------------------------------------------------------------
(* Administrators, publishes and time.                                     *)

\* fireWebhooks and EnqueueWebhookJob: due at once, behind what is due already.
\* ListEnabledWebhooks fails when a secret cannot be read.
Enqueue(h) ==
    /\ hooks[h] = "readable"
    /\ \E j \in Job :
          /\ jobs[j] = NoJob
          /\ \A k \in Job : k < j => jobs[k] # NoJob
          /\ jobs' = [jobs EXCEPT ![j] = [status |-> "pending", hook |-> h, attempts |-> 0]]
          /\ before' = Between(due, j, Waiting)
          /\ due' = due \cup {j}
    /\ UNCHANGED <<hooks, worker, bounds, history>>

\* The process comes back without the key the secret was encrypted with.
SecretLost(h) ==
    /\ hooks[h] = "readable"
    /\ losses < MaxLosses
    /\ hooks' = [hooks EXCEPT ![h] = "unreadable"]
    /\ losses' = losses + 1
    /\ UNCHANGED <<table, worker, crashes, history>>

\* UpdateWebhook with a new secret.
SecretReplaced(h) ==
    /\ hooks[h] = "unreadable"
    /\ hooks' = [hooks EXCEPT ![h] = "readable"]
    /\ UNCHANGED <<table, worker, bounds, history>>

\* DeleteWebhook and, by the cascade, its jobs; it waits for a claim's lock.
JobsOf(h) == {j \in Job : jobs[j] # NoJob /\ jobs[j].hook = h}
DeleteWebhook(h) ==
    /\ hooks[h] # "deleted"
    /\ \A w \in Worker : worker[w].pc = "locked" => worker[w].job \notin JobsOf(h)
    /\ hooks' = [hooks EXCEPT ![h] = "deleted"]
    /\ jobs' = [j \in Job |-> IF j \in JobsOf(h) THEN [jobs[j] EXCEPT !.status = "deleted"]
                              ELSE jobs[j]]
    /\ before' = Without(JobsOf(h))
    /\ due' = due \ JobsOf(h)
    /\ UNCHANGED <<worker, bounds, history>>

\* The next of the waiting jobs comes due.
TimePasses ==
    /\ \E j \in Waiting :
          /\ \A k \in Waiting \ {j} : <<j, k>> \in before
          /\ due' = due \cup {j}
    /\ UNCHANGED <<hooks, jobs, before, worker, bounds, history>>

-----------------------------------------------------------------------------
(* ClaimNextWebhookJob, a transaction.                                     *)

Step(w, fields) == worker' = [worker EXCEPT ![w] = fields]

Locked == {worker[w].job : w \in {v \in Worker : worker[v].pc = "locked"}}

\* Mutant: no SKIP LOCKED, and no waiting either.
IsFirst(j) == \A k \in due \ {j} : <<j, k>> \in before

\* SELECT ... ORDER BY next_run_at LIMIT 1 FOR UPDATE SKIP LOCKED.
IsClaimable(j) ==
    /\ j \notin Locked
    /\ \A k \in due \ (Locked \cup {j}) : <<j, k>> \in before

Lock(w) ==
    /\ worker[w].pc = "idle"
    /\ \E j \in due :
          /\ IsClaimable(j)
          /\ Step(w, [Idle EXCEPT !.pc = "locked", !.job = j])
    /\ UNCHANGED <<hooks, table, bounds, history>>

\* The row is running and its webhook could be read: COMMIT.
CommitClaim(w) ==
    LET j == worker[w].job IN
    /\ worker[w].pc = "locked"
    /\ hooks[jobs[j].hook] = "readable"
    /\ jobs' = [jobs EXCEPT ![j].status = "running"]
    /\ before' = Without({j})
    /\ due' = due \ {j}
    /\ Step(w, [worker[w] EXCEPT !.pc = "deliver", !.attempts = jobs[j].attempts])
    /\ UNCHANGED <<hooks, bounds, history>>

\* The webhook cannot be read, or the database fails: the row stays as it was.
RollbackClaim(w) ==
    /\ worker[w].pc = "locked"
    /\ Step(w, Idle)
    /\ UNCHANGED <<hooks, table, bounds, history>>

-----------------------------------------------------------------------------
(* deliverWebhook.                                                         *)

\* Mutants: one attempt too many, one too few.
AfterFailureLate(n)  == IF n > MaxAttempts THEN "failed" ELSE "pending"
AfterFailureEarly(n) == IF n >= MaxAttempts - 1 THEN "failed" ELSE "pending"

\* What becomes of a delivery that failed for the n-th time (retryWebhook).
AfterFailure(n) == IF n >= MaxAttempts THEN "failed" ELSE "pending"

\* Mutant: the attempt is not counted.
ResultUncounted(w, r) ==
    Step(w, [worker[w] EXCEPT !.pc = "finish", !.result = r])


Result(w, r) ==
    Step(w, [worker[w] EXCEPT !.pc = "finish", !.attempts = @ + 1, !.result = r])

\* The stored URL makes no request.
BadRequest(w) ==
    /\ worker[w].pc = "deliver"
    /\ Result(w, "failed")
    /\ UNCHANGED <<hooks, table, bounds, history>>

\* A 2xx answer.
Delivered(w) ==
    LET j == worker[w].job IN
    /\ worker[w].pc = "deliver"
    /\ posts' = [posts EXCEPT ![j] = @ + 1]
    /\ received' = [received EXCEPT ![j] = @ + 1]
    /\ Result(w, "succeeded")
    /\ UNCHANGED <<hooks, table, bounds, abandoned>>

\* Mutant: a transport error is only logged.
NotDeliveredLogged(w) ==
    /\ worker[w].pc = "deliver"
    /\ Step(w, Idle)
    /\ UNCHANGED <<hooks, table, bounds, history>>

\* Any other answer, or none; the receiver may have taken it all the same.
NotDelivered(w) ==
    LET j == worker[w].job IN
    /\ worker[w].pc = "deliver"
    /\ posts' = [posts EXCEPT ![j] = @ + 1]
    /\ \E taken \in {0, 1} : received' = [received EXCEPT ![j] = @ + taken]
    /\ Result(w, AfterFailure(worker[w].attempts + 1))
    /\ UNCHANGED <<hooks, table, bounds, abandoned>>

\* Mutant: the result is written whether or not the row is still there.
FinishWebhookJobAnyway(w) ==
    LET j == worker[w].job IN
    /\ worker[w].pc = "finish"
    /\ jobs' = [jobs EXCEPT ![j] = [@ EXCEPT !.status = worker[w].result,
                                             !.attempts = worker[w].attempts]]
    /\ IF worker[w].result = "pending"
       THEN \E A \in SUBSET Waiting : before' = Between(due \cup A, j, Waiting \ A)
       ELSE UNCHANGED before
    /\ Step(w, Idle)
    /\ UNCHANGED <<hooks, due, bounds, history>>

\* FinishWebhookJob.  A retry is due later than anything due now; the row of a
\* deleted webhook is not found.
FinishWebhookJob(w) ==
    LET j == worker[w].job IN
    /\ worker[w].pc = "finish"
    /\ IF StatusOf(j) = "deleted"
       THEN UNCHANGED <<jobs, before>>
       ELSE /\ jobs' = [jobs EXCEPT ![j] = [@ EXCEPT !.status = worker[w].result,
                                                     !.attempts = worker[w].attempts]]
            /\ IF worker[w].result = "pending"
               THEN \E A \in SUBSET Waiting :
                       /\ \A a \in A, b \in Waiting \ A : <<a, b>> \in before
                       /\ before' = Between(due \cup A, j, Waiting \ A)
               ELSE UNCHANGED before
    /\ Step(w, Idle)
    /\ UNCHANGED <<hooks, due, bounds, history>>

\* The update fails and that is logged: the row stays running.
FinishFails(w) ==
    /\ worker[w].pc = "finish"
    /\ Step(w, Idle)
    /\ abandoned' = abandoned \cup {worker[w].job}
    /\ UNCHANGED <<hooks, table, bounds, posts, received>>

\* The process dies; a claim that was not committed is rolled back.
Crash(w) ==
    /\ worker[w].pc # "idle"
    /\ crashes < MaxCrashes
    /\ crashes' = crashes + 1
    /\ Step(w, Idle)
    /\ abandoned' = IF worker[w].pc = "locked" THEN abandoned
                    ELSE abandoned \cup {worker[w].job}
    /\ UNCHANGED <<hooks, table, losses, posts, received>>

-----------------------------------------------------------------------------
Work(w) ==
    \/ Lock(w)
    \/ CommitClaim(w)
    \/ RollbackClaim(w)
    \/ BadRequest(w)
    \/ Delivered(w)
    \/ NotDelivered(w)
    \/ FinishWebhookJob(w)
    \/ FinishFails(w)

Next ==
    \/ \E h \in Hook : Enqueue(h) \/ SecretLost(h) \/ SecretReplaced(h) \/ DeleteWebhook(h)
    \/ TimePasses
    \/ \E w \in Worker : Work(w) \/ Crash(w)

Spec == Init /\ [][Next]_vars

\* Time passes, the workers' goroutines run and their calls return (the client
\* has a timeout), and the database does not refuse a claim for ever.
FairSpec ==
    /\ Spec
    /\ WF_vars(TimePasses)
    /\ \A w \in Worker : WF_vars(Work(w)) /\ SF_vars(CommitClaim(w))

-----------------------------------------------------------------------------
(* Properties.                                                             *)

\* Types; and the pending rows are in one line, the due ones first.
TypeOK ==
    /\ hooks \in [Hook -> {"readable", "unreadable", "deleted"}]
    /\ jobs \in [Job -> JobRow \cup {NoJob}]
    /\ due \subseteq Pending
    /\ before \subseteq Pending \X Pending
    /\ \A j, k \in Pending : j # k => (<<j, k>> \in before <=> <<k, j>> \notin before)
    /\ \A j \in due, k \in Waiting : <<j, k>> \in before
    /\ worker \in [Worker -> WorkerState]
    /\ losses \in 0..MaxLosses
    /\ crashes \in 0..MaxCrashes
    /\ posts \in [Job -> 0..MaxAttempts]
    /\ received \in [Job -> 0..MaxAttempts]
    /\ abandoned \subseteq Job

\* SKIP LOCKED: two workers never hold one job, not even while one of them is
\* still in the claim's transaction.
OneWorkerPerJob ==
    \A v, w \in Worker : v # w /\ worker[v].pc # "idle" => worker[v].job # worker[w].job

\* Nothing claims a running job again, so every answer and every error of
\* deliverWebhook must end in FinishWebhookJob: a running job is in some worker's
\* hands, unless its process died or that update failed.
NoJobForgotten ==
    \A j \in Job \ abandoned : StatusOf(j) = "running" => \E w \in Worker : worker[w].job = j

\* A job in progress has its worker, and no two.
JobsHaveOneWorker == OneWorkerPerJob /\ NoJobForgotten

\* docs/webhooks.md:65-67: five attempts, whatever the answers, and the count in
\* the row is the number of requests the receiver may have seen, so that a
\* restart or another replica goes on where the last attempt ended.
AttemptsAreCounted ==
    \A j \in Job :
        /\ posts[j] <= MaxAttempts
        /\ StatusOf(j) = "pending" => posts[j] = jobs[j].attempts
        /\ StatusOf(j) = "pending" => posts[j] < MaxAttempts

\* Nothing is marked succeeded that its receiver has not taken, and nothing
\* given up on before the last attempt that was really made.
OutcomeIsTrue ==
    \A j \in Job :
        /\ StatusOf(j) = "succeeded" => received[j] >= 1
        /\ StatusOf(j) = "failed" => \/ posts[j] = MaxAttempts
                                     \/ posts[j] < jobs[j].attempts

\* Workers that share webhook_jobs implement the abstract queue.
Queue == INSTANCE WorkQueue WITH
    Item   <- Job,
    NoItem <- 0,
    status <- [j \in Job |-> StatusOf(j)],
    holder <- [w \in Worker |-> IF worker[w].pc \in {"deliver", "finish"}
                                THEN worker[w].job ELSE 0]

ImplementsQueue == Queue!Spec

\* Every delivery ends, if no secret stays unreadable: delivered, given up on,
\* or its webhook deleted.  (A job that was abandoned stays running.)
EveryDeliveryEnds ==
    (\A h \in Hook : []<>(hooks[h] # "unreadable")) =>
        \A j \in Job :
            jobs[j] # NoJob ~> \/ StatusOf(j) \in {"succeeded", "failed", "deleted"}
                               \/ j \in abandoned
=============================================================================
