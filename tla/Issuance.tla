------------------------------- MODULE Issuance -------------------------------
(***************************************************************************)
(* Certificates from an ACME CA: the queue of issuance jobs, its workers   *)
(* (cmd/manager-api/acme_worker.go), the renewal loops (acme_renew.go) and *)
(* the DNS-01 order both run (internal/acme/acme.go), for one fleet.       *)
(* Every process of the manager runs one worker and one renewer; they      *)
(* share the tables, and each store call is a query of its own.            *)
(*                                                                         *)
(* A certificate's material is the number of the CA order it came from, 0  *)
(* for an uploaded one.  A publish is the read of the certificates and,    *)
(* later, the commit; what can go wrong in between, and the publishes of   *)
(* administrators, are in Publishing.                                      *)
(***************************************************************************)
EXTENDS Integers, FiniteSets

CONSTANTS
    Name,       \* names of certificates, unique in the fleet
    Domain,     \* the DNS names of an order, one authorization each
    Worker,     \* job workers
    Renewer,    \* renewal loops
    Process,    \* processes of the manager, each a set of workers and renewers
    NoJob,      \* no row in acme_jobs
    NoCert,     \* no row in certificates under a name
    MaxJobs,    \* bound: rows of acme_jobs
    MaxOrders,  \* bound: orders the CA accepts
    MaxRows,    \* bound: rows of certificates ever created
    MaxCrashes  \* bound: processes that die

ASSUME IssuanceAssumption ==
    /\ MaxJobs \in Nat /\ MaxOrders \in Nat /\ MaxRows \in Nat /\ MaxCrashes \in Nat
    /\ Worker \cap Renewer = {}
    /\ Process \subseteq SUBSET (Worker \cup Renewer)

Actor    == Worker \cup Renewer
Job      == 1..MaxJobs
Order    == 1..MaxOrders
Material == 0..MaxOrders
RowId    == 1..MaxRows

Row     == [id : RowId, source : {"acme", "upload"}, material : Material]
Listed  == [name : Name, id : RowId]  \* what a renewer keeps of a row it listed
JobRow  == [status : {"pending", "running", "succeeded", "failed"},
            name : Name, cert : RowId \cup {0}]
Bundle  == RowId \X Material         \* a certificate as a revision has it

ASSUME NullAssumption == NoCert \notin Row \cup Listed /\ NoJob \notin JobRow

VARIABLES
    jobs,      \* acme_jobs, by id
    certs,     \* certificates, by name
    rows,      \* ids of certificates handed out
    due,       \* material past two thirds of its lifetime
    txt,       \* TXT records in the DNS: <<domain, order>>
    orders,    \* orders the CA has accepted
    served,    \* the certificates in the published revision
    act,       \* where each worker and renewer is, and what it holds
    crashes,   \* processes that died so far
    abandoned, \* jobs nobody will finish: their process died, or the last
               \* update of their row failed (history)
    leaked,    \* records nobody will remove, and why is not the code (history)
    landed     \* rows that were in some published revision (history)

tables  == <<jobs, certs, rows>>
ca      == <<due, txt, orders>>
history == <<crashes, abandoned, leaked, landed>>
vars    == <<tables, ca, served, act, history>>

Pc == {"idle", "next", "load", "authorize", "wait", "cleanup",
       "save", "mark", "read", "commit", "fail"}

ActorState ==
    [pc : Pc, job : Job \cup {0}, row : Listed \cup {NoCert}, todo : SUBSET Listed,
     order : Order \cup {0}, left : SUBSET Domain, planted : SUBSET Domain,
     ok : BOOLEAN, id : RowId \cup {0}, renewed : BOOLEAN, snap : SUBSET Bundle]

Idle == [pc |-> "idle", job |-> 0, row |-> NoCert, todo |-> {}, order |-> 0,
         left |-> {}, planted |-> {}, ok |-> FALSE, id |-> 0, renewed |-> FALSE,
         snap |-> {}]

Existing == {n \in Name : certs[n] # NoCert}
Current  == {<<certs[n].id, certs[n].material>> : n \in Existing}

StatusOf(j) == IF jobs[j] = NoJob THEN "absent" ELSE jobs[j].status

Init ==
    /\ jobs = [j \in Job |-> NoJob]
    /\ certs = [n \in Name |-> NoCert]
    /\ rows = 0
    /\ due = {}
    /\ txt = {}
    /\ orders = 0
    /\ served = {}
    /\ act = [a \in Actor |-> Idle]
    /\ crashes = 0
    /\ abandoned = {}
    /\ leaked = {}
    /\ landed = {}

-----------------------------------------------------------------------------
(* Administrators and time.                                                *)

\* handleRequestACMECertificate: a pending row under the next id.
RequestCertificate(n) ==
    /\ \E j \in Job :
          /\ jobs[j] = NoJob
          /\ \A k \in Job : k < j => jobs[k] # NoJob
          /\ jobs' = [jobs EXCEPT ![j] = [status |-> "pending", name |-> n, cert |-> 0]]
    /\ UNCHANGED <<certs, rows, ca, served, act, history>>

\* handleCreateCertificate; a name in use is a 409.
UploadCertificate(n) ==
    /\ n \notin Existing
    /\ rows < MaxRows
    /\ rows' = rows + 1
    /\ certs' = [certs EXCEPT ![n] = [id |-> rows + 1, source |-> "upload", material |-> 0]]
    /\ UNCHANGED <<jobs, ca, served, act, history>>

\* Mutant: the job keeps the id of the deleted row.
DeleteCertificateOnly(n) ==
    /\ n \in Existing
    /\ certs' = [certs EXCEPT ![n] = NoCert]
    /\ UNCHANGED <<jobs, rows, ca, served, act, history>>

\* The row goes, and cert_id of the job it came from is set to NULL.
DeleteCertificate(n) ==
    /\ n \in Existing
    /\ certs' = [certs EXCEPT ![n] = NoCert]
    /\ jobs' = [j \in Job |-> IF jobs[j] # NoJob /\ jobs[j].cert = certs[n].id
                              THEN [jobs[j] EXCEPT !.cert = 0]
                              ELSE jobs[j]]
    /\ UNCHANGED <<rows, ca, served, act, history>>

\* Two thirds of a certificate's lifetime have passed (shouldRenew).
ComesDue(m) ==
    /\ m \notin due
    /\ \E n \in Existing : certs[n].material = m
    /\ due' = due \cup {m}
    /\ UNCHANGED <<tables, txt, orders, served, act, history>>

-----------------------------------------------------------------------------
(* What workers and renewers have in common: one DNS-01 order.             *)

To(a, fields) == act' = [act EXCEPT ![a] = fields]

\* An error: a job is marked failed, a renewal pass goes on to the next row.
Fails(a) ==
    IF a \in Worker
    THEN [Idle EXCEPT !.pc = "fail", !.job = act[a].job]
    ELSE [Idle EXCEPT !.pc = "next", !.todo = act[a].todo, !.renewed = act[a].renewed]

\* Mutant: an early return that marks nothing.
LoadFailsSilently(a) ==
    /\ act[a].pc = "load"
    /\ To(a, Idle)
    /\ UNCHANGED <<tables, ca, served, history>>

\* The account, its key or the DNS provider cannot be loaded, or the database
\* or the CA refuses, before anything is planted.
LoadFails(a) ==
    /\ act[a].pc = "load"
    /\ To(a, Fails(a))
    /\ UNCHANGED <<tables, ca, served, history>>

AuthorizeOrder(a) ==
    /\ act[a].pc = "load"
    /\ orders < MaxOrders
    /\ orders' = orders + 1
    /\ To(a, [act[a] EXCEPT !.pc = "authorize", !.order = orders + 1,
                            !.left = Domain, !.planted = {}])
    /\ UNCHANGED <<tables, due, txt, served, history>>

\* The CA remembers that this account proved the domain.
AlreadyValid(a) ==
    /\ act[a].pc = "authorize"
    /\ \E d \in act[a].left : To(a, [act[a] EXCEPT !.left = @ \ {d}])
    /\ UNCHANGED <<tables, ca, served, history>>

Present(a) ==
    /\ act[a].pc = "authorize"
    /\ \E d \in act[a].left :
          /\ txt' = txt \cup {<<d, act[a].order>>}
          /\ To(a, [act[a] EXCEPT !.pc = "wait", !.left = @ \ {d}, !.planted = @ \cup {d}])
    /\ UNCHANGED <<tables, due, orders, served, history>>

\* The DNS API answers with an error, perhaps after it created the record; the
\* record is not in planted.
PresentFails(a) ==
    /\ act[a].pc = "authorize"
    /\ \E d \in act[a].left : \E made \in SUBSET {<<d, act[a].order>>} :
          /\ txt' = txt \cup made
          /\ leaked' = leaked \cup made
    /\ To(a, [act[a] EXCEPT !.pc = "cleanup", !.left = {}])
    /\ UNCHANGED <<tables, due, orders, served, crashes, abandoned, landed>>

\* Accept and WaitAuthorization: the CA has seen the record.
WaitAuthorization(a) ==
    /\ act[a].pc = "wait"
    /\ To(a, [act[a] EXCEPT !.pc = "authorize"])
    /\ UNCHANGED <<tables, ca, served, history>>

\* Mutant: the records are only removed at the end of a complete order.
AuthorizationFailsUncleaned(a) ==
    /\ act[a].pc \in {"wait", "authorize"}
    /\ To(a, Fails(a))
    /\ UNCHANGED <<tables, ca, served, history>>

\* It has not, in time; or an error, here or in GetAuthorization.
AuthorizationFails(a) ==
    /\ act[a].pc \in {"wait", "authorize"}
    /\ To(a, [act[a] EXCEPT !.pc = "cleanup", !.left = {}])
    /\ UNCHANGED <<tables, ca, served, history>>

\* GetOrder, CreateOrderCert or pollAndFetch: the certificate is here.
Finalize(a) ==
    /\ act[a].pc = "authorize" /\ act[a].left = {}
    /\ To(a, [act[a] EXCEPT !.pc = "cleanup", !.ok = TRUE])
    /\ UNCHANGED <<tables, ca, served, history>>

\* The deferred loop over planted: every record is tried, and a failure makes
\* an error of a success.
CleanUp(a) ==
    /\ act[a].pc = "cleanup"
    /\ \E kept \in SUBSET {<<d, act[a].order>> : d \in act[a].planted} :
          /\ txt' = txt \ ({<<d, act[a].order>> : d \in act[a].planted} \ kept)
          /\ leaked' = leaked \cup kept
          /\ To(a, IF act[a].ok /\ kept = {}
                   THEN [act[a] EXCEPT !.pc = "save", !.planted = {}, !.ok = FALSE]
                   ELSE Fails(a))
    /\ UNCHANGED <<tables, due, orders, served, crashes, abandoned, landed>>

\* The store refuses the certificate, whatever the reason.
SaveFails(a) ==
    /\ act[a].pc = "save"
    /\ To(a, Fails(a))
    /\ UNCHANGED <<tables, ca, served, history>>

\* publishRevisionForFleet: the certificates are read ...
ReadCerts(a) ==
    /\ act[a].pc = "read"
    /\ To(a, [act[a] EXCEPT !.pc = "commit", !.snap = Current])
    /\ UNCHANGED <<tables, ca, served, history>>

\* ... and the revision committed.
Commit(a) ==
    /\ act[a].pc = "commit"
    /\ served' = act[a].snap
    /\ landed' = landed \cup {b[1] : b \in act[a].snap}
    /\ To(a, Idle)
    /\ UNCHANGED <<tables, ca, crashes, abandoned, leaked>>

\* Mutant: a failed publish is only logged, as in a renewal.
PublishFailsLogged(a) ==
    /\ act[a].pc \in {"read", "commit"}
    /\ To(a, Idle)
    /\ UNCHANGED <<tables, ca, served, history>>

\* 409, a host that does not compile, any error: a job has failed, a renewal
\* pass is over.
PublishFails(a) ==
    /\ act[a].pc \in {"read", "commit"}
    /\ To(a, IF a \in Worker THEN Fails(a) ELSE Idle)
    /\ UNCHANGED <<tables, ca, served, history>>

-----------------------------------------------------------------------------
(* A worker: runACMEJob.                                                   *)

\* Mutants: a running job is claimed again; so is a failed one.
IsUnfinished(j) == StatusOf(j) \in {"pending", "running"}
IsRetried(j)    == StatusOf(j) \in {"pending", "failed"}


IsNextJob(j) ==
    /\ StatusOf(j) = "pending"
    /\ \A k \in Job : k < j => StatusOf(k) # "pending"

\* ClaimNextACMEJob, one UPDATE.
Claim(w) ==
    /\ act[w].pc = "idle"
    /\ \E j \in Job :
          /\ IsNextJob(j)
          /\ jobs' = [jobs EXCEPT ![j].status = "running"]
          /\ To(w, [Idle EXCEPT !.pc = "load", !.job = j])
    /\ UNCHANGED <<certs, rows, ca, served, history>>

\* The name must be free (UNIQUE (fleet_id, name)).
CreateCertificate(w) ==
    LET n == jobs[act[w].job].name IN
    /\ act[w].pc = "save"
    /\ n \notin Existing
    /\ rows < MaxRows
    /\ rows' = rows + 1
    /\ certs' = [certs EXCEPT ![n] = [id |-> rows + 1, source |-> "acme",
                                      material |-> act[w].order]]
    /\ To(w, [Idle EXCEPT !.pc = "mark", !.job = act[w].job, !.id = rows + 1])
    /\ UNCHANGED <<jobs, ca, served, history>>

\* cert_id references certificates: the row must still be there.
MarkSucceeded(w) ==
    /\ act[w].pc = "mark"
    /\ \E n \in Existing : certs[n].id = act[w].id
    /\ jobs' = [jobs EXCEPT ![act[w].job] = [@ EXCEPT !.status = "succeeded", !.cert = act[w].id]]
    /\ To(w, [Idle EXCEPT !.pc = "read", !.job = act[w].job])
    /\ UNCHANGED <<certs, rows, ca, served, history>>

MarkSucceededFails(w) ==
    /\ act[w].pc = "mark"
    /\ To(w, Fails(w))
    /\ UNCHANGED <<tables, ca, served, history>>

\* Whatever failed, and whatever the row says by now.
MarkFailed(w) ==
    /\ act[w].pc = "fail"
    /\ jobs' = [jobs EXCEPT ![act[w].job].status = "failed"]
    /\ To(w, Idle)
    /\ UNCHANGED <<certs, rows, ca, served, history>>

\* Only logged.
MarkFailedFails(w) ==
    /\ act[w].pc = "fail"
    /\ abandoned' = abandoned \cup {act[w].job}
    /\ To(w, Idle)
    /\ UNCHANGED <<tables, ca, served, crashes, leaked, landed>>

-----------------------------------------------------------------------------
(* A renewer: renewOnce.                                                   *)

IsDue(n) == certs[n].source = "acme" /\ certs[n].material \in due

\* ListAllACMECertificates, and which of them are due.
ListDue(r) ==
    /\ act[r].pc = "idle"
    /\ \E n \in Existing : IsDue(n)
    /\ To(r, [Idle EXCEPT !.pc = "next",
                          !.todo = {[name |-> n, id |-> certs[n].id] :
                                        n \in {m \in Existing : IsDue(m)}}])
    /\ UNCHANGED <<tables, ca, served, history>>

NextRow(r) ==
    /\ act[r].pc = "next"
    /\ \/ \E c \in act[r].todo :
             To(r, [act[r] EXCEPT !.pc = "load", !.row = c, !.todo = @ \ {c}])
       \/ /\ act[r].todo = {}
          /\ To(r, IF act[r].renewed THEN [Idle EXCEPT !.pc = "read"] ELSE Idle)
    /\ UNCHANGED <<tables, ca, served, history>>

\* Mutant: the row is found by its name.
IsNamed(n, c) == n \in Existing /\ n = c.name

\* UpdateCertificateMaterial finds the row by its id.
IsRow(n, c) == n \in Existing /\ certs[n].id = c.id

UpdateMaterial(r) ==
    /\ act[r].pc = "save"
    /\ \E n \in Name :
          /\ IsRow(n, act[r].row)
          /\ certs' = [certs EXCEPT ![n].material = act[r].order]
    /\ To(r, [Idle EXCEPT !.pc = "next", !.todo = act[r].todo, !.renewed = TRUE])
    /\ UNCHANGED <<jobs, rows, ca, served, history>>

-----------------------------------------------------------------------------
(* A process dies, with its worker and its renewer; what they planted stays. *)
Crash(P) ==
    LET dead == {a \in P : act[a].pc # "idle"} IN
    /\ crashes < MaxCrashes
    /\ dead # {}
    /\ act' = [a \in Actor |-> IF a \in P THEN Idle ELSE act[a]]
    /\ abandoned' = abandoned \cup {act[w].job : w \in dead \cap Worker}
    /\ leaked' = leaked \cup
                 UNION {{<<d, act[a].order>> : d \in act[a].planted} : a \in dead}
    /\ crashes' = crashes + 1
    /\ UNCHANGED <<tables, ca, served, landed>>

-----------------------------------------------------------------------------
Issue(a) ==
    \/ LoadFails(a)
    \/ AuthorizeOrder(a)
    \/ AlreadyValid(a)
    \/ Present(a)
    \/ PresentFails(a)
    \/ WaitAuthorization(a)
    \/ AuthorizationFails(a)
    \/ Finalize(a)
    \/ CleanUp(a)
    \/ SaveFails(a)
    \/ ReadCerts(a)
    \/ Commit(a)
    \/ PublishFails(a)

RunJobs(w) ==
    \/ Claim(w)
    \/ CreateCertificate(w)
    \/ MarkSucceeded(w)
    \/ MarkSucceededFails(w)
    \/ MarkFailed(w)
    \/ MarkFailedFails(w)
    \/ Issue(w)

Renew(r) ==
    \/ ListDue(r)
    \/ NextRow(r)
    \/ UpdateMaterial(r)
    \/ Issue(r)

Next ==
    \/ \E n \in Name : RequestCertificate(n) \/ UploadCertificate(n) \/ DeleteCertificate(n)
    \/ \E m \in Order : ComesDue(m)
    \/ \E w \in Worker : RunJobs(w)
    \/ \E r \in Renewer : Renew(r)
    \/ \E P \in Process : Crash(P)

Spec == Init /\ [][Next]_vars

\* The workers' and renewers' goroutines run, and each of their calls returns.
FairSpec ==
    /\ Spec
    /\ \A w \in Worker : WF_vars(RunJobs(w))
    /\ \A r \in Renewer : WF_vars(Renew(r))

-----------------------------------------------------------------------------
(* Properties.                                                             *)

\* Types, and the foreign key: the cert_id of a job names a row that exists.
TypeOK ==
    /\ jobs \in [Job -> JobRow \cup {NoJob}]
    /\ certs \in [Name -> Row \cup {NoCert}]
    /\ rows \in 0..MaxRows
    /\ due \subseteq Order
    /\ txt \subseteq Domain \X Order
    /\ orders \in 0..MaxOrders
    /\ served \subseteq Bundle
    /\ act \in [Actor -> ActorState]
    /\ crashes \in 0..MaxCrashes
    /\ abandoned \subseteq Job
    /\ leaked \subseteq Domain \X Order
    /\ landed \subseteq RowId
    /\ \A j \in Job : jobs[j] # NoJob /\ jobs[j].cert # 0 =>
          \E n \in Existing : certs[n].id = jobs[j].cert

\* SKIP LOCKED and the status it checks keep two replicas off one job, and what
\* a worker works on is never pending or already failed.
OneWorkerPerJob ==
    \A w \in Worker : act[w].pc # "idle" =>
        /\ StatusOf(act[w].job) \in {"running", "succeeded"}
        /\ \A v \in Worker \ {w} : act[v].job # act[w].job

\* Nothing claims a running job again (ClaimNextACMEJob asks for pending ones),
\* so every way out of runACMEJob must leave another status behind: a running job
\* is in some worker's hands, unless its process died or its last UPDATE failed.
NoJobForgotten ==
    \A j \in Job \ abandoned : StatusOf(j) = "running" => \E w \in Worker : act[w].job = j

\* A job in progress has its worker, and no two.
JobsHaveOneWorker == OneWorkerPerJob /\ NoJobForgotten

\* "The issuer cleans up its TXT records before returning, even on error": a
\* record in the DNS belongs to an order in progress, unless the DNS API failed
\* or the process died.
NoRecordLeft ==
    \A rec \in txt \ leaked : \E a \in Actor :
        /\ act[a].pc \in {"authorize", "wait", "cleanup"}
        /\ act[a].order = rec[2]
        /\ rec[1] \in act[a].planted

\* A job that says succeeded, with nobody working on it any more, has had its
\* certificate in a published revision.
SucceededIsServed ==
    \A j \in Job \ abandoned :
        /\ StatusOf(j) = "succeeded"
        /\ jobs[j].cert # 0
        /\ \A w \in Worker : act[w].job # j
        => jobs[j].cert \in landed

\* docs/acme.md:17: only "acme" rows are touched by the renewal, however stale
\* the list it works from: an uploaded certificate stays what was uploaded
\* until it is deleted, also under the name of a deleted one.
UploadsAreKept ==
    [][\A n \in Existing : certs[n].source = "upload" =>
          certs'[n] \in {certs[n], NoCert}]_vars

\* Workers that share acme_jobs implement a queue nobody's job is lost in, as
\* long as they live and the last update of the job's row succeeds.
Queue == INSTANCE WorkQueue WITH
    Item   <- Job,
    NoItem <- 0,
    status <- [j \in Job |-> StatusOf(j)],
    holder <- [w \in Worker |-> act[w].job]

ImplementsQueue == Queue!Spec

\* docs/acme.md:32 ("poll until status is succeeded or failed"): a requested
\* job gets there, unless it was abandoned.
EveryJobFinishes ==
    \A j \in Job :
        jobs[j] # NoJob ~> StatusOf(j) \in {"succeeded", "failed"} \/ j \in abandoned

\* docs/acme.md:69-74: after a renewal a new revision is published so that the
\* refreshed certificate reaches agents, and failures are retried on the next
\* tick.  So what agents are served of a row does not lag behind it until the
\* row is due again.
Stale(n) ==
    /\ n \in Existing
    /\ certs[n].material \notin due
    /\ \E m \in Material \ {certs[n].material} : <<certs[n].id, m>> \in served

RenewalReachesAgents == \A n \in Name : Stale(n) ~> ~Stale(n)
=============================================================================
