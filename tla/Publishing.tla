----------------------------- MODULE Publishing -----------------------------
(***************************************************************************)
(* How a fleet's revisions come to be: the publish and rollback handlers   *)
(* (internal/api/admin_handlers.go), the ACME worker's and renewer's       *)
(* automatic publish (cmd/manager-api/acme_renew.go), and the store calls  *)
(* they make.  No lock spans a handler: every store call is a query of its *)
(* own, so two requests (or two replicas of the manager) interleave        *)
(* between any two of them.  Only CreateRevision is a transaction; the     *)
(* UNIQUE (fleet_id, number) constraint is what orders the publishers.     *)
(*                                                                         *)
(* The fleet's proxy hosts and certificates are abstracted to a version    *)
(* each, advanced by every edit: what matters here is which state of them  *)
(* a revision captured.  An administrator chooses the fleet's id, so a     *)
(* deleted fleet may come back under the same id: each life is counted.    *)
(***************************************************************************)
EXTENDS Integers, FiniteSets

CONSTANTS
    Publisher,    \* requests and background publishes that may run at once
    Broken,       \* the host versions compiler.Compile rejects
    NoRevision,   \* no row in config_revisions
    MaxNumber,    \* bound: revision numbers
    MaxHostEdits, \* bound: edits of the proxy hosts per life
    MaxCertEdits, \* bound: edits of the certificates per life
    MaxLives      \* bound: times the fleet's id is used

ASSUME BoundsAssumption ==
    /\ MaxNumber \in Nat \ {0}
    /\ MaxHostEdits \in Nat
    /\ MaxCertEdits \in Nat
    /\ MaxLives \in Nat \ {0}

Number      == 1..MaxNumber
Life        == 1..MaxLives
HostVersion == 0..MaxHostEdits
CertVersion == 0..MaxCertEdits

\* A row of config_revisions: what it captured, and for a rollback the number
\* its notes name ("rollback to revision N"); 0 for any other publish.
Revision == [hosts : HostVersion, certs : CertVersion, from : Number \cup {0}]

ASSUME NoRevisionAssumption == NoRevision \notin Revision

VARIABLES
    fleet,      \* is there a row in fleets?
    hosts,      \* version of the fleet's proxy_hosts rows
    certs,      \* version of the fleet's certificates rows
    revs,       \* config_revisions, by number
    published,  \* number of fleets.published_revision_id, 0 for NULL
    announced,  \* revisions a webhook job was queued for
    pub,        \* where each publisher is, and what it has read
    life,       \* how often the fleet's id has been created (history)
    landed,     \* revisions created in this life (history)
    crossed     \* did a publisher begun in an earlier life land in this one? (history)

source == <<fleet, hosts, certs, life>>
store  == <<revs, published, landed>>
vars   == <<source, store, announced, pub, crossed>>

Kind == {"publish", "rollback", "auto"}
Pc   == {"idle", "hosts", "certs", "exists", "number", "create", "fire"}

PublisherState ==
    [pc : Pc, kind : Kind, hosts : HostVersion, certs : CertVersion,
     from : Number \cup {0}, number : Number \cup {0}, life : Life]

Idle == [pc |-> "idle", kind |-> "publish", hosts |-> 0, certs |-> 0,
         from |-> 0, number |-> 0, life |-> 1]

Existing == {n \in Number : revs[n] # NoRevision}

-----------------------------------------------------------------------------
Init ==
    /\ fleet = TRUE
    /\ hosts = 0
    /\ certs = 0
    /\ revs = [n \in Number |-> NoRevision]
    /\ published = 0
    /\ announced = {}
    /\ pub = [p \in Publisher |-> Idle]
    /\ life = 1
    /\ landed = 0
    /\ crossed = FALSE

-----------------------------------------------------------------------------
(* The fleet and what it is compiled from.                                 *)

\* Any create, update or delete of a proxy host.
EditHosts ==
    /\ fleet
    /\ hosts < MaxHostEdits
    /\ hosts' = hosts + 1
    /\ UNCHANGED <<fleet, certs, life, store, announced, pub, crossed>>

\* A certificate is uploaded, issued, renewed or deleted.
EditCerts ==
    /\ fleet
    /\ certs < MaxCertEdits
    /\ certs' = certs + 1
    /\ UNCHANGED <<fleet, hosts, life, store, announced, pub, crossed>>

CreateFleet ==
    /\ ~fleet
    /\ life < MaxLives
    /\ fleet' = TRUE
    /\ life' = life + 1
    /\ UNCHANGED <<hosts, certs, store, announced, pub, crossed>>

\* Mutant: the pointer to the published revision outlives the rows.
DeleteFleetKeepsPointer ==
    /\ fleet
    /\ fleet' = FALSE
    /\ hosts' = 0
    /\ certs' = 0
    /\ revs' = [n \in Number |-> NoRevision]
    /\ announced' = {}
    /\ landed' = 0
    /\ crossed' = FALSE
    /\ UNCHANGED <<published, pub, life>>

\* ON DELETE CASCADE: hosts, certificates, revisions, webhooks and their jobs.
DeleteFleet ==
    /\ fleet
    /\ fleet' = FALSE
    /\ hosts' = 0
    /\ certs' = 0
    /\ revs' = [n \in Number |-> NoRevision]
    /\ published' = 0
    /\ announced' = {}
    /\ landed' = 0
    /\ crossed' = FALSE
    /\ UNCHANGED <<pub, life>>

-----------------------------------------------------------------------------
(* A publish, query by query.                                              *)

Begin(p, fields) ==
    /\ pub[p].pc = "idle"
    /\ pub' = [pub EXCEPT ![p] = [fields EXCEPT !.life = life]]
    /\ UNCHANGED <<source, store, announced, crossed>>

Finish(p) == pub' = [pub EXCEPT ![p] = Idle]

\* handlePublishRevision: GetFleet answers 404 when there is no fleet.
BeginPublish(p) ==
    /\ fleet
    /\ Begin(p, [Idle EXCEPT !.pc = "hosts"])

\* publishRevisionForFleet: no GetFleet.
BeginAuto(p) == Begin(p, [Idle EXCEPT !.pc = "hosts", !.kind = "auto"])

\* Mutant: a rollback takes the hosts of the old revision and today's certificates.
BeginRollbackRecompiling(p) ==
    \E n \in Existing :
        Begin(p, [Idle EXCEPT !.pc = "certs", !.kind = "rollback", !.from = n,
                              !.hosts = revs[n].hosts])

\* handleRollback copies everything but the number from an older revision.
BeginRollback(p) ==
    \E n \in Existing :
        Begin(p, [Idle EXCEPT !.pc = "exists", !.kind = "rollback", !.from = n,
                              !.hosts = revs[n].hosts, !.certs = revs[n].certs])

\* ListProxyHosts; of a fleet that is gone, an empty list.
ReadHosts(p) ==
    /\ pub[p].pc = "hosts"
    /\ pub' = [pub EXCEPT ![p] = [@ EXCEPT !.pc = "certs", !.hosts = hosts]]
    /\ UNCHANGED <<source, store, announced, crossed>>

\* Mutant: the certificates come from a replica of the database that lags behind.
ReadCertsFromReplica(p) ==
    /\ pub[p].pc = "certs"
    /\ \E c \in 0..certs :
          pub' = IF pub[p].hosts \notin Broken
                 THEN [pub EXCEPT ![p] = [@ EXCEPT !.pc = "exists", !.certs = c]]
                 ELSE [pub EXCEPT ![p] = Idle]
    /\ UNCHANGED <<source, store, announced, crossed>>

\* ListCertificates, then compiler.Compile: 400 when the hosts do not compile.
CompilesAnything(h) == TRUE \* mutant
Compiles(h) == h \notin Broken
ReadCerts(p) ==
    /\ pub[p].pc = "certs"
    /\ pub' = IF Compiles(pub[p].hosts)
              THEN [pub EXCEPT ![p] = [@ EXCEPT !.pc = "exists", !.certs = certs]]
              ELSE [pub EXCEPT ![p] = Idle]
    /\ UNCHANGED <<source, store, announced, crossed>>

\* Mutant: any number above those in use.
IsSomeHigherNumber(n) == \A m \in Existing : m < n

\* One more than the largest number in use, 1 when there is none.
IsNextNumber(n) ==
    /\ \A m \in Existing : m < n
    /\ n = 1 \/ n - 1 \in Existing

\* NextRevisionNumber is two queries: does the fleet exist (404 if not), and
\* what is its largest number?
FleetExists(p) ==
    /\ pub[p].pc = "exists"
    /\ IF fleet THEN pub' = [pub EXCEPT ![p].pc = "number"] ELSE Finish(p)
    /\ UNCHANGED <<source, store, announced, crossed>>

NextRevisionNumber(p) ==
    /\ pub[p].pc = "number"
    /\ \E n \in Number :
          /\ IsNextNumber(n)
          /\ pub' = [pub EXCEPT ![p] = [@ EXCEPT !.pc = "create", !.number = n]]
    /\ UNCHANGED <<source, store, announced, crossed>>

\* Mutants: no constraint; one that looks at the newest revision only.
NeverTaken(n) == FALSE
IsPublished(n) == n = published

\* The UNIQUE (fleet_id, number) constraint.
Taken(n) == n \in Existing

\* 404 or 409, and the request is over.
CreateRevisionFails(p) ==
    /\ pub[p].pc = "create"
    /\ ~fleet \/ Taken(pub[p].number)
    /\ Finish(p)
    /\ UNCHANGED <<source, store, announced, crossed>>

\* Mutant: a rollback points the fleet back at the old row.
NowPublishedRepointed(q) == IF q.kind = "rollback" THEN q.from ELSE q.number
NowPublished(q) == q.number

\* One transaction: INSERT the row, point the fleet at it.
CreateRevision(p) ==
    LET q == pub[p] IN
    /\ q.pc = "create"
    /\ fleet
    /\ ~Taken(q.number)
    /\ revs' = [revs EXCEPT ![q.number] =
                    [hosts |-> q.hosts, certs |-> q.certs, from |-> q.from]]
    /\ published' = NowPublished(q)
    /\ landed' = landed + 1
    /\ crossed' = (crossed \/ q.life # life)
    /\ IF q.kind = "auto"
       THEN Finish(p)
       ELSE pub' = [pub EXCEPT ![p].pc = "fire"]
    /\ UNCHANGED <<source, announced>>

\* fireWebhooks: a job for each webhook of the fleet, if there is one.
FireWebhooks(p) ==
    /\ pub[p].pc = "fire"
    /\ announced' = IF fleet THEN announced \cup {pub[p].number} ELSE announced
    /\ crossed' = (crossed \/ (fleet /\ pub[p].life # life))
    /\ Finish(p)
    /\ UNCHANGED <<source, store>>

\* The client goes away, a query fails or the process dies between two queries.
Abort(p) ==
    /\ pub[p].pc # "idle"
    /\ Finish(p)
    /\ UNCHANGED <<source, store, announced, crossed>>

-----------------------------------------------------------------------------
Next ==
    \/ EditHosts
    \/ EditCerts
    \/ CreateFleet
    \/ DeleteFleet
    \/ \E p \in Publisher :
        \/ BeginPublish(p)
        \/ BeginAuto(p)
        \/ BeginRollback(p)
        \/ ReadHosts(p)
        \/ ReadCerts(p)
        \/ FleetExists(p)
        \/ NextRevisionNumber(p)
        \/ CreateRevisionFails(p)
        \/ CreateRevision(p)
        \/ FireWebhooks(p)
        \/ Abort(p)

Spec == Init /\ [][Next]_vars

-----------------------------------------------------------------------------
(* Properties.                                                             *)

\* Types, and the foreign keys: without a fleet nothing is left of it,
\* published_revision_id names a row that exists, and nobody creates a
\* revision without a number.
TypeOK ==
    /\ fleet \in BOOLEAN
    /\ hosts \in HostVersion
    /\ certs \in CertVersion
    /\ revs \in [Number -> Revision \cup {NoRevision}]
    /\ published \in Existing \cup {0}
    /\ announced \subseteq Number
    /\ pub \in [Publisher -> PublisherState]
    /\ life \in Life
    /\ landed \in Nat
    /\ crossed \in BOOLEAN
    /\ ~fleet => Existing = {} /\ hosts = 0 /\ certs = 0 /\ announced = {}
    /\ \A p \in Publisher : pub[p].pc \in {"create", "fire"} => pub[p].number # 0

\* "Every published revision keeps a unique, monotonic number": however
\* publishes, rollbacks, conflicts and crashes interleave, the numbers have no
\* gap and the newest revision is the published one, as long as no request
\* that outlived the fleet's deletion landed in its successor.
HistoryIsGapless ==
    ~crossed => Existing = 1..published

\* Nobody is told "201" for a revision another publisher has overwritten:
\* there are as many rows as transactions that committed.  (Two publishers
\* that read the same number cannot both succeed.)
EveryPublishHasItsRevision ==
    landed = Cardinality(Existing)

\* A revision is never rewritten while its fleet lives: what an agent fetched
\* under a number stays what the history shows under it.
RevisionsAreImmutable ==
    [][fleet' => \A n \in Existing : revs'[n] = revs[n]]_vars

\* Only publishes that overlap can put old content back: what is read after a
\* revision was committed is no older than what that revision holds, the hosts and
\* the certificates alike, automatic publishes and rollbacks included.
LaterReadsAreNewer ==
    [][\A p \in Publisher : \A n \in Existing : ~crossed =>
          /\ pub[p].pc = "hosts" /\ pub'[p].pc = "certs" =>
                pub'[p].hosts >= revs[n].hosts
          /\ pub[p].pc = "certs" /\ pub'[p].pc = "exists" =>
                pub'[p].certs >= revs[n].certs]_vars

\* A rollback is a copy of the revision its notes name, under a later number,
\* whatever was edited or published while the request ran.
RollbackIsACopy ==
    ~crossed =>
        \A n \in Existing : revs[n].from # 0 =>
            /\ revs[n].from < n
            /\ revs[n].from \in Existing
            /\ revs[n].hosts = revs[revs[n].from].hosts
            /\ revs[n].certs = revs[revs[n].from].certs

\* No revision holds hosts the compiler rejects, rollbacks included.
RevisionsCompile ==
    \A n \in Existing : revs[n].hosts \notin Broken

\* What docs/labels.md:26 says of a publish ("snapshots the fleet's current
\* proxy hosts AND certificates"), read across publishes: outside a rollback a
\* later revision never carries older certificates than the one it supersedes.
PublishedCertsNeverRegress ==
    [][published' # published /\ published # 0 /\ published' # 0
       /\ revs'[published'].from = 0
       => revs'[published'].certs >= revs[published].certs]_vars

-----------------------------------------------------------------------------
(* What all this implements, in each life of the fleet until a request     *)
(* begun in an earlier one lands in it.                                    *)

SnapshotOf(r) == [hosts |-> r.hosts, certs |-> r.certs]

Open == fleet /\ ~crossed

Entries == [n \in 1..(IF Open THEN published ELSE 0) |-> SnapshotOf(revs[n])]

Log == INSTANCE RevisionLog WITH
    Snapshot   <- [hosts : HostVersion, certs : CertVersion],
    NoSnapshot <- NoRevision,
    open       <- Open,
    log        <- Entries,
    served     <- IF Open /\ published # 0 THEN SnapshotOf(revs[published]) ELSE NoRevision,
    announced  <- IF Open THEN announced ELSE {}

\* Racing publishes, rollbacks, conflicts and crashes are an append-only log
\* whose last entry is what handleGetConfig serves.
ImplementsLog == Log!Spec
=============================================================================
