# ProxyDock: a formal model of the fleet manager and its provider

ProxyDock is a control plane for fleets of Traefik proxies. A manager
(`apps/api`, Go, PostgreSQL) keeps proxy hosts and certificates, compiles them
into numbered revisions and serves each agent its share; a Traefik plugin
(`providers/traefik-fleet`) polls the manager, hands the configuration to
Traefik and keeps a copy on disk. This directory holds TLA+ models of that
program, TLC runs over small instances, and proofs checked by TLAPS. Every
definition that models code is mapped to its source lines in `PROJECT.json`.

## 1. Inventory

| Component | State | Operations | Talks to | What makes it correct |
|---|---|---|---|---|
| Revisions (`admin_handlers.go`, `acme_renew.go`, `postgres.go`) | `config_revisions`, `fleets.published_revision_id` | publish, rollback, automatic publish | store queries only; no lock spans a handler | numbers unique, without gaps, monotone; revisions immutable; a rollback is a copy; no answered publish is lost; no older certificates published over newer ones |
| Agent endpoint (`agent_handlers.go`, `labels.go`) | none of its own; `agents.labels`, `last_revision_seen`, `last_error` | config poll, heartbeat | revisions, agents, compiler | never mixes revisions; 304 only for the bytes the agent holds; certificates served with their keys |
| Provider plugin (`fleet.go`, `client.go`, `cache.go`) | `lastETag`, `lastApplied`, cache file | run, poll, send, save, heartbeat | HTTP to the manager, `cfgChan` to Traefik, a file | never blanks or regresses Traefik; restarts route from the cache; what is reported is what runs; converges |
| ACME issuance (`acme_worker.go`, `acme_handlers.go`) | `acme_jobs`, `certificates` | enqueue, claim, issue, mark, publish | CA, DNS, revisions | pending -> running -> one final status; every job finishes; one certificate per job |
| ACME renewal (`acme_renew.go`) | `certificates` | hourly pass, renew, publish | CA, DNS, revisions | renewed material reaches agents; key and certificate stay a pair; failures are retried |
| ACME client (`internal/acme`) | planted TXT records | authorize, present, clean up, finalize, fetch | CA, DNS | records removed on every path |
| Webhooks (`webhook_worker.go`) | `webhook_jobs` | enqueue, claim, deliver, retry, finish | receivers | at most five attempts; every job finishes; workers do not share a job |
| Compiler (`compiler.go`) | none | Validate, Compile | labels, model | order-independent; distinct hosts stay distinct; rejects what Traefik rejects |
| Tokens (`auth.go`, `admin_tokens.go`, `api.go`) | `agent_tokens`, `admin_tokens`, by prefix | mint, revoke, look up, touch; the demo seed mints too | every request | a token works until it is revoked or deleted, and no request starts with it afterwards |
| CRUD of fleets, hosts, certificates, templates, webhooks | their tables | create, update, delete | cascades | foreign keys, unique names |
| Audit (`audit.go`) | `audit_log` | append after the handler | every mutating request | append-only; what it says happened; one entry per mutation (best-effort in the code) |
| Memory store, migrations, cryptography, DNS and Docker clients, metrics, tracing, UI | - | - | - | not concurrent logic of their own |

What is hard here: the handlers interleave between any two queries and only
`CreateRevision` is a transaction; several replicas share the queues; processes
die between steps that nothing repairs; polls race publishes and label edits;
the plugin's view of Traefik is what it sent, not what Traefik took. The list,
line by line, is `hazards` in `PROJECT.json`.

## 2. Modules

| Module | What it is |
|---|---|
| `RevisionLog` | abstract: an append-only log of snapshots, the last one served, and the revisions announced |
| `Publishing` | publishers and fleet life cycle, query by query; implements `RevisionLog` |
| `PublishingProofs` | TLAPS proofs about `Publishing` |
| `AgentConfig` | what an agent is served of a revision, as operators |
| `Replica` | abstract: three registers per agent (running, on disk) over the log |
| `Delivery` | config endpoint, heartbeat and provider loop; implements `Replica`, and its `Publish` is `RevisionLog`'s |
| `DeliveryProofs` | TLAPS proofs about `Delivery` |
| `WorkQueue` | abstract: items that workers claim, settle, release and lose to deletion |
| `Issuance` | job table, workers, renewers and the DNS-01 order they run; implements `WorkQueue` |
| `WebhookQueue` | webhook jobs, their workers and receivers; implements `WorkQueue` |
| `Compiler` | validation, names and sections of the compiler, as operators |
| `ProxyHosts` | hosts and middleware templates as administrators edit and publish them |
| `CompilerProofs` | TLAPS lemmas about the operators of `Compiler`: the order of names, what a sort may return, what a section holds |
| `ProxyHostsProofs` | TLAPS proofs about `ProxyHosts`, from those lemmas |
| `Admin` | tokens, the fleets and agents they hang on, authentication, the audit log and the demo seed |
| `AdminProofs`, `IssuanceProofs`, `WebhookQueueProofs` | TLAPS proofs about those three |
| `Promises` | TLAPS proofs of what `RevisionLog` and `WorkQueue` promise |
| `MCPublishing`, `MCDelivery`, `MCIssuance`, `MCProxyHosts`, `MCAdmin` | small instances (`WebhookQueue` is its own) |

### Publishing

State: `fleet`, `hosts`, `certs` (a version per table, advanced by every edit),
`revs` (rows by number), `published`, `announced` (webhook jobs), and per
publisher `pub[p]`: where it is and what it has read. A publisher is a
`handlePublishRevision` request, a `handleRollback` request or a
`publishRevisionForFleet` call; each action is one store query:
`BeginPublish` (GetFleet), `BeginRollback` (GetRevision), `BeginAuto`, `ReadHosts`,
`ReadCerts` (and Compile), `FleetExists` and `NextRevisionNumber` (the two queries of
that function), `CreateRevision` (the transaction) or `CreateRevisionFails` (404,
409), `FireWebhooks`, and `Abort` (error, client gone, process dead) at any point.
`DeleteFleet` cascades. A fleet id is chosen by the administrator, so the same id
can be created again; `life` counts that, and `crossed` records that a request
from an earlier life landed in the present one. The store has nothing that would
stop it, no document forbids it, and the properties about one fleet's history
are stated for histories in which it did not happen; three of them
(`EveryPublishHasItsRevision`, `RevisionsAreImmutable`, `RevisionsCompile`) hold
regardless. `RevisionLog` is therefore open only while the fleet exists and nothing
has crossed: deletion, or a late request, is its `Erase`, and a fleet created anew
under the id its `Reopen`.

### Delivery

State: the log, labels, last report of every agent; per agent the place of the
provider loop, the response being worked on, `held` (`lastApplied`, `lastETag`),
`traefik` (what Traefik runs) and the `cache` file. A configuration stands for its
ETag, a hash of the rendered bytes. `GetPublishedRevision` and `NotModified`/`Modified`
are the two queries of a poll; `FetchFails` is every reason for the provider to
keep what it has; `SendTaken` and `SendTimesOut` are the two outcomes of `send`, each
with the assignments that follow it whatever happened; `SaveCache` is atomic
because it ends in a rename; `Crash` takes Traefik with the plugin inside it.
The log in `Delivery` is the one `Publishing` implements: its `Publish` is the step of
`RevisionLog`, so a rollback is a publish of an earlier snapshot.

### Issuance

State: `jobs` (`acme_jobs` by id), `certs` (by name, with id, source and material),
`due` (material past two thirds of its lifetime), `txt` (records in the DNS), `served`
(the certificates in the published revision), and `act[a]`: where each worker and
renewer is and what it holds. The material of a certificate is the number of the
CA order it came from, so "key and certificate are a pair" holds by construction
(one UPDATE writes both) and is not claimed as a result. A worker goes `load`,
`authorize`/`wait` per domain, `cleanup` (the deferred loop, which may turn success
into an error), `save`, `mark`, `read`/`commit` (the publish), and from any failure to
`fail`; a renewer goes through the list it read, runs the same order for each row
(`Issue(a)` is shared), and publishes once. `SaveFails` and `PublishFails` stand for every
refusal of the store. `Crash(P)` kills a process with both its goroutines.
`abandoned`, `leaked` and `landed` are history variables: they only name what the
properties excuse or relate.

The publish of `Issuance` is two steps and always able to succeed or fail; its races
with other publishers are `Publishing`'s subject.

### WebhookQueue

State: `hooks`, `jobs`, and the two things the code ever asks of `next_run_at`: `before`
orders the pending jobs by it, and `due` holds those whose time has come, which are
before all others (`TimePasses` adds the next one). `Lock` is the
SELECT ... FOR UPDATE SKIP LOCKED, `CommitClaim` and `RollbackClaim` the ends of its
transaction; `Delivered`, `NotDelivered` (which the receiver may have taken all the same)
and `BadRequest` are `deliverWebhook`; `FinishWebhookJob` puts a retry anywhere behind
what is due (the delay grows with the attempts, so a retry may overtake another). A deleted webhook takes its jobs along and waits for a claim's lock.
`SecretLost` is a process that comes back without the key the secrets were encrypted
with: then the claim of that webhook's jobs fails in `scanWebhook`, after the row was
chosen.

### Compiler and ProxyHosts

`Compiler` translates `Validate`, the errors of `Compile`, and the configuration it
returns. A name is a sequence of characters, as `sanitizeName` and the byte order of
the sort are what matters; a domain, an upstream or the configuration of a
middleware is one of the classes the checks tell apart (an upstream is an `http` or
`https` URL, a `host:port`, blank, or something else). `Sorted` is the set of orders in
which `sort.Slice` may leave the hosts: it is not stable, so hosts of one name may come out
either way. `Positions` are the hosts a section (`http`, `tcp`, `udp`) is made of; `Section` is
its three Go maps filled in a loop, where what is written last under a name stays; and
`Configs` is every configuration `Compile` may return for a list of hosts.

`ProxyHosts` has the rows `hosts`, the lists of `templates`, and `published`, the
`source_proxy_hosts` of the published revision. `Row` is what the store makes of a
request body, whose protocol and entry points may be missing. `ApplyTemplate` is the
form of an HTTP host: it copies a template behind the host's middlewares and sends the
host, so later edits of the template do not reach it. Hosts are saved as drafts (the API
checks little); only a publish, or the save of a template, checks more. `Publish` is
one step here; its queries are the subject of `Publishing`, which treats the
compiler as a predicate, as `AgentConfig` treats it as a function.

### Admin

State: the rows of `fleets`, `agents` (each one's fleet), `agent_tokens` and `admin_tokens`
by prefix, and `audit_log`; `req[r]`, the requests in flight; `phase`, where `main` is
between the demo seed and serving. The plaintext of a token stands for its secret;
`PrefixOf` gives its lookup prefix, which tokens may share. A request begins with one
query, `LookupToken` or `LookupAdminToken` (or none, for the bootstrap token); its
handler makes one more, or two for `handleMintToken` (`GetAgent`, then the insert); then the
audit middleware appends its row (`AppendAuditEntry`) or fails to (`AppendFails`), and
other requests run between any two of these. Deletion cascades from fleet to agent
to token and sets the log's `fleet_id` to NULL. `Done` may lose the answer of a statement
that was executed; `Reject` is every other error. The seed is three steps, each of
which ignores a conflict, and `Restart` goes back to it or skips it.

`promise[t]` (none, works, dead), `recorded` and a request's `did` are history variables:
what the last successful mint, revocation or deletion promised about a token, how
many rows the log was given, and whether a request changed a row. `last_used_at` is
left out, as nothing reads it.

## 3. Runs

| Run | Bounds | Shows |
|---|---|---|
| `publishing` | 2 publishers, 2 numbers, 2 host edits (broken, then repaired), 1 certificate edit, 2 lives | types and foreign keys, gapless history, no lost publish, rollbacks are copies, only what compiles is published, revisions immutable, what a request reads is no older than any revision in the table, refinement of `RevisionLog` (so the published number only grows, and only revisions in the table are announced) |
| `publishing_stale` (violated) | 2 publishers, 2 numbers, 1 renewal | the published certificates can go back to the older version |
| `delivery` | 1 agent, 2 revisions, 2 hosts (one behind a label), 1 lost send, 2 restarts, fairness | no mixture, truthful 304, cache and Traefik never regress, restart routes, refinement of `Replica`, convergence and reporting |
| `delivery_lost` (violated) | 2 revisions, 1 lost send | what is recorded and reported as applied need not run |
| `delivery_keys` (violated) | 1 certificate | recompiled certificates have no key |
| `issuance` | 2 processes (2 workers, 1 renewer), 1 name, 2 domains, 2 jobs, 2 orders, 2 rows, 1 crash, fairness | jobs neither shared nor lost, records removed, succeeded means published, uploads kept, every job ends, refinement of `WorkQueue` |
| `renewal_lost` (violated) | 1 worker, 1 renewer, 2 orders, fairness | a renewal whose publish failed stays unpublished |
| `webhooks` | 2 workers, 2 webhooks, 2 jobs, 2 attempts, 1 lost secret, 1 crash, fairness | attempts counted and bounded, outcomes true, jobs neither shared nor lost, every delivery ends, refinement of `WorkQueue` |
| `proxy_hosts` | 13 request bodies over 3 names, 2 hosts, 1 template of 3 lists, 2 middlewares after a template | every agent's part compiles, the order the hosts come in does not matter, every router is a published, enabled host with its upstreams, references resolve, templates keep compiling |
| `proxy_hosts_overwritten` (violated) | the same | two hosts can become one router |
| `admin` | 2 requests, 1 fleet, 1 agent, 2 tokens on one prefix, 1 audit row, faults | types and foreign keys, a minted token works until it is revoked or deleted, no request starts with a dead one, the log is append-only and true |
| `admin_unaudited` (violated) | 1 request, no faults, 3 audit rows | mutations of a fleet that is not there leave no row |

Why these bounds are enough to be interesting. Two publishers suffice for every
race on `MAX(number)` and the unique constraint, since each query looks at the store
only; two numbers are a revision and the publish or rollback that races for the next one
(a rollback of a rollback needs three, and is left to the proofs, which bound nothing);
two lives let a late request land in a re-created fleet. Agents never read each other's state, so one
agent is every agent; two revisions whose snapshots may be equal or differ cover
same-content revisions (equal ETags under different numbers), and one label edits
a host in and out. Symmetry is used between publishers and between requests, in runs
without temporal fairness. One name is the hard case of `Issuance`: jobs, uploads
and deletions then all compete for it; two orders give a certificate and its
renewal, two rows a certificate and its successor under the same name. Two
attempts (the code has five, `MaxAttempts`) make a first, a last and the boundary
between them; two webhooks let one job stand behind another whose secret cannot
be read. Everything `Validate` compares it compares of one host or of two, so two
hosts meet every clash; the bodies include two names that sanitize to one, both
kinds of chain (its middleware on the same host, or on the other one), drafts of
every kind the validation refuses, and the three protocols. In `Admin` one prefix for
all tokens is the hard case: every mint meets the row of another token, revoked or
not. Two requests put any one query between two of another request; one fleet and
one agent suffice because their ids are used again; one audit row shows that no
later step changes it except for its `fleet_id`.

Bounds of the models, all CONSTANTS: `MaxNumber`, `MaxHostEdits`, `MaxCertEdits`,
`MaxLives`; `MaxRevisions`, `MaxTimeouts`, `MaxCrashes`; `MaxJobs`, `MaxOrders`, `MaxRows`,
`MaxCrashes`; `MaxJobs`, `MaxAttempts` (a constant of the code), `MaxLosses`, `MaxCrashes`;
`MaxHosts`, `MaxTemplates`, `MaxChain`; `MaxAudit`. Deadlock is not checked in `Issuance` and
`WebhookQueue`, which stop when their bounds are used up, and in `admin_unaudited`, where
the log fills up and without faults no append may fail.

Fairness (`Delivery!FairSpec`): weak fairness of the loop, since the ticker always
fires again and Traefik is restarted by its supervisor; strong fairness of the
manager answering a poll and of a heartbeat arriving, that is, the manager is not
unreachable for ever. `SaveCache` and `SendTaken` get none: the disk may stay full, and
the liveness property excludes an agent whose last send was never taken
(`delivery_lost` shows why it must). Nothing makes publishes or edits stop; the
properties say "once they stop".

`Issuance!FairSpec` has weak fairness of each worker and each renewer: their
goroutines run, and every call they make has a timeout. It gives no fairness to any
outcome: the DNS, the CA and the store may fail every time. `EveryJobFinishes`
excuses only jobs whose process died or whose last UPDATE failed.
`WebhookQueue!FairSpec` has weak fairness of time and of the workers (the HTTP client
has a timeout), and strong fairness of the claim's COMMIT: the database does not
refuse for ever. `EveryDeliveryEnds` assumes in addition that every unreadable secret
is some day replaced; without that the property is false, as one unreadable
secret blocks the queue (`hazards`).

## 4. Findings

* A publish that read the certificates before a renewal commits after the
  renewal's own publish and serves the old certificate again
  (`publishing_stale`). Only publishes that overlap can do that: by `LaterReadsAreNewer`, which
  is checked and proved, what a request reads is never older than a revision that exists when
  it reads.
* A send that Traefik does not take in `PollTimeout` is recorded, cached and reported
  as applied, and 304 answers keep Traefik stale (`delivery_lost`).
* `docs/labels.md` says the certificate snapshot has plaintext keys; the JSON
  snapshot drops them, so the per-agent recompile serves empty `keyFile`s
  (`delivery_keys`).
* A renewal whose publish fails is not retried: the row is no longer due
  (`renewal_lost`).
* Two hosts whose names differ only in a character that `sanitizeName` replaces
  become one router, and one of them is no longer served
  (`proxy_hosts_overwritten`); middleware names can meet the same way.
* `docs/security.md` says every authenticated mutation appends a row to the audit log,
  failed ones too. The row carries the fleet id of the path, which references
  `fleets`: a DELETE of a fleet, or any mutation under a fleet that does not exist,
  leaves no row (`admin_unaudited`).

Seen while modelling and not turned into runs: `docs/acme.md:38` and
`007_acme_jobs.sql:5` let a job go from running to succeeded or failed once, but a job
marked succeeded is marked failed when its publish fails (`acme_worker.go:152-156`,
`:90`); a mint with a malformed body is answered 400 and mints all the same
(`admin_handlers.go:194`), and the log says 201; the ACME demo of the seed skips its
host and revision for ever when the process dies after its certificate
(`main.go:502-541`); the memory store departs from PostgreSQL (it revokes a token twice,
and keeps the tokens and revisions of a deleted fleet); the comment at `compiler.go:549-551`
and `docs/middleware-library.md:65-67` say that saving a proxy host runs
`ValidateMiddlewares`, but only templates are checked when they are saved, hosts not
before a publish; the store fills in the entry point `web` for every protocol, so the
compiler's default `websecure` for TCP is never used with PostgreSQL; no code fires the event
`acme_certificate_issued` of `docs/webhooks.md`; `Present` whose answer is lost leaves its
TXT record although `acme.go:73` says records are removed even on error.

## 5. Proofs

### Publishing

`PublishingProofs` proves, for any set of publishers, any bounds and any `Broken`:
`TypeCorrect`, `HistoryGapless`, `RollbackCopies`, `OnlyCompiledPublished`, `NoPublishLost`,
`RevisionsNeverChange`, `LaterReadsNewer`; and `Refinement`: the handlers implement `RevisionLog`,
in every life of the fleet. That the published number only grows, and that only revisions in
the table are announced, are what `RevisionLog` promises of its log (`LogPromise`, below), and
not stated again.

Assumptions: `BoundsAssumption` (bounds are naturals, some positive) and
`NoRevisionAssumption` (the null row is no row); TLC evaluates both.

The argument. `TypeOK` is inductive by itself once it holds the foreign keys and
"who creates has a number". `HistoryIsGapless` is not inductive: a publisher may hold
a number read long ago. `IInv` adds, per publisher of this life
(`HoldsNextNumberAtMost`), that the number it holds is at most `published + 1`;
together with the unique constraint, a number that is still free is then exactly
the next one. `HoldsCopy` says a rollback in flight holds the content of the
revision it names (which cannot change, since revisions are immutable), and
`HoldsCompiled` that past Compile nobody holds broken hosts. One lemma per action
that touches the store, one for the steps that move a publisher only, and the
temporal theorems follow by PTL. The action properties come from the same
invariant. `NoPublishLost` needs only `TypeOK` and the library's cardinality facts: a
committed row is new, so the set of rows grows by one. `LaterReadsNewer` needs a second
inductive part, `Reached`: no revision of this life, and nothing a publisher holds to put into
one, is newer than the tables. It is kept because the versions in the tables only grow while
the fleet lives, and a rollback only copies a revision that had reached it. For the refinement, the
same "free number is the next one" makes `CreateRevision` an `Append`; every other
store query is a stutter, `FireWebhooks` an `Announce`, `DeleteFleet` an `Erase`, `CreateFleet` a
`Reopen`. A request of an earlier life that lands closes the log (`Erase`), and from
then on nothing is claimed of it until the fleet is deleted.

### Delivery

`DeliveryProofs` proves, for any agents, hosts, certificates, labels, selectors and
bounds: `TypeCorrect`, `NeverMixed`, `RestartRoutes`, `CacheMonotone`, `NotModifiedTrue`,
`TraefikMonotone` and `Refinement` (of `Replica`).

Assumptions: `DeliveryAssumption` (bounds are naturals, `NoConfig` is no configuration)
and `SelectorAssumption` (every host has a selector); TLC evaluates both.

The argument. None of the monotonicity properties is inductive: that the cache
does not go back depends on what the response in flight was read from. `IInv`
gives each agent `AgentOK`: what it holds, runs and stores is a state some revision
really had (`Genuine`); Traefik is never ahead of what is held, nor the cache ahead of
what is held once the loop polls; and a response between the manager's queries or
on its way into the channel is from a revision at least as new as the one held.
Revisions only grow and the manager always answers with the newest, so a fetch
re-establishes it. The agents do not read each other, so an action of one agent is
a lemma about that agent and a frame lemma about all others.

### ProxyHosts

`ProxyHostsProofs` proves, for any names, bodies, chains and bounds: `TypeCorrect`,
`AgentsAreServed`, `TemplatesAlwaysCompile`, `OrderIsIrrelevant`, `RoutersAreTrue` and
`ReferencesAlwaysResolve`. Assumptions: `CompilerAssumption` (names consist of characters, each
with one rank; `-` is a character and not itself replaced) and `BodiesAssumption` (bodies are
hosts whose protocol may be missing); TLC evaluates both.

The argument. `Compiles` looks at each host alone and at pairs of hosts, so it is
closed under subsets (`CompilesPart`); a publish that was accepted is therefore
accepted for every agent's part. For templates the inductive part is that every
stored list has been validated (`TemplatesValid`); `Appended` says which names and
references a concatenation has, and `TemplateApplied` that appending a valid list
to a host that compiles leaves it so.

The other three are about what the compiler returns, for lists of any length.
`PrecedesTotal`, `PrecedesAsymmetric` and `PrecedesTransitive` make byte order a strict total order
of names; where two names first differ comes from `LeastNatural`, the library's well-founded
minimum on the naturals, which stands in for the induction that is out of reach. Hosts that compile have distinct names, so
sorting any two enumerations of them ends in the same sequence (`SortedIsOne`: a permutation
that respects a strict total order is unique, `SortedOnce`, and there is one, `SortedExists`),
and the configuration is a function of the set of hosts (`ConfigIsOne`). That is what lets
`AgentConfig` treat the compiler as a function. `SectionRouters` and `SectionMiddlewares` name the
host, and the middleware, whose assignment stays in the map, as the greatest position that
writes the name; `SectionIsClosed` then has every reference of a router or a chain in the
section, since a chain that compiles refers only to its own host's middlewares (`ChainsResolve`).
`TablesFinite` is the one thing they need of the reachable states: an order of the hosts exists.

### Admin

`AdminProofs` proves, for any fleets, agents, tokens, prefixes and requests, with or
without faults: `TypeCorrect`, `MintedTokensWork`, `RevokedRefused` and `AuditTrue`.
Assumptions: `ConstantsAssumption` (the ids of the seed exist, NULLs are no ids, the
bootstrap token is no minted one) and `NoRowAssumption`; TLC evaluates both.

The argument. Types need `SeedOK`: the seed runs before any request, so the agent it
mints for is there. Neither token property is inductive, as a prefix may be shared:
`TokensOK` says that every row sits at its own token's prefix, that no token is in both
tables, and that a row that is not revoked belongs to a token whose promise is
"works"; then whoever is accepted works, and whoever works is accepted. For the log,
`AnsweredOK` says of each request between its handler and its append what the row it
will write must satisfy.

### Issuance

`IssuanceProofs` proves, for any names, domains, workers, renewers, processes and
bounds: `TypeCorrect`, `JobsAreHeld`, `RecordsRemoved`, `SuccessIsServed`, `UploadsUntouched`
and `Refinement` (of `WorkQueue`). Assumptions: `IssuanceAssumption` (bounds are naturals, no
worker is a renewer, processes consist of them) and `NullAssumption`.

The argument. What a worker or renewer holds may be stale, so `ActorsFit` says what of
it is still true: a job in hand is running, or succeeded on the way to its publish; a
snapshot about to be committed holds the certificate its job names, if that still
exists (`JobFits`); a row on a renewer's list, if its id still exists, is not an upload
(`RowsFit`), which rests on `PrimaryKey`: ids are handed out in order and never twice;
records are planted for an accepted order (`OrderFits`). `NoRecordLeft`,
`SucceededIsServed` and `OneWorkerPerJob` are then inductive beside it. `JobsAreHeld` adds
`NoJobForgotten`: a running job is in some worker's hands, unless its process died or its last
UPDATE failed. That a publish ends a job rests on a part of `JobFits`, that whoever publishes
has marked its job; the rest is one case per way out of `runACMEJob`. `OneMoves` frames a
step of one actor, `QuietMoves` one that leaves the tables alone, `StoreMoves` one of an
administrator; each remaining lemma is one action.

### WebhookQueue

`WebhookQueueProofs` proves, for any workers, webhooks and bounds: `TypeCorrect`,
`JobsAreHeld`, `AttemptsCounted`, `OutcomesTrue` and `Refinement` (of `WorkQueue`).
Assumptions: `WebhookAssumption` and `NoJobAssumption`.

The argument. `RowsAreTrue` relates each row to the requests sent and taken for it,
`WorkersFit` each worker to the row it holds: its count of attempts is the number of
requests sent before the present one, and a result about to be written is true. That
a step of one worker disturbs no other is `OneWorkerPerJob`. `NoJobForgotten` is proved beside the
invariant, as for `Issuance`. `Line` is the order of the
pending jobs: an insertion between two parts of a line, or a removal, leaves a line.

### Promises

`Promises` proves what the two abstract specifications say that the others implement, so that
a `Refinement` theorem is worth something to a reader. `LogPromise`: who reads the published
revision gets the newest one, only existing revisions are announced, and in one life of the
fleet no revision is changed, reordered or lost and no announcement taken back.
`QueuePromise`, which assumes only that "no item" is no item: an item in hand is running,
succeeded or deleted and in one worker's hands, a failed one stays failed until it is
deleted, and no late UPDATE of a worker brings a deleted one back. Both sets of invariants are
inductive as they stand.

### Only model-checked

Liveness is out of the proof system's reach: `EventuallyCurrent`, `EventuallyReported`,
`EveryJobFinishes` and `EveryDeliveryEnds` stay with TLC. Of the last two the safety half is proved
(`NoJobForgotten`: no path leaves a job running with nobody to finish it). So do the disagreements of section 4,
which are counterexamples. Every other property of a passing run is a theorem.

## 6. Not modelled

What is left of the modelled parts: the registration of the ACME account, the rows
of DNS providers and renewal settings, a fleet deleted under its issuance jobs,
sticky sessions and health checks in the compiler, the parsing of label selectors,
and the seed's demo hosts and certificates. `AgentConfig` keeps a compiler of its own
in place of `Compiler`, whose lists and folds would make its runs too large.

Not modelled at all: the cryptographic primitives, DNS and Docker clients,
database bootstrap, metrics, tracing, the embedded UI, the web application and
the host script hold no concurrent state of their own or only present what the
API returns.
