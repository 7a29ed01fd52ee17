-------------------------------- MODULE Admin --------------------------------
(***************************************************************************)
(* Who may call the manager, and what is written down about it: agent and  *)
(* admin tokens (internal/auth, internal/api/admin_tokens.go), the fleets  *)
(* and agents they hang on, the audit middleware (internal/api/audit.go),  *)
(* and the demo seed, which works on the same rows at every start          *)
(* (cmd/manager-api/main.go).                                              *)
(*                                                                         *)
(* A request authenticates with one query, its handler makes one or two    *)
(* more, and only then does the middleware append a row to audit_log: any  *)
(* number of other requests can run in between.  Ids are chosen by the     *)
(* administrator, so fleets and agents may come back under an old id; the  *)
(* prefix of a token is drawn at random, so two tokens may share one.      *)
(***************************************************************************)
EXTENDS Integers, Sequences

CONSTANTS
    Fleet, Agent,          \* ids
    Token,                 \* plaintexts that may be minted, each drawn once
    Prefix, PrefixOf,      \* a token's lookup prefix
    Request,               \* requests that may be in flight at once
    DemoFleet, DemoAgent, DemoToken, \* what seedDemo creates
    Bootstrap,             \* MANAGER_API_BOOTSTRAP_ADMIN_TOKEN
    NoFleet,               \* NULL
    NoAgent, NoRow,
    Faults,                \* may queries fail and clients hang up?
    MaxAudit               \* bound: rows of audit_log

ASSUME ConstantsAssumption ==
    /\ PrefixOf \in [Token -> Prefix]
    /\ DemoFleet \in Fleet
    /\ DemoAgent \in Agent
    /\ DemoToken \in Token
    /\ Bootstrap \notin Token
    /\ NoFleet \notin Fleet
    /\ NoAgent \notin Agent
    /\ Faults \in BOOLEAN
    /\ MaxAudit \in Nat

AgentTokenRow == [token : Token, agent : Agent, revoked : BOOLEAN]
AdminTokenRow == [token : Token, revoked : BOOLEAN]
Actor         == Token \cup {Bootstrap}

ASSUME NoRowAssumption == NoRow \notin AgentTokenRow \cup AdminTokenRow

VARIABLES
    fleets,      \* rows of fleets
    agents,      \* agents.fleet_id of each row, NoFleet when there is none
    tokens,      \* agent_tokens, by prefix
    adminTokens, \* admin_tokens, by prefix
    audit,       \* audit_log
    req,         \* the requests in flight
    phase,       \* where the process is in main
    promise,     \* of each token: was it minted, revoked or deleted last? (history)
    recorded     \* rows appended to audit_log (history)

rows  == <<fleets, agents, tokens, adminTokens>>
log   == <<audit, recorded>>
vars  == <<rows, promise, log, req, phase>>

\* What an admin request asks for: the route, and the ids it names.
NoPrefix == PrefixOf[DemoToken] \* any
Op ==
    [kind : {"createFleet", "deleteFleet"}, fleet : Fleet, agent : {NoAgent}, prefix : {NoPrefix}]
    \cup [kind : {"createAgent"}, fleet : Fleet, agent : Agent, prefix : {NoPrefix}]
    \cup [kind : {"deleteAgent", "mintToken"}, fleet : {NoFleet}, agent : Agent, prefix : {NoPrefix}]
    \cup [kind : {"revokeToken"}, fleet : {NoFleet}, agent : Agent, prefix : Prefix]
    \cup [kind : {"mintAdminToken"}, fleet : {NoFleet}, agent : {NoAgent}, prefix : {NoPrefix}]
    \cup [kind : {"revokeAdminToken"}, fleet : {NoFleet}, agent : {NoAgent}, prefix : Prefix]

Kind == {"createFleet", "deleteFleet", "createAgent", "deleteAgent",
         "mintToken", "revokeToken", "mintAdminToken", "revokeAdminToken"}

\* An agent's poll or heartbeat.
AgentCall == [kind |-> "agent", fleet |-> NoFleet, agent |-> NoAgent, prefix |-> NoPrefix]

\* A request: its credential, what it asks for, and how its handler ended;
\* "did" says whether it changed a row (history).
RequestState ==
    [pc : {"idle", "handle", "insert", "audit"}, cred : Actor, op : Op \cup {AgentCall},
     ok : BOOLEAN, did : BOOLEAN]

Idle == [pc |-> "idle", cred |-> Bootstrap, op |-> AgentCall, ok |-> FALSE, did |-> FALSE]

\* A row of audit_log; the status is 2xx or not.
Entry == [actor : Actor, kind : Kind, fleet : Fleet \cup {NoFleet},
          ok : BOOLEAN, did : BOOLEAN]

Exists(a) == agents[a] # NoFleet

-----------------------------------------------------------------------------
Init ==
    /\ fleets = {}
    /\ agents = [a \in Agent |-> NoFleet]
    /\ tokens = [p \in Prefix |-> NoRow]
    /\ adminTokens = [p \in Prefix |-> NoRow]
    /\ audit = <<>>
    /\ req = [r \in Request |-> Idle]
    /\ phase = "fleet"
    /\ promise = [t \in Token |-> "none"]
    /\ recorded = 0

-----------------------------------------------------------------------------
(* The store's statements on these tables.                                 *)

\* Mutant: a minted row replaces the one that has the prefix.
IsFreeOrNot(table, p) == TRUE
\* The primary key.
IsFree(table, p) == table[p] = NoRow

InsertToken(t, a) ==
    /\ tokens' = [tokens EXCEPT ![PrefixOf[t]] =
                      [token |-> t, agent |-> a, revoked |-> FALSE]]
    /\ promise' = [promise EXCEPT ![t] = "works"]
    /\ UNCHANGED <<fleets, agents, adminTokens>>

InsertAdminToken(t) ==
    /\ adminTokens' = [adminTokens EXCEPT ![PrefixOf[t]] =
                           [token |-> t, revoked |-> FALSE]]
    /\ promise' = [promise EXCEPT ![t] = "works"]
    /\ UNCHANGED <<fleets, agents, tokens>>

\* The token rows that go with the agents in "gone", and what they promised.
DropTokensOf(gone) ==
    /\ tokens' = [p \in Prefix |->
                      IF tokens[p] # NoRow /\ tokens[p].agent \in gone
                      THEN NoRow ELSE tokens[p]]
    /\ promise' = [t \in Token |->
                      IF \E p \in Prefix : /\ tokens[p] # NoRow
                                           /\ tokens[p].agent \in gone
                                           /\ tokens[p].token = t
                      THEN "dead" ELSE promise[t]]

\* fleetIDFromPath: only paths under /api/v1/fleets/{id} name a fleet.
PathFleet(op) == IF op.kind = "createFleet" THEN NoFleet ELSE op.fleet

AuditRow(q) == [actor |-> q.cred, kind |-> q.op.kind, fleet |-> PathFleet(q.op),
                ok |-> q.ok, did |-> q.did]

-----------------------------------------------------------------------------
(* Authentication: the token's row, by prefix, and the secret.             *)

\* Mutant: whoever knows a prefix is let in.
LookupTokenUnverified(t) ==
    LET row == tokens[PrefixOf[t]] IN row # NoRow /\ ~row.revoked
LookupToken(t) ==
    LET row == tokens[PrefixOf[t]] IN row # NoRow /\ ~row.revoked /\ row.token = t

LookupAdminToken(t) ==
    LET row == adminTokens[PrefixOf[t]] IN row # NoRow /\ ~row.revoked /\ row.token = t

Begin(r, cred, op) ==
    /\ phase = "up"
    /\ req[r] = Idle
    /\ req' = [req EXCEPT ![r] = [Idle EXCEPT !.pc = "handle", !.cred = cred, !.op = op]]
    /\ UNCHANGED <<rows, promise, log, phase>>

\* checkAdminAuth: the bootstrap token, or a row of admin_tokens.
RequireAdmin(r) ==
    \E cred \in {Bootstrap} \cup {t \in Token : LookupAdminToken(t)}, op \in Op :
        Begin(r, cred, op)

\* An agent's poll or heartbeat.  A token of another agent than the path's is
\* answered 403 and not modelled: nothing has changed.
AuthenticateAgent(r) ==
    \E t \in Token : LookupToken(t) /\ Begin(r, t, AgentCall)

Handles(r, kind) == req[r].pc = "handle" /\ req[r].op.kind = kind

\* The handler behind it reads or updates the agent's row by id: 200, or an
\* error when the agent was deleted meanwhile.  No row is written to the log.
AnswerAgent(r) ==
    /\ Handles(r, "agent")
    /\ req' = [req EXCEPT ![r] = Idle]
    /\ UNCHANGED <<rows, promise, log, phase>>

-----------------------------------------------------------------------------
(* The handlers, after authentication.                                     *)

Answer(r, ok) ==
    req' = [req EXCEPT ![r].pc = "audit", ![r].ok = ok, ![r].did = (rows' # rows)]

\* The statement was executed: 2xx, unless its answer is lost on the way.
Done(r) == \E ok \in {TRUE} \cup (IF Faults THEN {FALSE} ELSE {}) : Answer(r, ok)

CreateFleet(r) ==
    /\ Handles(r, "createFleet")
    /\ req[r].op.fleet \notin fleets
    /\ fleets' = fleets \cup {req[r].op.fleet}
    /\ UNCHANGED <<agents, tokens, adminTokens, promise, log, phase>>
    /\ Done(r)

\* ON DELETE: agents and their tokens go, audit_log.fleet_id becomes NULL.
DeleteFleet(r) ==
    LET f == req[r].op.fleet IN
    /\ Handles(r, "deleteFleet")
    /\ f \in fleets
    /\ fleets' = fleets \ {f}
    /\ agents' = [a \in Agent |-> IF agents[a] = f THEN NoFleet ELSE agents[a]]
    /\ DropTokensOf({a \in Agent : agents[a] = f})
    /\ audit' = [i \in DOMAIN audit |->
                     IF audit[i].fleet = f THEN [audit[i] EXCEPT !.fleet = NoFleet]
                     ELSE audit[i]]
    /\ UNCHANGED <<adminTokens, recorded, phase>>
    /\ Done(r)

CreateAgent(r) ==
    LET q == req[r].op IN
    /\ Handles(r, "createAgent")
    /\ q.fleet \in fleets
    /\ ~Exists(q.agent)
    /\ agents' = [agents EXCEPT ![q.agent] = q.fleet]
    /\ UNCHANGED <<fleets, tokens, adminTokens, promise, log, phase>>
    /\ Done(r)

\* Mutant: no ON DELETE CASCADE on agent_tokens.
DeleteAgentOnly(r) ==
    /\ Handles(r, "deleteAgent")
    /\ Exists(req[r].op.agent)
    /\ agents' = [agents EXCEPT ![req[r].op.agent] = NoFleet]
    /\ UNCHANGED <<fleets, tokens, promise, adminTokens, log, phase>>
    /\ Done(r)

DeleteAgent(r) ==
    /\ Handles(r, "deleteAgent")
    /\ Exists(req[r].op.agent)
    /\ agents' = [agents EXCEPT ![req[r].op.agent] = NoFleet]
    /\ DropTokensOf({req[r].op.agent})
    /\ UNCHANGED <<fleets, adminTokens, log, phase>>
    /\ Done(r)

\* handleMintToken asks for the agent first.
GetAgent(r) ==
    /\ Handles(r, "mintToken")
    /\ Exists(req[r].op.agent)
    /\ req' = [req EXCEPT ![r].pc = "insert"]
    /\ UNCHANGED <<rows, promise, log, phase>>

\* auth.MintToken draws a plaintext nobody has drawn before.
Drawn(t) == t # DemoToken /\ promise[t] = "none"

MintToken(r) ==
    \E t \in Token :
        /\ req[r].pc = "insert"
        /\ Drawn(t)
        /\ Exists(req[r].op.agent)
        /\ IsFree(tokens, PrefixOf[t])
        /\ InsertToken(t, req[r].op.agent)
        /\ UNCHANGED <<log, phase>>
        /\ Done(r)

MintAdminToken(r) ==
    \E t \in Token :
        /\ Handles(r, "mintAdminToken")
        /\ Drawn(t)
        /\ IsFree(adminTokens, PrefixOf[t])
        /\ InsertAdminToken(t)
        /\ UNCHANGED <<log, phase>>
        /\ Done(r)

\* Mutant: a token can be revoked again, as in the memory store.
RevocableAgain(op) ==
    LET row == tokens[op.prefix] IN row # NoRow /\ row.agent = op.agent
\* The rows RevokeToken's and RevokeAdminToken's UPDATE match.
Revocable(op) ==
    LET row == tokens[op.prefix] IN
    row # NoRow /\ row.agent = op.agent /\ ~row.revoked
RevocableAdmin(op) ==
    LET row == adminTokens[op.prefix] IN row # NoRow /\ ~row.revoked

RevokeToken(r) ==
    LET p == req[r].op.prefix IN
    /\ Handles(r, "revokeToken")
    /\ Revocable(req[r].op)
    /\ tokens' = [tokens EXCEPT ![p].revoked = TRUE]
    /\ promise' = [promise EXCEPT ![tokens[p].token] = "dead"]
    /\ UNCHANGED <<fleets, agents, adminTokens, log, phase>>
    /\ Done(r)

RevokeAdminToken(r) ==
    LET p == req[r].op.prefix IN
    /\ Handles(r, "revokeAdminToken")
    /\ RevocableAdmin(req[r].op)
    /\ adminTokens' = [adminTokens EXCEPT ![p].revoked = TRUE]
    /\ promise' = [promise EXCEPT ![adminTokens[p].token] = "dead"]
    /\ UNCHANGED <<fleets, agents, tokens, log, phase>>
    /\ Done(r)

\* 404 or 409: no row matches, or a key or a foreign key refuses the row.
Refused(op) ==
    \/ op.kind = "createFleet" /\ op.fleet \in fleets
    \/ op.kind = "deleteFleet" /\ op.fleet \notin fleets
    \/ op.kind = "createAgent" /\ (op.fleet \notin fleets \/ Exists(op.agent))
    \/ op.kind \in {"deleteAgent", "mintToken"} /\ ~Exists(op.agent)
    \/ op.kind = "revokeToken" /\ ~Revocable(op)
    \/ op.kind = "revokeAdminToken" /\ ~RevocableAdmin(op)

\* 409: the prefix drawn is in use.
PrefixTaken(r) ==
    \E t \in Token :
        /\ Drawn(t)
        /\ \/ req[r].pc = "insert" /\ ~IsFree(tokens, PrefixOf[t])
           \/ Handles(r, "mintAdminToken") /\ ~IsFree(adminTokens, PrefixOf[t])

\* 500: the query fails, or the client has hung up and its context is done.
Reject(r) ==
    /\ req[r].pc \in {"handle", "insert"}
    /\ req[r].op.kind # "agent"
    /\ Refused(req[r].op) \/ PrefixTaken(r) \/ Faults
    /\ UNCHANGED <<rows, promise, log, phase>>
    /\ Answer(r, FALSE)

-----------------------------------------------------------------------------
(* The audit middleware, on the way out.                                   *)

AppendAuditEntry(r) ==
    /\ req[r].pc = "audit"
    /\ Len(audit) < MaxAudit
    /\ PathFleet(req[r].op) \in fleets \cup {NoFleet}
    /\ audit' = Append(audit, AuditRow(req[r]))
    /\ recorded' = recorded + 1
    /\ req' = [req EXCEPT ![r] = Idle]
    /\ UNCHANGED <<rows, promise, phase>>

\* The foreign key refuses the row, or the append fails, and a warning is logged.
AppendFails(r) ==
    /\ req[r].pc = "audit"
    /\ PathFleet(req[r].op) \notin fleets \cup {NoFleet} \/ Faults
    /\ req' = [req EXCEPT ![r] = Idle]
    /\ UNCHANGED <<rows, promise, log, phase>>

-----------------------------------------------------------------------------
(* seedDemo: create, and ignore a conflict; then the server starts.        *)

SeedFleet ==
    /\ phase = "fleet"
    /\ fleets' = fleets \cup {DemoFleet}
    /\ phase' = "agent"
    /\ UNCHANGED <<agents, tokens, adminTokens, promise, log, req>>

SeedAgent ==
    /\ phase = "agent"
    /\ agents' = IF Exists(DemoAgent) THEN agents
                 ELSE [agents EXCEPT ![DemoAgent] = DemoFleet]
    /\ phase' = "token"
    /\ UNCHANGED <<fleets, tokens, adminTokens, promise, log, req>>

SeedToken ==
    /\ phase = "token"
    /\ IF IsFree(tokens, PrefixOf[DemoToken])
       THEN InsertToken(DemoToken, DemoAgent)
       ELSE UNCHANGED <<rows, promise>>
    /\ phase' = "up"
    /\ UNCHANGED <<log, req>>

\* The process dies and is started again, with the demo seed or without.
Restart ==
    /\ Faults
    /\ phase' \in {"fleet", "up"}
    /\ req' = [r \in Request |-> Idle]
    /\ UNCHANGED <<rows, promise, log>>

-----------------------------------------------------------------------------
Next ==
    \/ SeedFleet
    \/ SeedAgent
    \/ SeedToken
    \/ Restart
    \/ \E r \in Request :
        \/ RequireAdmin(r)
        \/ AuthenticateAgent(r)
        \/ AnswerAgent(r)
        \/ CreateFleet(r)
        \/ DeleteFleet(r)
        \/ CreateAgent(r)
        \/ DeleteAgent(r)
        \/ GetAgent(r)
        \/ MintToken(r)
        \/ MintAdminToken(r)
        \/ RevokeToken(r)
        \/ RevokeAdminToken(r)
        \/ Reject(r)
        \/ AppendAuditEntry(r)
        \/ AppendFails(r)

Spec == Init /\ [][Next]_vars

-----------------------------------------------------------------------------
(* Properties.                                                             *)

\* Types, and the foreign keys: an agent has a fleet, a token an agent, and a
\* log entry names a fleet that exists or none.
TypeOK ==
    /\ fleets \subseteq Fleet
    /\ agents \in [Agent -> fleets \cup {NoFleet}]
    /\ tokens \in [Prefix -> AgentTokenRow \cup {NoRow}]
    /\ adminTokens \in [Prefix -> AdminTokenRow \cup {NoRow}]
    /\ \A p \in Prefix : tokens[p] # NoRow => Exists(tokens[p].agent)
    /\ audit \in Seq(Entry)
    /\ \A i \in DOMAIN audit : audit[i].fleet \in fleets \cup {NoFleet}
    /\ req \in [Request -> RequestState]
    /\ phase \in {"fleet", "agent", "token", "up"}
    /\ promise \in [Token -> {"none", "works", "dead"}]
    /\ recorded \in Nat

\* A token that was minted authenticates until it is revoked or its agent is
\* deleted: no later mint, conflict, seed or re-created id takes it away.
HandedOutWorks ==
    \A t \in Token : promise[t] = "works" => LookupToken(t) \/ LookupAdminToken(t)

\* docs/api.md:14, "Revoked tokens return 401": no request starts with a token
\* that was revoked, or that went with its agent or fleet, even if the ids, or
\* the prefix, are in use again.  (Only the seed mints its own token anew.)
RevokedIsRefused ==
    [][\A r \in Request : req[r] = Idle /\ req'[r] # Idle /\ req'[r].cred \in Token
            => promise[req'[r].cred] = "works"]_vars

\* The log is append-only and true: every row ever written is still there, a
\* row that says 2xx stands for a change its request made, and its actor held a
\* token that had been minted.
AuditIsTrue ==
    /\ Len(audit) = recorded
    /\ \A i \in DOMAIN audit :
        /\ audit[i].ok => audit[i].did
        /\ audit[i].actor \in Token => promise[audit[i].actor] # "none"

\* docs/security.md:16: "Every authenticated admin mutation ... appends one
\* row to audit_log", "even on 4xx/5xx" (no query fails here, no client hangs up).
EveryMutationIsRecorded ==
    [][\A r \in Request : req[r].pc = "audit" /\ req'[r] = Idle
            => Len(audit') = Len(audit) + 1]_vars
=============================================================================
