----------------------------- MODULE AdminProofs -----------------------------
(***************************************************************************)
(* Proofs about Admin, for any number of fleets, agents, tokens, prefixes  *)
(* and requests, with or without faults.  Two tokens may share a prefix,   *)
(* so the argument is about which of them a row belongs to: a row sits at  *)
(* its token's prefix, no token is in both tables, and a row that is not   *)
(* revoked belongs to a token that is meant to work.                       *)
(***************************************************************************)
EXTENDS Admin, SequenceTheorems, TLAPS

-----------------------------------------------------------------------------
(* Type correctness.                                                       *)

\* Only a mint gets to its INSERT, and the log is not for agents.
RequestOK(q) ==
    /\ q.pc = "insert" => q.op.kind = "mintToken"
    /\ q.pc = "audit" => q.op \in Op

RequestsOK == \A r \in Request : RequestOK(req[r])

\* What an operation names, by its kind.
LEMMA OpFields ==
  ASSUME NEW op \in Op
  PROVE  /\ op.kind \in Kind
         /\ op.kind \in {"createFleet", "deleteFleet", "createAgent"} => op.fleet \in Fleet
         /\ op.kind \in {"createAgent", "deleteAgent", "mintToken", "revokeToken"}
                => op.agent \in Agent
         /\ op.kind \in {"revokeToken", "revokeAdminToken"} => op.prefix \in Prefix
         /\ op.fleet \in Fleet \cup {NoFleet}
  BY DEF Op, Kind

\* An agent request is none of the administrators' operations.
LEMMA AgentCallIsNoOp == AgentCall \notin Op /\ \A k \in Kind : AgentCall.kind # k
  BY DEF AgentCall, Op, Kind

\* A request that has not begun.
LEMMA IdleType == Idle \in RequestState /\ RequestOK(Idle)
  BY DEF Idle, RequestState, RequestOK, Actor

\* The operation of a request at work on one of the table's rows.
LEMMA HandledOp ==
  ASSUME TypeOK, NEW r \in Request, NEW k \in Kind, Handles(r, k)
  PROVE  req[r] \in RequestState /\ req[r].op \in Op /\ req[r].op.kind = k
  BY AgentCallIsNoOp DEF TypeOK, Handles, RequestState

\* A handler that answers leaves the request typed.
LEMMA AnswerType ==
  ASSUME TypeOK, RequestsOK, NEW r \in Request, req[r].op \in Op,
         NEW ok \in BOOLEAN, Answer(r, ok)
  PROVE  req' \in [Request -> RequestState] /\ RequestsOK'
<1>1. req[r] \in RequestState
  BY DEF TypeOK
<1>2. [req[r] EXCEPT !.pc = "audit", !.ok = ok, !.did = (rows' # rows)] \in RequestState
  BY <1>1 DEF RequestState
<1>3. req' = [req EXCEPT ![r] =
                 [req[r] EXCEPT !.pc = "audit", !.ok = ok, !.did = (rows' # rows)]]
  BY DEF Answer, TypeOK
<1>4. req' \in [Request -> RequestState]
  BY <1>2, <1>3 DEF TypeOK
<1>5. req'[r].pc = "audit" /\ req'[r].op \in Op
  BY <1>1, <1>3 DEF TypeOK, RequestState
<1>6. QED
  BY <1>3, <1>4, <1>5 DEF RequestsOK, RequestOK, TypeOK

\* ... whether or not its answer reaches the client.
LEMMA DoneType ==
  ASSUME TypeOK, RequestsOK, NEW r \in Request, req[r].op \in Op, Done(r)
  PROVE  req' \in [Request -> RequestState] /\ RequestsOK'
<1>1. PICK ok \in BOOLEAN : Answer(r, ok)
  BY DEF Done
<1>2. QED
  BY <1>1, AnswerType

\* The rows that are left when some agents are gone.
LEMMA DropTokensType ==
  ASSUME TypeOK, NEW gone, DropTokensOf(gone)
  PROVE  /\ tokens' \in [Prefix -> AgentTokenRow \cup {NoRow}]
         /\ promise' \in [Token -> {"none", "works", "dead"}]
         /\ \A p \in Prefix : tokens'[p] # NoRow =>
                /\ tokens'[p] = tokens[p]
                /\ tokens[p] # NoRow
                /\ tokens[p].agent \notin gone
  BY DEF DropTokensOf, TypeOK

\* INSERT INTO agent_tokens leaves a row whose agent exists.
LEMMA InsertTokenType ==
  ASSUME TypeOK, NEW t \in Token, NEW a \in Agent, Exists(a), InsertToken(t, a)
  PROVE  /\ tokens' \in [Prefix -> AgentTokenRow \cup {NoRow}]
         /\ promise' \in [Token -> {"none", "works", "dead"}]
         /\ UNCHANGED <<fleets, agents, adminTokens>>
         /\ \A p \in Prefix : tokens'[p] # NoRow => Exists(tokens'[p].agent)
<1>1. [token |-> t, agent |-> a, revoked |-> FALSE] \in AgentTokenRow
  BY DEF AgentTokenRow
<1>2. PrefixOf[t] \in Prefix
  BY ConstantsAssumption
<1>3. QED
  BY <1>1, <1>2 DEF InsertToken, TypeOK

\* INSERT INTO admin_tokens leaves a row.
LEMMA InsertAdminTokenType ==
  ASSUME TypeOK, NEW t \in Token, InsertAdminToken(t)
  PROVE  /\ adminTokens' \in [Prefix -> AdminTokenRow \cup {NoRow}]
         /\ promise' \in [Token -> {"none", "works", "dead"}]
         /\ UNCHANGED <<fleets, agents, tokens>>
<1>1. [token |-> t, revoked |-> FALSE] \in AdminTokenRow
  BY DEF AdminTokenRow
<1>2. PrefixOf[t] \in Prefix
  BY ConstantsAssumption
<1>3. QED
  BY <1>1, <1>2 DEF InsertAdminToken, TypeOK

\* A log entry of a request that was handled, and of a fleet that is still there.
LEMMA AuditRowType ==
  ASSUME TypeOK, RequestsOK, NEW r \in Request, req[r].pc = "audit"
  PROVE  AuditRow(req[r]) \in Entry
<1>1. req[r] \in RequestState /\ req[r].op \in Op
  BY DEF TypeOK, RequestsOK, RequestOK
<1>2. PathFleet(req[r].op) \in Fleet \cup {NoFleet} /\ req[r].op.kind \in Kind
  BY <1>1, OpFields DEF PathFleet
<1>3. QED
  BY <1>1, <1>2 DEF AuditRow, Entry, RequestState

\* A request that is over.
LEMMA IdleAgain ==
  ASSUME TypeOK, RequestsOK, NEW r \in Request, req' = [req EXCEPT ![r] = Idle]
  PROVE  req' \in [Request -> RequestState] /\ RequestsOK'
  BY IdleType DEF TypeOK, RequestsOK

\* A request that has just been authenticated.
LEMMA BeginType ==
  ASSUME TypeOK, RequestsOK, NEW r \in Request, NEW cred \in Actor,
         NEW op \in Op \cup {AgentCall}, Begin(r, cred, op)
  PROVE  req' \in [Request -> RequestState] /\ RequestsOK'
<1> DEFINE q == [Idle EXCEPT !.pc = "handle", !.cred = cred, !.op = op]
<1>1. q \in RequestState /\ RequestOK(q)
  BY DEF Idle, RequestState, RequestOK
<1>2. req' = [req EXCEPT ![r] = q]
  BY DEF Begin
<1>3. QED
  BY <1>1, <1>2 DEF TypeOK, RequestsOK

\* Types: the start.
LEMMA InitTypeOK == Init => TypeOK /\ RequestsOK
<1> SUFFICES ASSUME Init
             PROVE  TypeOK /\ RequestsOK
  OBVIOUS
<1>1. audit \in Seq(Entry) /\ DOMAIN audit = {}
  BY DEF Init
<1>2. req \in [Request -> RequestState] /\ RequestsOK
  BY IdleType DEF Init, RequestsOK
<1>3. QED
  BY <1>1, <1>2 DEF Init, TypeOK

\* The tables after the statements of each handler.
LEMMA CreateFleetType ==
  ASSUME TypeOK, RequestsOK, NEW r \in Request, CreateFleet(r)
  PROVE  (TypeOK /\ RequestsOK)'
<1>1. req[r].op \in Op /\ req[r].op.fleet \in Fleet
  BY HandledOp, OpFields DEF Kind, CreateFleet
<1>2. req' \in [Request -> RequestState] /\ RequestsOK'
  BY <1>1, DoneType DEF CreateFleet
<1>3. QED
  BY <1>1, <1>2 DEF CreateFleet, TypeOK, log, Exists

\* A fleet's deletion takes its agents and their tokens, so no reference dangles.
LEMMA DeleteFleetType ==
  ASSUME TypeOK, RequestsOK, NEW r \in Request, DeleteFleet(r)
  PROVE  (TypeOK /\ RequestsOK)'
<1> DEFINE f    == req[r].op.fleet
           gone == {a \in Agent : agents[a] = f}
<1>1. req[r].op \in Op /\ f \in Fleet
  BY HandledOp, OpFields DEF Kind, DeleteFleet
<1>2. req' \in [Request -> RequestState] /\ RequestsOK'
  BY <1>1, DoneType DEF DeleteFleet
<1>3. /\ fleets' = fleets \ {f}
      /\ agents' = [a \in Agent |-> IF agents[a] = f THEN NoFleet ELSE agents[a]]
      /\ DropTokensOf(gone)
      /\ UNCHANGED <<adminTokens, recorded, phase>>
  BY DEF DeleteFleet
<1>4. fleets' \subseteq Fleet /\ agents' \in [Agent -> fleets' \cup {NoFleet}]
  BY <1>3 DEF TypeOK
<1>5. /\ tokens' \in [Prefix -> AgentTokenRow \cup {NoRow}]
      /\ promise' \in [Token -> {"none", "works", "dead"}]
  BY <1>3, DropTokensType
<1>6. \A p \in Prefix : tokens'[p] # NoRow => agents'[tokens'[p].agent] # NoFleet
  <2> SUFFICES ASSUME NEW p \in Prefix, tokens'[p] # NoRow
               PROVE  agents'[tokens'[p].agent] # NoFleet
    OBVIOUS
  <2>1. tokens'[p] = tokens[p] /\ tokens[p] # NoRow /\ tokens[p].agent \notin gone
    BY <1>3, DropTokensType
  <2>2. tokens[p].agent \in Agent /\ agents[tokens[p].agent] # NoFleet
    BY <2>1 DEF TypeOK, AgentTokenRow, Exists
  <2>3. QED
    BY <1>3, <2>1, <2>2
<1>7. audit' \in Seq(Entry) /\ \A i \in DOMAIN audit' : audit'[i].fleet \in fleets' \cup {NoFleet}
  <2> DEFINE g(i) == IF audit[i].fleet = f THEN [audit[i] EXCEPT !.fleet = NoFleet]
                     ELSE audit[i]
  <2>1. audit' = [i \in DOMAIN audit |-> g(i)]
    BY DEF DeleteFleet
  <2>2. \A i \in 1..Len(audit) :
           /\ audit[i] \in Entry
           /\ audit[i].fleet \in fleets \cup {NoFleet}
    BY DEF TypeOK
  <2>3. \A e \in Entry : [e EXCEPT !.fleet = NoFleet] \in Entry
                         /\ [e EXCEPT !.fleet = NoFleet].fleet = NoFleet
    BY DEF Entry
  <2>4. \A i \in 1..Len(audit) : g(i) \in Entry /\ g(i).fleet \in fleets' \cup {NoFleet}
    BY <1>3, <2>2, <2>3
  <2>5. DOMAIN audit = 1..Len(audit) /\ Len(audit) \in Nat
    BY DEF TypeOK
  <2> HIDE DEF g
  <2>6. audit' \in [1..Len(audit) -> Entry]
    BY <2>1, <2>4, <2>5
  <2>7. audit' \in Seq(Entry)
    BY <2>5, <2>6
  <2>8. QED
    BY <2>1, <2>4, <2>5, <2>7
<1>8. QED
  BY <1>2, <1>3, <1>4, <1>5, <1>6, <1>7 DEF TypeOK, Exists

\* A new agent is created under a fleet that exists.
LEMMA CreateAgentType ==
  ASSUME TypeOK, RequestsOK, NEW r \in Request, CreateAgent(r)
  PROVE  (TypeOK /\ RequestsOK)'
<1>1. req[r].op \in Op /\ req[r].op.agent \in Agent
  BY HandledOp, OpFields DEF Kind, CreateAgent
<1>2. req' \in [Request -> RequestState] /\ RequestsOK'
  BY <1>1, DoneType DEF CreateAgent
<1>3. \A p \in Prefix : tokens[p] # NoRow => tokens[p].agent \in Agent
  BY DEF TypeOK, AgentTokenRow
<1>4. QED
  BY <1>1, <1>2, <1>3, ConstantsAssumption DEF CreateAgent, TypeOK, log, Exists

\* An agent's deletion takes its tokens along.
LEMMA DeleteAgentType ==
  ASSUME TypeOK, RequestsOK, NEW r \in Request, DeleteAgent(r)
  PROVE  (TypeOK /\ RequestsOK)'
<1> DEFINE a == req[r].op.agent
<1>1. req[r].op \in Op /\ a \in Agent
  BY HandledOp, OpFields DEF Kind, DeleteAgent
<1>2. req' \in [Request -> RequestState] /\ RequestsOK'
  BY <1>1, DoneType DEF DeleteAgent
<1>3. /\ agents' = [agents EXCEPT ![a] = NoFleet]
      /\ DropTokensOf({a})
      /\ UNCHANGED <<fleets, adminTokens, log, phase>>
  BY DEF DeleteAgent
<1>4. /\ tokens' \in [Prefix -> AgentTokenRow \cup {NoRow}]
      /\ promise' \in [Token -> {"none", "works", "dead"}]
  BY <1>3, DropTokensType
<1>5. \A p \in Prefix : tokens'[p] # NoRow => agents'[tokens'[p].agent] # NoFleet
  <2> SUFFICES ASSUME NEW p \in Prefix, tokens'[p] # NoRow
               PROVE  agents'[tokens'[p].agent] # NoFleet
    OBVIOUS
  <2>1. tokens'[p] = tokens[p] /\ tokens[p] # NoRow /\ tokens[p].agent \notin {a}
    BY <1>3, DropTokensType
  <2>2. tokens[p].agent \in Agent /\ agents[tokens[p].agent] # NoFleet
    BY <2>1 DEF TypeOK, AgentTokenRow, Exists
  <2>3. QED
    BY <1>3, <2>1, <2>2 DEF TypeOK
<1>6. QED
  BY <1>2, <1>3, <1>4, <1>5 DEF TypeOK, log, Exists

\* A mint inserts under an agent that still exists.
LEMMA MintTokenType ==
  ASSUME TypeOK, RequestsOK, NEW r \in Request, MintToken(r)
  PROVE  (TypeOK /\ RequestsOK)'
<1>1. PICK t \in Token : /\ Exists(req[r].op.agent)
                         /\ InsertToken(t, req[r].op.agent)
                         /\ UNCHANGED <<log, phase>>
                         /\ Done(r)
  BY DEF MintToken
<1>2. req[r].op \in Op /\ req[r].op.agent \in Agent
  <2>1. req[r].op.kind = "mintToken" /\ req[r].op \in Op \cup {AgentCall}
    BY DEF MintToken, RequestsOK, RequestOK, TypeOK, RequestState
  <2>2. req[r].op \in Op
    BY <2>1 DEF AgentCall
  <2>3. QED
    BY <2>1, <2>2, OpFields
<1>3. req' \in [Request -> RequestState] /\ RequestsOK'
  BY <1>1, <1>2, DoneType
<1>4. /\ tokens' \in [Prefix -> AgentTokenRow \cup {NoRow}]
      /\ promise' \in [Token -> {"none", "works", "dead"}]
      /\ UNCHANGED <<fleets, agents, adminTokens>>
      /\ \A p \in Prefix : tokens'[p] # NoRow => Exists(tokens'[p].agent)
  BY <1>1, <1>2, InsertTokenType
<1>5. QED
  BY <1>1, <1>3, <1>4 DEF TypeOK, log, Exists

\* A mint of an admin token.
LEMMA MintAdminTokenType ==
  ASSUME TypeOK, RequestsOK, NEW r \in Request, MintAdminToken(r)
  PROVE  (TypeOK /\ RequestsOK)'
<1>1. PICK t \in Token : InsertAdminToken(t) /\ UNCHANGED <<log, phase>> /\ Done(r)
  BY DEF MintAdminToken
<1>2. req[r].op \in Op
  BY HandledOp DEF Kind, MintAdminToken
<1>3. req' \in [Request -> RequestState] /\ RequestsOK'
  BY <1>1, <1>2, DoneType
<1>4. QED
  BY <1>1, <1>3, InsertAdminTokenType DEF TypeOK, log, Exists

\* A revocation only sets revoked_at.
LEMMA RevokeTokenType ==
  ASSUME TypeOK, RequestsOK, NEW r \in Request, RevokeToken(r)
  PROVE  (TypeOK /\ RequestsOK)'
<1> DEFINE p == req[r].op.prefix
<1>1. req[r].op \in Op /\ p \in Prefix
  BY HandledOp, OpFields DEF Kind, RevokeToken
<1>2. req' \in [Request -> RequestState] /\ RequestsOK'
  BY <1>1, DoneType DEF RevokeToken
<1>3. tokens[p] # NoRow /\ tokens[p] \in AgentTokenRow
  BY <1>1 DEF RevokeToken, Revocable, TypeOK
<1>4. [tokens[p] EXCEPT !.revoked = TRUE] \in AgentTokenRow
      /\ [tokens[p] EXCEPT !.revoked = TRUE].agent = tokens[p].agent
  BY <1>3 DEF AgentTokenRow
<1>5. tokens' = [tokens EXCEPT ![p] = [tokens[p] EXCEPT !.revoked = TRUE]]
      /\ promise' = [promise EXCEPT ![tokens[p].token] = "dead"]
      /\ UNCHANGED <<fleets, agents, adminTokens, log, phase>>
  BY DEF RevokeToken
<1>6. QED
  BY <1>1, <1>2, <1>3, <1>4, <1>5 DEF TypeOK, log, Exists

\* A revocation of an admin token only sets revoked_at.
LEMMA RevokeAdminTokenType ==
  ASSUME TypeOK, RequestsOK, NEW r \in Request, RevokeAdminToken(r)
  PROVE  (TypeOK /\ RequestsOK)'
<1> DEFINE p == req[r].op.prefix
<1>1. req[r].op \in Op /\ p \in Prefix
  BY HandledOp, OpFields DEF Kind, RevokeAdminToken
<1>2. req' \in [Request -> RequestState] /\ RequestsOK'
  BY <1>1, DoneType DEF RevokeAdminToken
<1>3. adminTokens[p] # NoRow /\ adminTokens[p] \in AdminTokenRow
  BY <1>1 DEF RevokeAdminToken, RevocableAdmin, TypeOK
<1>4. [adminTokens[p] EXCEPT !.revoked = TRUE] \in AdminTokenRow
  BY <1>3 DEF AdminTokenRow
<1>5. adminTokens' = [adminTokens EXCEPT ![p] = [adminTokens[p] EXCEPT !.revoked = TRUE]]
      /\ promise' = [promise EXCEPT ![adminTokens[p].token] = "dead"]
      /\ UNCHANGED <<fleets, agents, tokens, log, phase>>
  BY DEF RevokeAdminToken
<1>6. QED
  BY <1>1, <1>2, <1>3, <1>4, <1>5 DEF TypeOK, log, Exists

\* A row of the log carries a fleet that exists, or NULL.
LEMMA AppendType ==
  ASSUME TypeOK, RequestsOK, NEW r \in Request, AppendAuditEntry(r)
  PROVE  (TypeOK /\ RequestsOK)'
<1>1. /\ req' \in [Request -> RequestState] /\ RequestsOK'
  BY IdleAgain DEF AppendAuditEntry
<1>2. AuditRow(req[r]) \in Entry /\ AuditRow(req[r]).fleet \in fleets \cup {NoFleet}
  BY AuditRowType DEF AppendAuditEntry, AuditRow
<1>3. audit' = Append(audit, AuditRow(req[r]))
  BY DEF AppendAuditEntry
<1>4. /\ audit' \in Seq(Entry)
      /\ \A i \in DOMAIN audit' : audit'[i].fleet \in fleets \cup {NoFleet}
  <2> DEFINE e == AuditRow(req[r])
  <2>1. audit \in Seq(Entry) /\ e \in Entry /\ audit' = Append(audit, e)
    BY <1>2, <1>3 DEF TypeOK
  <2>2. e.fleet \in fleets \cup {NoFleet}
    BY <1>2
  <2>3. \A i \in DOMAIN audit : audit[i].fleet \in fleets \cup {NoFleet}
    BY DEF TypeOK
  <2> HIDE DEF e
  <2>4. /\ audit' \in Seq(Entry) /\ Len(audit') = Len(audit) + 1
        /\ \A i \in 1..Len(audit) : audit'[i] = audit[i]
        /\ audit'[Len(audit) + 1] = e
    BY <2>1
  <2>5. QED
    BY <2>1, <2>2, <2>3, <2>4
<1>5. QED
  BY <1>1, <1>4 DEF AppendAuditEntry, TypeOK, rows, Exists

\* The seed runs alone, and each step of it finds what the last one made sure of.
SeedOK ==
    /\ phase # "up" => \A r \in Request : req[r] = Idle
    /\ phase = "agent" => DemoFleet \in fleets
    /\ phase = "token" => Exists(DemoAgent)

\* The seed mints for an agent that is there: nothing ran since it was seeded.
LEMMA SeedTokenType ==
  ASSUME TypeOK, RequestsOK, SeedOK, SeedToken
  PROVE  (TypeOK /\ RequestsOK)'
<1>1. CASE IsFree(tokens, PrefixOf[DemoToken])
  <2>1. InsertToken(DemoToken, DemoAgent) /\ Exists(DemoAgent)
    BY <1>1 DEF SeedToken, SeedOK
  <2>2. /\ tokens' \in [Prefix -> AgentTokenRow \cup {NoRow}]
        /\ promise' \in [Token -> {"none", "works", "dead"}]
        /\ UNCHANGED <<fleets, agents, adminTokens>>
        /\ \A p \in Prefix : tokens'[p] # NoRow => Exists(tokens'[p].agent)
    BY <2>1, InsertTokenType, ConstantsAssumption
  <2>3. QED
    BY <2>2 DEF SeedToken, TypeOK, RequestsOK, log, Exists
<1>2. CASE ~IsFree(tokens, PrefixOf[DemoToken])
  BY <1>2 DEF SeedToken, TypeOK, RequestsOK, log, rows, Exists
<1>3. QED
  BY <1>1, <1>2

\* The steps that change no table.
LEMMA QuietType ==
  ASSUME TypeOK, RequestsOK, NEW r \in Request,
         \/ RequireAdmin(r) \/ AuthenticateAgent(r) \/ AnswerAgent(r)
         \/ GetAgent(r) \/ Reject(r) \/ AppendFails(r)
  PROVE  (TypeOK /\ RequestsOK)'
<1>1. req' \in [Request -> RequestState] /\ RequestsOK'
  <2>1. CASE RequireAdmin(r)
    <3>1. PICK cred \in Actor, op \in Op : Begin(r, cred, op)
      BY <2>1 DEF RequireAdmin, Actor
    <3>2. QED
      BY <3>1, BeginType
  <2>2. CASE AuthenticateAgent(r)
    <3>1. PICK t \in Token : Begin(r, t, AgentCall)
      BY <2>2 DEF AuthenticateAgent
    <3>2. QED
      BY <3>1, BeginType DEF Actor
  <2>3. CASE AnswerAgent(r) \/ AppendFails(r)
    BY <2>3, IdleAgain DEF AnswerAgent, AppendFails
  <2>4. CASE GetAgent(r)
    <3>1. req[r] \in RequestState /\ req[r].op.kind = "mintToken"
      BY <2>4 DEF TypeOK, GetAgent, Handles
    <3>2. req' = [req EXCEPT ![r] = [req[r] EXCEPT !.pc = "insert"]]
      BY <2>4 DEF GetAgent
    <3>3. [req[r] EXCEPT !.pc = "insert"] \in RequestState
          /\ RequestOK([req[r] EXCEPT !.pc = "insert"])
      BY <3>1 DEF RequestState, RequestOK
    <3>4. QED
      BY <3>2, <3>3 DEF TypeOK, RequestsOK
  <2>5. CASE Reject(r)
    <3>1. req[r].op \in Op
      BY <2>5 DEF Reject, TypeOK, RequestState, AgentCall
    <3>2. QED
      BY <2>5, <3>1, AnswerType DEF Reject
  <2>6. QED
    BY <2>1, <2>2, <2>3, <2>4, <2>5
<1>2. UNCHANGED <<rows, promise, log, phase>>
  BY DEF RequireAdmin, AuthenticateAgent, Begin, AnswerAgent, GetAgent, Reject, AppendFails
<1>3. QED
  BY <1>1, <1>2 DEF TypeOK, rows, log, Exists

\* A request is only at work while the server is up, and leaves it up.
LEMMA RequestStepsKeepPhase ==
  ASSUME TypeOK, SeedOK, NEW r \in Request,
         \/ RequireAdmin(r) \/ AuthenticateAgent(r) \/ AnswerAgent(r) \/ CreateFleet(r)
         \/ DeleteFleet(r) \/ CreateAgent(r) \/ DeleteAgent(r) \/ GetAgent(r) \/ MintToken(r)
         \/ MintAdminToken(r) \/ RevokeToken(r) \/ RevokeAdminToken(r) \/ Reject(r)
         \/ AppendAuditEntry(r) \/ AppendFails(r)
  PROVE  SeedOK'
<1>1. phase' = phase
  BY DEF RequireAdmin, AuthenticateAgent, Begin, AnswerAgent, CreateFleet, DeleteFleet,
         CreateAgent, DeleteAgent, GetAgent, MintToken, MintAdminToken, RevokeToken,
         RevokeAdminToken, Reject, AppendAuditEntry, AppendFails
<1>2. CASE RequireAdmin(r) \/ AuthenticateAgent(r)
  BY <1>1, <1>2 DEF RequireAdmin, AuthenticateAgent, Begin, SeedOK
<1>3. CASE ~(RequireAdmin(r) \/ AuthenticateAgent(r))
  <2>1. req[r].pc # "idle"
    BY <1>3 DEF AnswerAgent, CreateFleet, DeleteFleet, CreateAgent, DeleteAgent, GetAgent,
                MintToken, MintAdminToken, RevokeToken, RevokeAdminToken, Reject,
                AppendAuditEntry, AppendFails, Handles
  <2>2. phase = "up"
    BY <2>1 DEF SeedOK, Idle
  <2>3. QED
    BY <1>1, <2>2 DEF SeedOK
<1>4. QED
  BY <1>2, <1>3

\* Types, and what the seed has done: its own steps and a restart.
LEMMA SeedType ==
  ASSUME TypeOK, RequestsOK, SeedOK, SeedFleet \/ SeedAgent \/ SeedToken \/ Restart
  PROVE  (TypeOK /\ RequestsOK /\ SeedOK)'
<1>1. CASE SeedFleet
  BY <1>1, ConstantsAssumption DEF SeedFleet, TypeOK, RequestsOK, SeedOK, log, Exists
<1>2. CASE SeedAgent
  <2>1. TypeOK' /\ RequestsOK'
    <3>1. agents' \in [Agent -> fleets \cup {NoFleet}]
          /\ \A a \in Agent : Exists(a) => agents'[a] # NoFleet
      BY <1>2, ConstantsAssumption DEF SeedAgent, SeedOK, TypeOK, Exists
    <3>2. \A p \in Prefix : tokens[p] # NoRow => tokens[p].agent \in Agent
      BY DEF TypeOK, AgentTokenRow
    <3>3. QED
      BY <1>2, <3>1, <3>2 DEF SeedAgent, TypeOK, RequestsOK, log, Exists
  <2>2. agents'[DemoAgent] # NoFleet
    BY <1>2, ConstantsAssumption DEF SeedAgent, TypeOK, Exists
  <2>3. SeedOK'
    BY <1>2, <2>2 DEF SeedAgent, SeedOK, Exists
  <2>4. QED
    BY <2>1, <2>3
<1>3. CASE SeedToken
  <2>1. (TypeOK /\ RequestsOK)'
    BY <1>3, SeedTokenType
  <2>2. SeedOK'
    BY <1>3 DEF SeedToken, SeedOK
  <2>3. QED
    BY <2>1, <2>2
<1>4. CASE Restart
  BY <1>4, IdleType DEF Restart, TypeOK, RequestsOK, SeedOK, rows, log, Exists
<1>5. QED
  BY <1>1, <1>2, <1>3, <1>4

TypeInv == TypeOK /\ RequestsOK /\ SeedOK

\* Types: every step.
LEMMA NextType ==
  ASSUME TypeInv, [Next]_vars
  PROVE  TypeInv'
<1> USE DEF TypeInv
<1>1. CASE SeedFleet \/ SeedAgent \/ SeedToken \/ Restart
  BY <1>1, SeedType
<1>2. CASE UNCHANGED vars
  BY <1>2 DEF vars, rows, log, TypeOK, RequestsOK, SeedOK, Exists
<1>3. ASSUME NEW r \in Request,
             \/ RequireAdmin(r) \/ AuthenticateAgent(r) \/ AnswerAgent(r)
             \/ GetAgent(r) \/ Reject(r) \/ AppendFails(r)
      PROVE  TypeInv'
  BY <1>3, QuietType, RequestStepsKeepPhase
<1>4. ASSUME NEW r \in Request,
             \/ CreateFleet(r) \/ DeleteFleet(r) \/ CreateAgent(r) \/ DeleteAgent(r)
      PROVE  TypeInv'
  BY <1>4, CreateFleetType, DeleteFleetType, CreateAgentType, DeleteAgentType,
     RequestStepsKeepPhase
<1>5. ASSUME NEW r \in Request,
             \/ MintToken(r) \/ MintAdminToken(r) \/ RevokeToken(r) \/ RevokeAdminToken(r)
             \/ AppendAuditEntry(r)
      PROVE  TypeInv'
  BY <1>5, MintTokenType, MintAdminTokenType, RevokeTokenType, RevokeAdminTokenType,
     AppendType, RequestStepsKeepPhase
<1>6. QED
  BY <1>1, <1>2, <1>3, <1>4, <1>5 DEF Next

\* Types hold, with what they need of requests and of the seed.
LEMMA TypeInvHolds == Spec => []TypeInv
<1>1. Init => TypeInv
  BY InitTypeOK DEF Init, SeedOK, TypeInv
<1>2. TypeInv /\ [Next]_vars => TypeInv'
  BY NextType
<1>3. QED
  BY <1>1, <1>2, PTL DEF Spec

\* Whatever requests, restarts and seeds interleave, every row keeps its type
\* and every reference of a row is to a row that exists.
THEOREM TypeCorrect == Spec => []TypeOK
<1>1. TypeInv => TypeOK
  BY DEF TypeInv
<1>2. QED
  BY <1>1, TypeInvHolds, PTL

-----------------------------------------------------------------------------
(* Tokens.                                                                 *)

\* A row sits at its token's prefix, and only a row that is not revoked belongs
\* to a token that is meant to work.
RowOK(row, p) ==
    /\ PrefixOf[row.token] = p
    /\ promise[row.token] # "none"
    /\ ~row.revoked => promise[row.token] = "works"

TokensOK ==
    \A p \in Prefix :
        /\ tokens[p] # NoRow => RowOK(tokens[p], p)
        /\ adminTokens[p] # NoRow =>
              RowOK(adminTokens[p], p) /\ adminTokens[p].token # DemoToken
        /\ tokens[p] # NoRow /\ adminTokens[p] # NoRow =>
              tokens[p].token # adminTokens[p].token

\* A plaintext that was drawn stays drawn.
DrawnForGood == \A t \in Token : promise[t] # "none" => promise'[t] # "none"

\* What is read at a prefix, if there is a row.
LEMMA RowTypes ==
  ASSUME TypeOK, NEW p \in Prefix
  PROVE  /\ tokens[p] # NoRow => tokens[p] \in AgentTokenRow /\ tokens[p].token \in Token
         /\ adminTokens[p] # NoRow =>
               adminTokens[p] \in AdminTokenRow /\ adminTokens[p].token \in Token
  BY DEF TypeOK, AgentTokenRow, AdminTokenRow

\* A cascade kills the tokens of the agents that go, and no others.
LEMMA DropTokensKeeps ==
  ASSUME TypeOK, TokensOK, HandedOutWorks, NEW gone, DropTokensOf(gone),
         adminTokens' = adminTokens
  PROVE  TokensOK' /\ HandedOutWorks' /\ DrawnForGood
<1> DEFINE dropped(t) == \E p \in Prefix : /\ tokens[p] # NoRow
                                           /\ tokens[p].agent \in gone
                                           /\ tokens[p].token = t
<1>1. /\ tokens' = [p \in Prefix |->
                      IF tokens[p] # NoRow /\ tokens[p].agent \in gone
                      THEN NoRow ELSE tokens[p]]
      /\ promise' = [t \in Token |-> IF dropped(t) THEN "dead" ELSE promise[t]]
  BY DEF DropTokensOf
<1>2. ASSUME NEW p \in Prefix, tokens[p] # NoRow, tokens[p].agent \notin gone
      PROVE  ~dropped(tokens[p].token)
  BY <1>2 DEF TokensOK, RowOK
<1>3. ASSUME NEW p \in Prefix, adminTokens[p] # NoRow
      PROVE  ~dropped(adminTokens[p].token)
  BY <1>3 DEF TokensOK, RowOK
<1> HIDE DEF dropped
<1>4. TokensOK'
  BY <1>1, <1>2, <1>3, RowTypes DEF TokensOK, RowOK
<1>5. HandedOutWorks'
  <2> SUFFICES ASSUME NEW t \in Token, promise'[t] = "works"
               PROVE  LookupToken(t)' \/ LookupAdminToken(t)'
    BY DEF HandedOutWorks
  <2>1. ~dropped(t) /\ promise[t] = "works" /\ PrefixOf[t] \in Prefix
    BY <1>1, ConstantsAssumption
  <2>2. CASE LookupToken(t)
    <3>1. tokens[PrefixOf[t]] # NoRow /\ tokens[PrefixOf[t]].token = t
      BY <2>2 DEF LookupToken
    <3>2. tokens'[PrefixOf[t]] = tokens[PrefixOf[t]]
      BY <1>1, <2>1, <3>1 DEF dropped
    <3>3. QED
      BY <2>2, <3>2 DEF LookupToken
  <2>3. CASE LookupAdminToken(t)
    BY <2>3 DEF LookupAdminToken
  <2>4. QED
    BY <2>1, <2>2, <2>3 DEF HandedOutWorks
<1>6. DrawnForGood
  BY <1>1 DEF DrawnForGood
<1>7. QED
  BY <1>4, <1>5, <1>6

\* A mint at a free prefix, of a token in no other table.
LEMMA InsertTokenKeeps ==
  ASSUME TypeOK, TokensOK, HandedOutWorks, NEW t \in Token, NEW a \in Agent,
         InsertToken(t, a), IsFree(tokens, PrefixOf[t]),
         \A p \in Prefix : adminTokens[p] # NoRow => adminTokens[p].token # t
  PROVE  TokensOK' /\ HandedOutWorks' /\ DrawnForGood
<1> DEFINE row == [token |-> t, agent |-> a, revoked |-> FALSE]
<1>1. /\ tokens' = [tokens EXCEPT ![PrefixOf[t]] = row]
      /\ promise' = [promise EXCEPT ![t] = "works"]
      /\ adminTokens' = adminTokens
      /\ tokens[PrefixOf[t]] = NoRow
      /\ PrefixOf[t] \in Prefix
  BY ConstantsAssumption DEF InsertToken, IsFree
<1>2. row # NoRow /\ row.token = t /\ row.revoked = FALSE
  <2>1. row \in AgentTokenRow
    BY DEF AgentTokenRow
  <2>2. row # NoRow
    BY <2>1, NoRowAssumption
  <2>3. row.token = t /\ row.revoked = FALSE
    OBVIOUS
  <2>4. QED
    BY <2>2, <2>3
<1> HIDE DEF row
<1>3. TokensOK'
  BY <1>1, <1>2, RowTypes DEF TokensOK, RowOK, TypeOK
<1>4. HandedOutWorks'
  BY <1>1, <1>2 DEF HandedOutWorks, LookupToken, LookupAdminToken, TypeOK
<1>5. DrawnForGood
  BY <1>1 DEF DrawnForGood, TypeOK
<1>6. QED
  BY <1>3, <1>4, <1>5

\* A mint of an admin token that nobody drew before.
LEMMA InsertAdminTokenKeeps ==
  ASSUME TypeOK, TokensOK, HandedOutWorks, NEW t \in Token, Drawn(t),
         InsertAdminToken(t), IsFree(adminTokens, PrefixOf[t])
  PROVE  TokensOK' /\ HandedOutWorks' /\ DrawnForGood
<1> DEFINE row == [token |-> t, revoked |-> FALSE]
<1>1. /\ adminTokens' = [adminTokens EXCEPT ![PrefixOf[t]] = row]
      /\ promise' = [promise EXCEPT ![t] = "works"]
      /\ tokens' = tokens
      /\ adminTokens[PrefixOf[t]] = NoRow
      /\ PrefixOf[t] \in Prefix
  BY ConstantsAssumption DEF InsertAdminToken, IsFree
<1>2. row # NoRow /\ row.token = t /\ row.revoked = FALSE
  <2>1. row \in AdminTokenRow
    BY DEF AdminTokenRow
  <2>2. row # NoRow
    BY <2>1, NoRowAssumption
  <2>3. row.token = t /\ row.revoked = FALSE
    OBVIOUS
  <2>4. QED
    BY <2>2, <2>3
<1>3. \A p \in Prefix : tokens[p] # NoRow => tokens[p].token # t
  BY DEF Drawn, TokensOK, RowOK
<1>4. t # DemoToken
  BY DEF Drawn
<1> HIDE DEF row
<1>5. TokensOK'
  BY <1>1, <1>2, <1>3, <1>4, RowTypes DEF TokensOK, RowOK, TypeOK
<1>6. HandedOutWorks'
  BY <1>1, <1>2 DEF HandedOutWorks, LookupToken, LookupAdminToken, TypeOK
<1>7. DrawnForGood
  BY <1>1 DEF DrawnForGood, TypeOK
<1>8. QED
  BY <1>5, <1>6, <1>7

\* A revocation kills the token whose row it marks, and no other token.
LEMMA RevokeTokenKeeps ==
  ASSUME TypeOK, TokensOK, HandedOutWorks, NEW r \in Request, RevokeToken(r)
  PROVE  TokensOK' /\ HandedOutWorks' /\ DrawnForGood
<1> DEFINE p   == req[r].op.prefix
           t   == tokens[p].token
           row == [tokens[p] EXCEPT !.revoked = TRUE]
<1>1. p \in Prefix /\ tokens[p] # NoRow
  BY HandledOp, OpFields DEF Kind, RevokeToken, Revocable
<1>2. tokens[p] \in AgentTokenRow /\ t \in Token
  BY <1>1, RowTypes
<1>3. row # NoRow /\ row.token = t /\ row.revoked = TRUE
  BY <1>2, NoRowAssumption DEF AgentTokenRow
<1>4. /\ tokens' = [tokens EXCEPT ![p] = row]
      /\ promise' = [promise EXCEPT ![t] = "dead"]
      /\ adminTokens' = adminTokens
  BY DEF RevokeToken
<1>5. PrefixOf[t] = p
  BY <1>1 DEF TokensOK, RowOK
<1> HIDE DEF row, t, p
<1>6. /\ \A q \in Prefix : tokens[q] # NoRow /\ q # p => tokens[q].token # t
      /\ \A q \in Prefix : adminTokens[q] # NoRow => adminTokens[q].token # t
  BY <1>1, <1>5 DEF TokensOK, RowOK, t
<1>7. TokensOK'
  BY <1>1, <1>2, <1>3, <1>4, <1>5, <1>6, RowTypes DEF TokensOK, RowOK, TypeOK, t
<1>8. HandedOutWorks'
  BY <1>2, <1>3, <1>4, <1>5, <1>6 DEF HandedOutWorks, LookupToken, LookupAdminToken, TypeOK, t
<1>9. DrawnForGood
  BY <1>4 DEF DrawnForGood, TypeOK
<1>10. QED
  BY <1>7, <1>8, <1>9

\* The same for admin tokens.
LEMMA RevokeAdminTokenKeeps ==
  ASSUME TypeOK, TokensOK, HandedOutWorks, NEW r \in Request, RevokeAdminToken(r)
  PROVE  TokensOK' /\ HandedOutWorks' /\ DrawnForGood
<1> DEFINE p   == req[r].op.prefix
           t   == adminTokens[p].token
           row == [adminTokens[p] EXCEPT !.revoked = TRUE]
<1>1. p \in Prefix /\ adminTokens[p] # NoRow
  BY HandledOp, OpFields DEF Kind, RevokeAdminToken, RevocableAdmin
<1>2. adminTokens[p] \in AdminTokenRow /\ t \in Token
  BY <1>1, RowTypes
<1>3. row # NoRow /\ row.token = t /\ row.revoked = TRUE
  BY <1>2, NoRowAssumption DEF AdminTokenRow
<1>4. /\ adminTokens' = [adminTokens EXCEPT ![p] = row]
      /\ promise' = [promise EXCEPT ![t] = "dead"]
      /\ tokens' = tokens
  BY DEF RevokeAdminToken
<1>5. PrefixOf[t] = p /\ t # DemoToken
  BY <1>1 DEF TokensOK, RowOK
<1> HIDE DEF row, t, p
<1>6. /\ \A q \in Prefix : adminTokens[q] # NoRow /\ q # p => adminTokens[q].token # t
      /\ \A q \in Prefix : tokens[q] # NoRow => tokens[q].token # t
  BY <1>1, <1>5 DEF TokensOK, RowOK, t
<1>7. TokensOK'
  BY <1>1, <1>2, <1>3, <1>4, <1>5, <1>6, RowTypes DEF TokensOK, RowOK, TypeOK, t
<1>8. HandedOutWorks'
  BY <1>2, <1>3, <1>4, <1>5, <1>6 DEF HandedOutWorks, LookupToken, LookupAdminToken, TypeOK, t
<1>9. DrawnForGood
  BY <1>4 DEF DrawnForGood, TypeOK
<1>10. QED
  BY <1>7, <1>8, <1>9

\* Rows and promises agree after every step.
LEMMA NextKeepsTokens ==
  ASSUME TypeInv, TokensOK, HandedOutWorks, [Next]_vars
  PROVE  TokensOK' /\ HandedOutWorks' /\ DrawnForGood
<1>1. TypeOK /\ RequestsOK /\ SeedOK
  BY DEF TypeInv
<1>2. ASSUME NEW r \in Request, MintToken(r)
      PROVE  TokensOK' /\ HandedOutWorks' /\ DrawnForGood
  <2>1. req[r].op.agent \in Agent
    <3>1. req[r].op \in Op
      BY <1>1, <1>2 DEF MintToken, RequestsOK, RequestOK, TypeOK, RequestState, AgentCall
    <3>2. req[r].op.kind = "mintToken"
      BY <1>1, <1>2 DEF MintToken, RequestsOK, RequestOK
    <3>3. QED
      BY <3>1, <3>2, OpFields
  <2>2. PICK t \in Token : /\ Drawn(t)
                           /\ IsFree(tokens, PrefixOf[t])
                           /\ InsertToken(t, req[r].op.agent)
    BY <1>2 DEF MintToken
  <2>3. \A p \in Prefix : adminTokens[p] # NoRow => adminTokens[p].token # t
    BY <2>2 DEF Drawn, TokensOK, RowOK
  <2>4. QED
    BY <1>1, <2>1, <2>2, <2>3, InsertTokenKeeps
<1>3. ASSUME NEW r \in Request, MintAdminToken(r)
      PROVE  TokensOK' /\ HandedOutWorks' /\ DrawnForGood
  BY <1>1, <1>3, InsertAdminTokenKeeps DEF MintAdminToken
<1>4. ASSUME NEW r \in Request, DeleteFleet(r) \/ DeleteAgent(r)
      PROVE  TokensOK' /\ HandedOutWorks' /\ DrawnForGood
  BY <1>1, <1>4, DropTokensKeeps DEF DeleteFleet, DeleteAgent
<1>5. ASSUME NEW r \in Request, RevokeToken(r) \/ RevokeAdminToken(r)
      PROVE  TokensOK' /\ HandedOutWorks' /\ DrawnForGood
  BY <1>1, <1>5, RevokeTokenKeeps, RevokeAdminTokenKeeps
<1>6. CASE SeedToken /\ IsFree(tokens, PrefixOf[DemoToken])
  <2>1. \A p \in Prefix : adminTokens[p] # NoRow => adminTokens[p].token # DemoToken
    BY DEF TokensOK
  <2>2. QED
    BY <1>1, <1>6, <2>1, InsertTokenKeeps, ConstantsAssumption DEF SeedToken
<1>7. CASE UNCHANGED <<tokens, adminTokens, promise>>
  BY <1>7 DEF TokensOK, RowOK, HandedOutWorks, LookupToken, LookupAdminToken, DrawnForGood
<1>8. ASSUME NEW r \in Request,
             \/ RequireAdmin(r) \/ AuthenticateAgent(r) \/ AnswerAgent(r) \/ CreateFleet(r)
             \/ CreateAgent(r) \/ GetAgent(r) \/ Reject(r)
             \/ AppendAuditEntry(r) \/ AppendFails(r)
      PROVE  UNCHANGED <<tokens, adminTokens, promise>>
  BY <1>8 DEF RequireAdmin, AuthenticateAgent, Begin, AnswerAgent, CreateFleet,
              CreateAgent, GetAgent, Reject, AppendAuditEntry, AppendFails, rows
<1>9. CASE \/ SeedFleet \/ SeedAgent \/ Restart \/ UNCHANGED vars
           \/ SeedToken /\ ~IsFree(tokens, PrefixOf[DemoToken])
  <2>1. UNCHANGED <<tokens, adminTokens, promise>>
    BY <1>9 DEF SeedFleet, SeedAgent, SeedToken, Restart, vars, rows
  <2>2. QED
    BY <1>7, <2>1
<1>10. QED
  BY <1>2, <1>3, <1>4, <1>5, <1>6, <1>7, <1>8, <1>9 DEF Next

TokenInv == TokensOK /\ HandedOutWorks

\* Rows and promises agree before the seed.
LEMMA InitTokenInv == Init => TokenInv
  BY ConstantsAssumption DEF Init, TokenInv, TokensOK, HandedOutWorks

\* Rows and promises agree at all times.
LEMMA TokenInvHolds == Spec => [](TypeInv /\ TokenInv)
<1>1. Init => TokenInv
  BY InitTokenInv
<1>2. TypeInv /\ TokenInv /\ [Next]_vars => TokenInv'
  BY NextKeepsTokens DEF TokenInv
<1>3. QED
  BY <1>1, <1>2, TypeInvHolds, PTL DEF Spec

\* A token that was minted works until it is revoked or its agent is deleted,
\* whatever prefixes it shares and whatever is seeded or re-created.
THEOREM MintedTokensWork == Spec => []HandedOutWorks
<1>1. TokenInv => HandedOutWorks
  BY DEF TokenInv
<1>2. QED
  BY <1>1, TokenInvHolds, PTL

\* What authentication accepts is a token that is meant to work.
LEMMA AcceptedWorks ==
  ASSUME TokensOK, NEW t \in Token, LookupToken(t) \/ LookupAdminToken(t)
  PROVE  promise[t] = "works"
<1>1. PrefixOf[t] \in Prefix
  BY ConstantsAssumption
<1>2. QED
  BY <1>1 DEF LookupToken, LookupAdminToken, TokensOK, RowOK

\* A request that starts was let in by one of the two lookups.
LEMMA StartIsAuthenticated ==
  ASSUME TypeOK, [Next]_vars, NEW r \in Request, req[r] = Idle, req'[r] # Idle
  PROVE  /\ RequireAdmin(r) \/ AuthenticateAgent(r)
         /\ req'[r].cred \in Token => LookupToken(req'[r].cred) \/ LookupAdminToken(req'[r].cred)
<1>2. Idle.pc = "idle"
  BY DEF Idle
<1>3. ASSUME NEW q \in Request, NEW v, req' = [req EXCEPT ![q] = v], req[q].pc # "idle"
      PROVE  FALSE
  BY <1>2, <1>3 DEF TypeOK
<1>4. ~(SeedFleet \/ SeedAgent \/ SeedToken \/ Restart \/ UNCHANGED vars)
  BY DEF SeedFleet, SeedAgent, SeedToken, Restart, vars
<1>5. ASSUME NEW q \in Request,
             \/ AnswerAgent(q) \/ GetAgent(q) \/ Reject(q)
             \/ AppendAuditEntry(q) \/ AppendFails(q)
      PROVE  FALSE
  BY <1>3, <1>5 DEF AnswerAgent, GetAgent, Reject, AppendAuditEntry, AppendFails, Handles, Answer
<1>6. ASSUME NEW q \in Request,
             \/ CreateFleet(q) \/ DeleteFleet(q) \/ CreateAgent(q) \/ DeleteAgent(q)
             \/ MintToken(q) \/ MintAdminToken(q) \/ RevokeToken(q) \/ RevokeAdminToken(q)
      PROVE  FALSE
  <2>1. Done(q) /\ req[q].pc # "idle"
    BY <1>6 DEF CreateFleet, DeleteFleet, CreateAgent, DeleteAgent, MintToken,
                MintAdminToken, RevokeToken, RevokeAdminToken, Handles
  <2>2. QED
    BY <1>3, <2>1 DEF Done, Answer
<1>7. PICK q \in Request : RequireAdmin(q) \/ AuthenticateAgent(q)
  BY <1>4, <1>5, <1>6 DEF Next
<1>8. PICK cred \in Actor : /\ cred \in Token => LookupToken(cred) \/ LookupAdminToken(cred)
                            /\ \E op : Begin(q, cred, op)
  BY <1>7, ConstantsAssumption DEF RequireAdmin, AuthenticateAgent, Actor
<1>9. PICK op : Begin(q, cred, op)
  BY <1>8
<1>10. q = r
  BY <1>9 DEF Begin, TypeOK
<1>11. req'[r].cred = cred
  BY <1>9, <1>10 DEF Begin, TypeOK, Idle
<1>12. QED
  BY <1>7, <1>8, <1>10, <1>11

\* No request starts with a token that was revoked, or that went with its agent
\* or fleet.
THEOREM RevokedRefused == Spec => RevokedIsRefused
<1> DEFINE Refuses == \A r \in Request :
              req[r] = Idle /\ req'[r] # Idle /\ req'[r].cred \in Token
                 => promise[req'[r].cred] = "works"
<1>1. TypeInv /\ TokenInv /\ [Next]_vars => Refuses
  BY StartIsAuthenticated, AcceptedWorks DEF TypeInv, TokenInv
<1>2. Refuses => [Refuses]_vars
  OBVIOUS
<1>3. QED
  BY <1>1, <1>2, TokenInvHolds, PTL DEF Spec, RevokedIsRefused

-----------------------------------------------------------------------------
(* The audit log.                                                          *)

\* A request's credential was handed out, and a 2xx stands for a changed row.
AnsweredOK ==
    \A r \in Request :
        /\ req[r].cred \in Token => promise[req[r].cred] # "none"
        /\ req[r].pc = "audit" /\ req[r].ok => req[r].did

AuditInv == AuditIsTrue /\ AnsweredOK

\* Every handler that answers 2xx has changed a row.
LEMMA HandlersChangeRows ==
  ASSUME TypeInv, NEW r \in Request,
         \/ CreateFleet(r) \/ DeleteFleet(r) \/ CreateAgent(r) \/ DeleteAgent(r)
         \/ MintToken(r) \/ MintAdminToken(r) \/ RevokeToken(r) \/ RevokeAdminToken(r)
  PROVE  rows' # rows
<1>1. TypeOK /\ RequestsOK
  BY DEF TypeInv
<1>2. CASE CreateFleet(r)
  BY <1>2 DEF CreateFleet, rows
<1>3. CASE DeleteFleet(r)
  BY <1>3 DEF DeleteFleet, rows
<1>4. CASE CreateAgent(r)
  <2>1. req[r].op.agent \in Agent
    BY <1>1, <1>4, HandledOp, OpFields DEF Kind, CreateAgent
  <2>2. agents'[req[r].op.agent] # NoFleet
    BY <1>1, <1>4, <2>1, ConstantsAssumption DEF CreateAgent, TypeOK
  <2>3. agents' # agents
    BY <1>4, <2>2 DEF CreateAgent, Exists
  <2>4. QED
    BY <2>3 DEF rows
<1>5. CASE DeleteAgent(r)
  <2>1. req[r].op.agent \in Agent
    BY <1>1, <1>5, HandledOp, OpFields DEF Kind, DeleteAgent
  <2>2. agents' # agents
    BY <1>1, <1>5, <2>1 DEF DeleteAgent, TypeOK, Exists
  <2>3. QED
    BY <2>2 DEF rows
<1>6. CASE MintToken(r)
  <2>1. PICK t \in Token : /\ tokens[PrefixOf[t]] = NoRow
                           /\ InsertToken(t, req[r].op.agent)
    BY <1>6 DEF MintToken, IsFree
  <2>2. req[r].op.agent \in Agent
    <3>1. req[r].op \in Op /\ req[r].op.kind = "mintToken"
      BY <1>1, <1>6 DEF MintToken, RequestsOK, RequestOK, TypeOK, RequestState, AgentCall
    <3>2. QED
      BY <3>1, OpFields
  <2>3. [token |-> t, agent |-> req[r].op.agent, revoked |-> FALSE] \in AgentTokenRow
    BY <2>2 DEF AgentTokenRow
  <2>4. tokens'[PrefixOf[t]] # NoRow
    BY <1>1, <2>1, <2>3, NoRowAssumption, ConstantsAssumption DEF InsertToken, TypeOK
  <2>5. QED
    BY <2>1, <2>4 DEF rows
<1>7. CASE MintAdminToken(r)
  <2>1. PICK t \in Token : adminTokens[PrefixOf[t]] = NoRow /\ InsertAdminToken(t)
    BY <1>7 DEF MintAdminToken, IsFree
  <2>2. [token |-> t, revoked |-> FALSE] \in AdminTokenRow
    BY DEF AdminTokenRow
  <2>3. adminTokens'[PrefixOf[t]] # NoRow
    BY <1>1, <2>1, <2>2, NoRowAssumption, ConstantsAssumption DEF InsertAdminToken, TypeOK
  <2>4. QED
    BY <2>1, <2>3 DEF rows
<1>8. CASE RevokeToken(r)
  <2>1. req[r].op.prefix \in Prefix
    BY <1>1, <1>8, HandledOp, OpFields DEF Kind, RevokeToken
  <2>2. tokens[req[r].op.prefix] \in AgentTokenRow /\ ~tokens[req[r].op.prefix].revoked
    BY <1>1, <1>8, <2>1, RowTypes DEF RevokeToken, Revocable
  <2>3. tokens'[req[r].op.prefix].revoked = TRUE
    BY <1>1, <1>8, <2>1, <2>2 DEF RevokeToken, TypeOK, AgentTokenRow
  <2>4. QED
    BY <2>2, <2>3 DEF rows
<1>9. CASE RevokeAdminToken(r)
  <2>1. req[r].op.prefix \in Prefix
    BY <1>1, <1>9, HandledOp, OpFields DEF Kind, RevokeAdminToken
  <2>2. adminTokens[req[r].op.prefix] \in AdminTokenRow /\ ~adminTokens[req[r].op.prefix].revoked
    BY <1>1, <1>9, <2>1, RowTypes DEF RevokeAdminToken, RevocableAdmin
  <2>3. adminTokens'[req[r].op.prefix].revoked = TRUE
    BY <1>1, <1>9, <2>1, <2>2 DEF RevokeAdminToken, TypeOK, AdminTokenRow
  <2>4. QED
    BY <2>2, <2>3 DEF rows
<1>10. QED
  BY <1>2, <1>3, <1>4, <1>5, <1>6, <1>7, <1>8, <1>9

\* A request that is replaced by a truthful one.
LEMMA AnsweredAfter ==
  ASSUME TypeOK, AnsweredOK, DrawnForGood, NEW r \in Request, NEW q,
         req' = [req EXCEPT ![r] = q],
         q.cred \in Token => promise'[q.cred] # "none",
         q.pc = "audit" /\ q.ok => q.did
  PROVE  AnsweredOK'
  BY DEF AnsweredOK, DrawnForGood, TypeOK

\* A handler that answers success changed a row, so the entry it leads to is true.
LEMMA AnswerIsTrue ==
  ASSUME TypeOK, AnsweredOK, DrawnForGood, NEW r \in Request, NEW ok \in BOOLEAN,
         Answer(r, ok), ok => rows' # rows
  PROVE  AnsweredOK'
<1> DEFINE q == [req[r] EXCEPT !.pc = "audit", !.ok = ok, !.did = (rows' # rows)]
<1>1. req' = [req EXCEPT ![r] = q] /\ req[r] \in RequestState
  BY DEF Answer, TypeOK
<1>2. q.cred = req[r].cred
  BY <1>1 DEF RequestState
<1>3. q.ok => q.did
  BY <1>1 DEF RequestState
<1>4. q.cred \in Token => promise'[q.cred] # "none"
  BY <1>2 DEF AnsweredOK, DrawnForGood
<1> HIDE DEF q
<1>5. QED
  BY <1>1, <1>3, <1>4, AnsweredAfter

\* What is about to be logged stays true until it is appended.
LEMMA NextAnswered ==
  ASSUME TypeInv, TokenInv, AnsweredOK, [Next]_vars
  PROVE  AnsweredOK' /\ DrawnForGood
<1>1. TypeOK /\ TokensOK /\ DrawnForGood
  BY NextKeepsTokens DEF TypeInv, TokenInv
<1>2. Idle.cred \notin Token /\ Idle.pc = "idle"
  BY ConstantsAssumption DEF Idle
<1>3. CASE SeedFleet \/ SeedAgent \/ SeedToken \/ UNCHANGED vars
  <2>1. req' = req
    BY <1>3 DEF SeedFleet, SeedAgent, SeedToken, vars
  <2>2. QED
    BY <1>1, <2>1 DEF AnsweredOK, DrawnForGood
<1>4. CASE Restart
  BY <1>1, <1>2, <1>4 DEF Restart, AnsweredOK
<1>5. ASSUME NEW r \in Request,
             AnswerAgent(r) \/ AppendAuditEntry(r) \/ AppendFails(r)
      PROVE  AnsweredOK'
  BY <1>1, <1>2, <1>5, AnsweredAfter DEF AnswerAgent, AppendAuditEntry, AppendFails
<1>6. ASSUME NEW r \in Request, GetAgent(r)
      PROVE  AnsweredOK'
  <2> DEFINE q == [req[r] EXCEPT !.pc = "insert"]
  <2>1. req' = [req EXCEPT ![r] = q] /\ req[r] \in RequestState
    BY <1>1, <1>6 DEF GetAgent, TypeOK
  <2>2. q.cred = req[r].cred /\ q.pc = "insert"
    BY <2>1 DEF RequestState
  <2>3. QED
    BY <1>1, <2>1, <2>2, AnsweredAfter DEF AnsweredOK, DrawnForGood
<1>7. ASSUME NEW r \in Request, RequireAdmin(r) \/ AuthenticateAgent(r)
      PROVE  AnsweredOK'
  <2>1. PICK cred \in Actor : /\ cred \in Token => promise[cred] = "works"
                              /\ \E op : Begin(r, cred, op)
    BY <1>1, <1>7, AcceptedWorks, ConstantsAssumption
    DEF RequireAdmin, AuthenticateAgent, Actor
  <2>2. PICK op : Begin(r, cred, op)
    BY <2>1
  <2> DEFINE q == [Idle EXCEPT !.pc = "handle", !.cred = cred, !.op = op]
  <2>3. req' = [req EXCEPT ![r] = q] /\ promise' = promise
    BY <2>2 DEF Begin
  <2>4. q.cred = cred /\ q.pc = "handle"
    BY DEF Idle
  <2>5. QED
    BY <1>1, <2>1, <2>3, <2>4, AnsweredAfter
<1>8. ASSUME NEW r \in Request, Reject(r)
      PROVE  AnsweredOK'
  BY <1>1, <1>8, AnswerIsTrue DEF Reject
<1>9. ASSUME NEW r \in Request,
             \/ CreateFleet(r) \/ DeleteFleet(r) \/ CreateAgent(r) \/ DeleteAgent(r)
             \/ MintToken(r) \/ MintAdminToken(r) \/ RevokeToken(r) \/ RevokeAdminToken(r)
      PROVE  AnsweredOK'
  <2>1. Done(r)
    BY <1>9 DEF CreateFleet, DeleteFleet, CreateAgent, DeleteAgent, MintToken,
                MintAdminToken, RevokeToken, RevokeAdminToken
  <2>2. PICK ok \in BOOLEAN : Answer(r, ok)
    BY <2>1 DEF Done
  <2>3. QED
    BY <1>1, <1>9, <2>2, HandlersChangeRows, AnswerIsTrue
<1>10. QED
  BY <1>1, <1>3, <1>4, <1>5, <1>6, <1>7, <1>8, <1>9 DEF Next

\* Every appended row is true, and stays so.
LEMMA NextAudit ==
  ASSUME TypeInv, TokenInv, AuditInv, [Next]_vars
  PROVE  AuditIsTrue'
<1>1. TypeOK /\ AuditIsTrue /\ AnsweredOK /\ DrawnForGood
  BY NextAnswered DEF TypeInv, AuditInv
<1>2. /\ audit \in Seq(Entry) /\ Len(audit) \in Nat /\ DOMAIN audit = 1..Len(audit)
      /\ \A i \in DOMAIN audit :
            /\ audit[i] \in Entry
            /\ audit[i].ok => audit[i].did
            /\ audit[i].actor \in Token => promise'[audit[i].actor] # "none"
  BY <1>1 DEF TypeOK, AuditIsTrue, DrawnForGood
<1>3. ASSUME NEW r \in Request, AppendAuditEntry(r)
      PROVE  AuditIsTrue'
  <2> DEFINE e == AuditRow(req[r])
  <2>1. /\ audit' = Append(audit, e)
        /\ recorded' = recorded + 1
        /\ req[r].pc = "audit"
    BY <1>3 DEF AppendAuditEntry
  <2>2. e.ok => e.did
    BY <1>1, <2>1 DEF AuditRow, AnsweredOK
  <2>3. e.actor \in Token => promise'[e.actor] # "none"
    BY <1>1 DEF AuditRow, AnsweredOK, DrawnForGood
  <2> HIDE DEF e
  <2>4. /\ Len(audit') = Len(audit) + 1 /\ DOMAIN audit' = 1..(Len(audit) + 1)
        /\ \A i \in 1..Len(audit) : audit'[i] = audit[i]
        /\ audit'[Len(audit) + 1] = e
    BY <1>2, <2>1
  <2>5. \A i \in DOMAIN audit' : i \in DOMAIN audit \/ i = Len(audit) + 1
    BY <1>2, <2>4
  <2>6. Len(audit') = recorded'
    BY <1>1, <2>1, <2>4 DEF AuditIsTrue
  <2>7. \A i \in DOMAIN audit' :
           /\ audit'[i].ok => audit'[i].did
           /\ audit'[i].actor \in Token => promise'[audit'[i].actor] # "none"
    BY <1>2, <2>2, <2>3, <2>4, <2>5
  <2>8. QED
    BY <2>6, <2>7 DEF AuditIsTrue
<1>4. ASSUME NEW r \in Request, DeleteFleet(r)
      PROVE  AuditIsTrue'
  <2> DEFINE f    == req[r].op.fleet
             g(i) == IF audit[i].fleet = f THEN [audit[i] EXCEPT !.fleet = NoFleet]
                     ELSE audit[i]
  <2>1. audit' = [i \in DOMAIN audit |-> g(i)] /\ recorded' = recorded
    BY <1>4 DEF DeleteFleet
  <2>2. \A i \in DOMAIN audit :
           /\ g(i).ok = audit[i].ok /\ g(i).did = audit[i].did
           /\ g(i).actor = audit[i].actor
           /\ g(i) \in Entry
    BY <1>2 DEF Entry
  <2> HIDE DEF g
  <2>3. Len(audit') = Len(audit)
    <3>1. audit' \in [1..Len(audit) -> Entry]
      BY <1>2, <2>1, <2>2
    <3>2. QED
      BY <1>2, <3>1
  <2>4. QED
    BY <1>1, <1>2, <2>1, <2>2, <2>3 DEF AuditIsTrue
<1>5. CASE UNCHANGED <<audit, recorded>>
  BY <1>1, <1>2, <1>5 DEF AuditIsTrue
<1>6. ASSUME NEW r \in Request,
             \/ RequireAdmin(r) \/ AuthenticateAgent(r) \/ AnswerAgent(r) \/ CreateFleet(r)
             \/ CreateAgent(r) \/ DeleteAgent(r) \/ GetAgent(r) \/ MintToken(r)
             \/ MintAdminToken(r) \/ RevokeToken(r) \/ RevokeAdminToken(r) \/ Reject(r)
             \/ AppendFails(r)
      PROVE  UNCHANGED <<audit, recorded>>
  BY <1>6 DEF RequireAdmin, AuthenticateAgent, Begin, AnswerAgent, CreateFleet, CreateAgent,
              DeleteAgent, GetAgent, MintToken, MintAdminToken, RevokeToken,
              RevokeAdminToken, Reject, AppendFails, log
<1>7. CASE SeedFleet \/ SeedAgent \/ SeedToken \/ Restart \/ UNCHANGED vars
  <2>1. UNCHANGED <<audit, recorded>>
    BY <1>7 DEF SeedFleet, SeedAgent, SeedToken, Restart, vars, log
  <2>2. QED
    BY <1>5, <2>1
<1>8. QED
  BY <1>3, <1>4, <1>5, <1>6, <1>7 DEF Next

\* The audit log keeps every row it was given, a 2xx in it stands for a changed
\* row of the database, and its actors are tokens that were handed out.
THEOREM AuditTrue == Spec => []AuditIsTrue
<1>1. Init => AuditInv
  BY ConstantsAssumption DEF Init, AuditInv, AuditIsTrue, AnsweredOK, Idle
<1>2. TypeInv /\ TokenInv /\ AuditInv /\ [Next]_vars => AuditInv'
  BY NextAudit, NextAnswered DEF AuditInv
<1>3. AuditInv => AuditIsTrue
  BY DEF AuditInv
<1>4. QED
  BY <1>1, <1>2, <1>3, TokenInvHolds, PTL DEF Spec
=============================================================================
