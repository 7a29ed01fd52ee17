--------------------------- MODULE ProxyHostsProofs ---------------------------
(***************************************************************************)
(* Proofs about ProxyHosts, for any names, bodies, chains and bounds.      *)
(***************************************************************************)
EXTENDS ProxyHosts, CompilerProofs, SequenceTheorems, FiniteSetTheorems, TLAPS

-----------------------------------------------------------------------------
(* Types.                                                                  *)

\* What the store makes of a body is a host, of the same name.
LEMMA RowIsHost ==
    ASSUME NEW b \in HostOf({""} \cup Protocol)
    PROVE  Row(b) \in Host /\ Row(b).name = b.name
  <1> DEFINE p == IF b.protocol = "" THEN "http" ELSE b.protocol
             e == IF b.entryPoints = <<>> THEN <<"web">> ELSE b.entryPoints
  <1>1. p \in Protocol
    BY DEF HostOf, Protocol
  <1>2. e \in Seq(EntryPoint)
    BY BodiesAssumption DEF HostOf
  <1>3. Row(b) = [b EXCEPT !.protocol = p, !.entryPoints = e]
    BY DEF Row
  <1> HIDE DEF p, e
  <1> QED
    BY <1>1, <1>2, <1>3 DEF Host, HostOf

\* A host with a template appended is a host, and stays what it is otherwise.
LEMMA WithTemplateIsHost ==
    ASSUME NEW h \in Host, NEW t \in Seq(Middleware)
    PROVE  WithTemplate(h, t) \in Host
  <1>1. h.middlewares \o t \in Seq(Middleware)
    BY DEF Host, HostOf
  <1> QED
    BY <1>1 DEF WithTemplate, Host, HostOf

\* Every step keeps the types and the unique names.
LEMMA TypeStep == TypeOK /\ [Next]_vars => TypeOK'
  <1> SUFFICES ASSUME TypeOK, [Next]_vars PROVE TypeOK'
    OBVIOUS
  <1>1. ASSUME NEW b \in Body, CreateProxyHost(b) PROVE TypeOK'
    <2>1. Row(b) \in Host /\ Row(b).name = b.name
      BY RowIsHost, BodiesAssumption
    <2> QED
      BY <1>1, <2>1 DEF TypeOK, CreateProxyHost, Insert, Conflicts
  <1>2. ASSUME NEW h \in hosts, NEW b, Row(b) \in Host, Row(b).name = b.name,
               UpdateProxyHost(h, b)
        PROVE  TypeOK'
    BY <1>2 DEF TypeOK, UpdateProxyHost, Replace, Conflicts
  <1>3. ASSUME NEW h \in hosts, NEW b \in Body, UpdateProxyHost(h, b) PROVE TypeOK'
    <2>1. Row(b) \in Host /\ Row(b).name = b.name
      BY RowIsHost, BodiesAssumption
    <2> QED
      BY <1>2, <1>3, <2>1
  <1>4. ASSUME NEW h \in hosts, DeleteProxyHost(h) PROVE TypeOK'
    BY <1>4 DEF TypeOK, DeleteProxyHost
  <1>5. ASSUME NEW h \in hosts, NEW t \in templates, ApplyTemplate(h, t) PROVE TypeOK'
    <2> DEFINE b == WithTemplate(h, t)
    <2>1. b \in HostOf({""} \cup Protocol)
      BY WithTemplateIsHost DEF TypeOK, Host, HostOf
    <2>2. Row(b) \in Host /\ Row(b).name = b.name
      BY <2>1, RowIsHost
    <2>3. UpdateProxyHost(h, b)
      BY <1>5 DEF ApplyTemplate
    <2> HIDE DEF b
    <2> QED
      BY <1>2, <2>2, <2>3
  <1>6. ASSUME NEW t \in Chain, CreateMiddlewareTemplate(t) PROVE TypeOK'
    BY <1>6, BodiesAssumption DEF TypeOK, CreateMiddlewareTemplate
  <1>7. ASSUME NEW s \in templates, NEW t \in Chain, UpdateMiddlewareTemplate(s, t)
        PROVE  TypeOK'
    BY <1>7, BodiesAssumption DEF TypeOK, UpdateMiddlewareTemplate
  <1>8. ASSUME NEW t \in templates, DeleteMiddlewareTemplate(t) PROVE TypeOK'
    BY <1>8 DEF TypeOK, DeleteMiddlewareTemplate
  <1>9. CASE Publish
    BY <1>9 DEF TypeOK, Publish
  <1>10. CASE UNCHANGED vars
    BY <1>10 DEF TypeOK, vars
  <1> QED
    BY <1>1, <1>3, <1>4, <1>5, <1>6, <1>7, <1>8, <1>9, <1>10 DEF Next

\* Every variable keeps its type, and names stay unique.
THEOREM TypeCorrect == Spec => []TypeOK
  <1>1. Init => TypeOK
    BY DEF Init, TypeOK
  <1> QED
    BY <1>1, TypeStep, PTL DEF Spec

-----------------------------------------------------------------------------
(* Every agent is served.                                                  *)

\* Validate and Compile look at each host alone and at pairs of hosts, so what
\* they accept of a fleet they accept of any part of it.
LEMMA CompilesPart ==
    ASSUME NEW H, Compiles(H), NEW G \in SUBSET H
    PROVE  Compiles(G)
  <1>1. Validate(G)
    BY DEF Compiles, Validate
  <1> QED
    BY <1>1 DEF Compiles

\* The recompile of an agent's part of the published revision never fails,
\* whatever the agent's labels are (agent_handlers.go:140).
THEOREM AgentsAreServed == Spec => []EveryAgentIsServed
  <1>1. Init => EveryAgentIsServed
    BY DEF Init, EveryAgentIsServed, Compiles, Validate
  <1>2. EveryAgentIsServed /\ [Next]_vars => EveryAgentIsServed'
    <2> SUFFICES ASSUME EveryAgentIsServed, [Next]_vars PROVE EveryAgentIsServed'
      OBVIOUS
    <2>1. CASE Publish
      BY <2>1, CompilesPart DEF Publish, EveryAgentIsServed
    <2>2. CASE published' = published
      BY <2>2 DEF EveryAgentIsServed
    <2> QED
      BY <2>1, <2>2 DEF Next, vars, CreateProxyHost, UpdateProxyHost, DeleteProxyHost,
         ApplyTemplate, CreateMiddlewareTemplate, UpdateMiddlewareTemplate,
         DeleteMiddlewareTemplate
  <1> QED
    BY <1>1, <1>2, PTL DEF Spec

-----------------------------------------------------------------------------
(* What the agents are given.                                              *)

\* The inductive part: the tables are finite, since a statement adds one row.
TablesFinite == IsFiniteSet(hosts) /\ IsFiniteSet(published)

\* Every reachable state has finite tables.
LEMMA TablesStayFinite == Spec => []TablesFinite
  <1>1. Init => TablesFinite
    BY FS_EmptySet DEF Init, TablesFinite
  <1>2. TablesFinite /\ [Next]_vars => TablesFinite'
    <2> SUFFICES ASSUME TablesFinite, [Next]_vars PROVE TablesFinite'
      OBVIOUS
    <2>1. \A row : IsFiniteSet(hosts \cup {row})
      BY FS_AddElement DEF TablesFinite
    <2>2. \A h : IsFiniteSet(hosts \ {h})
      BY FS_RemoveElement DEF TablesFinite
    <2>3. \A h, row : IsFiniteSet((hosts \ {h}) \cup {row})
      BY <2>2, FS_AddElement
    <2>4. IsFiniteSet(hosts) /\ IsFiniteSet(published)
      BY DEF TablesFinite
    <2>5. ASSUME NEW b \in Body, CreateProxyHost(b) PROVE TablesFinite'
      BY <2>1, <2>4, <2>5 DEF TablesFinite, CreateProxyHost, Insert
    <2>6. ASSUME NEW h \in hosts, NEW b, UpdateProxyHost(h, b) PROVE TablesFinite'
      BY <2>3, <2>4, <2>6 DEF TablesFinite, UpdateProxyHost, Replace
    <2>7. ASSUME NEW h \in hosts, DeleteProxyHost(h) PROVE TablesFinite'
      BY <2>2, <2>4, <2>7 DEF TablesFinite, DeleteProxyHost
    <2>8. ASSUME NEW h \in hosts, NEW t \in templates, ApplyTemplate(h, t)
          PROVE  TablesFinite'
      BY <2>6, <2>8 DEF ApplyTemplate
    <2>9. CASE Publish
      BY <2>4, <2>9 DEF TablesFinite, Publish
    <2>10. CASE UNCHANGED <<hosts, published>>
      BY <2>4, <2>10 DEF TablesFinite
    <2> QED
      BY <2>5, <2>6, <2>7, <2>8, <2>9, <2>10 DEF Next, vars, CreateMiddlewareTemplate,
         UpdateMiddlewareTemplate, DeleteMiddlewareTemplate
  <1> QED
    BY <1>1, <1>2, PTL DEF Spec

\* Any part of the published hosts: finite, with names of their own, and one that
\* compiles.
LEMMA PublishedPart ==
    ASSUME TypeOK, EveryAgentIsServed, TablesFinite, NEW H \in SUBSET published
    PROVE  H \in SUBSET Host /\ IsFiniteSet(H) /\ Compiles(H) /\ NamesDiffer(H)
  <1>1. IsFiniteSet(H)
    BY FS_Subset DEF TablesFinite
  <1>2. Compiles(H)
    BY DEF EveryAgentIsServed
  <1> QED
    BY <1>1, <1>2 DEF TypeOK, Compiles, Validate, NamesDiffer

\* The sections of what Compile makes of that part are those of an enumeration.
LEMMA ConfigOfPart ==
    ASSUME NEW H, IsFiniteSet(H), NEW config \in Configs(SetToSeq(H))
    PROVE  \E s \in Enumerations(H) : \A p \in Protocol : config[p] = Section(s, p)
  <1>1. PICK s \in Sorted(SetToSeq(H)) : config = [p \in Protocol |-> Section(s, p)]
    BY DEF Configs
  <1>2. s \in Enumerations(H)
    BY SetToSeqsAreEnumerations, SortedIsEnumeration
  <1> QED
    BY <1>1, <1>2

\* The same hosts give the same configuration, and so the same ETag, whatever
\* order the database returns them in (docs/compiler.md:72): the sort of Compile
\* has one outcome, because names are unique.
THEOREM OrderIsIrrelevant == Spec => []OrderDoesNotMatter
  <1>1. TypeOK /\ EveryAgentIsServed /\ TablesFinite => OrderDoesNotMatter
    <2> SUFFICES ASSUME TypeOK, EveryAgentIsServed, TablesFinite,
                        NEW r \in SetToSeqs(published), NEW s \in SetToSeqs(published)
                 PROVE  \E config \in Configs(r) : Configs(s) = {config}
      BY DEF OrderDoesNotMatter
    <2>1. published \in SUBSET Host /\ IsFiniteSet(published) /\ NamesDiffer(published)
      BY PublishedPart
    <2>2. r \in Enumerations(published) /\ s \in Enumerations(published)
      BY <2>1, SetToSeqsAreEnumerations
    <2> QED
      BY <2>1, <2>2, ConfigIsOne
  <1> QED
    BY <1>1, TypeCorrect, AgentsAreServed, TablesStayFinite, PTL

\* An agent gets a router and a service for the names of its enabled hosts, both of
\* one host, and for no other name, whatever its labels are.
THEOREM RoutersAreTrue == Spec => []RoutersBelongToHosts
  <1>1. TypeOK /\ EveryAgentIsServed /\ TablesFinite => RoutersBelongToHosts
    <2> SUFFICES ASSUME TypeOK, EveryAgentIsServed, TablesFinite,
                        NEW H \in SUBSET published,
                        NEW config \in Configs(SetToSeq(H)), NEW p \in Protocol
                 PROVE  /\ DOMAIN config[p].routers
                             = {sanitizeName(h.name) : h \in Enabled(H, p)}
                        /\ \A n \in DOMAIN config[p].routers : \E h \in Enabled(H, p) :
                              /\ sanitizeName(h.name) = n
                              /\ config[p].routers[n] = Router(h)
                              /\ config[p].services[n] = Effective(h)
      BY DEF RoutersBelongToHosts, Enabled
    <2>1. IsFiniteSet(H)
      BY PublishedPart
    <2>2. PICK s \in Enumerations(H) : config[p] = Section(s, p)
      BY <2>1, ConfigOfPart
    <2> QED
      BY <2>1, <2>2, SectionRouters
  <1> QED
    BY <1>1, TypeCorrect, AgentsAreServed, TablesStayFinite, PTL

\* Whatever the configuration an agent gets refers to is in it, whatever its
\* labels are.
THEOREM ReferencesAlwaysResolve == Spec => []ReferencesResolve
  <1>1. TypeOK /\ EveryAgentIsServed /\ TablesFinite => ReferencesResolve
    <2> SUFFICES ASSUME TypeOK, EveryAgentIsServed, TablesFinite,
                        NEW H \in SUBSET published,
                        NEW config \in Configs(SetToSeq(H)), NEW p \in Protocol
                 PROVE  LET section == config[p]
                            defined == DOMAIN section.middlewares
                        IN  /\ \A r \in DOMAIN section.routers :
                                  /\ section.routers[r].service \in DOMAIN section.services
                                  /\ ToSet(section.routers[r].middlewares) \subseteq defined
                            /\ \A m \in defined :
                                  ToSet(section.middlewares[m].refs) \subseteq defined
      BY Zenon DEF ReferencesResolve
    <2>1. H \in SUBSET Host /\ IsFiniteSet(H) /\ Compiles(H)
      BY PublishedPart
    <2>2. PICK s \in Enumerations(H) : config[p] = Section(s, p)
      BY <2>1, ConfigOfPart
    <2> QED
      BY <2>1, <2>2, SectionIsClosed
  <1> QED
    BY <1>1, TypeCorrect, AgentsAreServed, TablesStayFinite, PTL

-----------------------------------------------------------------------------
(* Templates.                                                              *)

\* What two lists define and refer to, their concatenation does.
LEMMA Appended ==
    ASSUME NEW s \in Seq(Middleware), NEW t \in Seq(Middleware)
    PROVE  /\ Names(s) \subseteq Names(s \o t)
           /\ Names(t) \subseteq Names(s \o t)
           /\ Refs(s \o t) \subseteq Refs(s) \cup Refs(t)
           /\ \A i \in DOMAIN (s \o t) : \/ \E j \in DOMAIN s : (s \o t)[i] = s[j]
                                         \/ \E j \in DOMAIN t : (s \o t)[i] = t[j]
  <1> DEFINE st == s \o t
  <1>1. Len(s) \in Nat /\ Len(t) \in Nat /\ Len(st) = Len(s) + Len(t)
    BY ConcatProperties, LenProperties
  <1>2. DOMAIN s = 1 .. Len(s) /\ DOMAIN t = 1 .. Len(t) /\ DOMAIN st = 1 .. Len(st)
    BY ConcatProperties, LenProperties
  <1>3. \A j \in DOMAIN s : j \in DOMAIN st /\ st[j] = s[j]
    BY <1>1, <1>2, ConcatProperties
  <1>4. \A j \in DOMAIN t : j + Len(s) \in DOMAIN st /\ st[j + Len(s)] = t[j]
    <2> SUFFICES ASSUME NEW j \in 1 .. Len(t)
                 PROVE  j + Len(s) \in 1 .. Len(st) /\ st[j + Len(s)] = t[j]
      BY <1>2
    <2>1. j + Len(s) \in 1 .. Len(s) + Len(t) /\ j + Len(s) > Len(s)
          /\ (j + Len(s)) - Len(s) = j
      BY <1>1
    <2> QED
      BY <1>1, <2>1, ConcatProperties
  <1>5. \A i \in DOMAIN st : \/ \E j \in DOMAIN s : st[i] = s[j]
                             \/ \E j \in DOMAIN t : st[i] = t[j]
    <2> SUFFICES ASSUME NEW i \in 1 .. Len(s) + Len(t), i > Len(s)
                 PROVE  \E j \in DOMAIN t : st[i] = t[j]
      BY <1>1, <1>2, <1>3
    <2>1. i - Len(s) \in DOMAIN t
      BY <1>1, <1>2
    <2>2. st[i] = t[i - Len(s)]
      BY <1>1, ConcatProperties
    <2> QED
      BY <2>1, <2>2
  <1> HIDE DEF st
  <1>6. Names(s) \subseteq Names(st) /\ Names(t) \subseteq Names(st)
    BY <1>3, <1>4 DEF Names
  <1>7. Refs(st) \subseteq Refs(s) \cup Refs(t)
    BY <1>5, Zenon DEF Refs
  <1> QED
    BY <1>5, <1>6, <1>7 DEF st

\* What a chain of another list refers to it still finds, and the types of both
\* lists render.
LEMMA TemplateApplied ==
    ASSUME NEW h \in Host, h.protocol = "http", Compiles({h}),
           NEW t \in Seq(Middleware), ValidateMiddlewares(t)
    PROVE  Compiles({WithTemplate(h, t)})
  <1> DEFINE s == h.middlewares
             g == WithTemplate(h, t)
  <1>1. s \in Seq(Middleware)
    BY DEF Host, HostOf
  <1>2. /\ g.name = h.name /\ g.protocol = "http" /\ g.domain = h.domain
        /\ g.enabled = h.enabled /\ g.upstreams = h.upstreams
        /\ g.middlewares = s \o t
    BY DEF WithTemplate, Host, HostOf
  <1>3. Effective(g) = Effective(h)
    BY <1>2 DEF Effective
  <1>4. h.enabled => /\ ValidateHTTP(h)
                     /\ \A i \in DOMAIN s : Renders(s[i])
                     /\ Refs(s) \subseteq Names(s)
    BY DEF Compiles, Validate
  <1>5. h.name # <<>>
    BY DEF Compiles, Validate
  <1>6. Refs(t) \subseteq Names(t) /\ \A i \in DOMAIN t : Renders(t[i])
    BY DEF ValidateMiddlewares
  <1> HIDE DEF s, g
  <1>7. h.enabled => /\ \A i \in DOMAIN g.middlewares : Renders(g.middlewares[i])
                     /\ Refs(g.middlewares) \subseteq Names(g.middlewares)
    BY <1>1, <1>2, <1>4, <1>6, Appended
  <1>8. h.enabled => ValidateHTTP(g)
    <2> SUFFICES ASSUME h.enabled PROVE ValidateHTTP(g)
      OBVIOUS
    <2>1. \A i \in DOMAIN g.middlewares : g.middlewares[i].type # "unknown"
      BY <1>7 DEF Renders
    <2> QED
      BY <1>2, <1>3, <1>4, <2>1 DEF ValidateHTTP
  <1>9. Validate({g})
    BY <1>2, <1>5, <1>8 DEF Validate
  <1>10. Compiles({g})
    BY <1>2, <1>7, <1>9 DEF Compiles
  <1> QED
    BY <1>10 DEF g

\* The inductive part: stored templates have been validated.
TemplatesValid == \A t \in templates : ValidateMiddlewares(t)

\* A template never lands in a state that would make a host that compiles fail
\* later (docs/middleware-library.md:65-67): a list that validates can be appended
\* to the middlewares of any such host.
THEOREM TemplatesAlwaysCompile == Spec => []TemplatesCompile
  <1>1. Init => TemplatesValid
    BY DEF Init, TemplatesValid
  <1>2. TemplatesValid /\ [Next]_vars => TemplatesValid'
    BY DEF TemplatesValid, Next, vars, CreateProxyHost, UpdateProxyHost, DeleteProxyHost,
       ApplyTemplate, CreateMiddlewareTemplate, UpdateMiddlewareTemplate,
       DeleteMiddlewareTemplate, Publish
  <1>3. TypeOK /\ TemplatesValid => TemplatesCompile
    BY TemplateApplied DEF TypeOK, TemplatesValid, TemplatesCompile
  <1> QED
    BY <1>1, <1>2, <1>3, TypeCorrect, PTL DEF Spec
=============================================================================
