------------------------------ MODULE ProxyHosts ------------------------------
(***************************************************************************)
(* The proxy hosts and middleware templates of a fleet, as administrators  *)
(* edit them (admin_handlers.go, middleware_template_handlers.go and the   *)
(* store), and what a publish makes of the hosts: the snapshot every agent *)
(* is later compiled a part of (agent_handlers.go).                        *)
(*                                                                         *)
(* A row is its content: names are unique in a fleet, so hosts is a set,   *)
(* and an edit replaces one of its members.                                *)
(***************************************************************************)
EXTENDS Compiler

CONSTANTS
    Body,        \* request bodies for a host; the protocol may be left out
    Chain,       \* request bodies for a template: lists of middlewares
    MaxHosts,    \* bound: rows of proxy_hosts
    MaxTemplates,\* bound: rows of middleware_templates
    MaxChain     \* bound: middlewares of a host after a template is applied

ASSUME BodiesAssumption ==
    /\ Body \subseteq HostOf({""} \cup Protocol)
    /\ <<"web">> \in Seq(EntryPoint)
    /\ Chain \subseteq Seq(Middleware)

ASSUME LimitsAssumption ==
    MaxHosts \in Nat /\ MaxTemplates \in Nat /\ MaxChain \in Nat

VARIABLES
    hosts,      \* proxy_hosts
    templates,  \* middleware_templates: the lists of middlewares
    published   \* source_proxy_hosts of the published revision

vars == <<hosts, templates, published>>

Init ==
    /\ hosts = {}
    /\ templates = {}
    /\ published = {}

-----------------------------------------------------------------------------
(* Proxy hosts.                                                            *)

\* proxyHostInput.validate: little, so that drafts can be saved.  The one URL of
\* older clients is a list of one.
Accepted(b) ==
    /\ b.name # <<>>
    /\ Effective(b) # <<>>
    /\ b.protocol # "udp" => b.domain # "blank"

\* Mutant: an empty protocol is stored as it came.
RowAsSent(b) ==
    [b EXCEPT !.entryPoints = IF b.entryPoints = <<>> THEN <<"web">> ELSE b.entryPoints]

\* What the store makes of a body: defaultProtocol, orWebEntryPoints.
Row(b) ==
    [b EXCEPT !.protocol = IF b.protocol = "" THEN "http" ELSE b.protocol,
              !.entryPoints = IF b.entryPoints = <<>> THEN <<"web">> ELSE b.entryPoints]

\* A name that is taken is a conflict, by the unique constraint (mapErr).
Conflicts(row, rows) == \E g \in rows : g.name = row.name

\* The statements of the store.
Insert(row) ==
    /\ ~Conflicts(row, hosts)
    /\ hosts' = hosts \cup {row}

Replace(h, row) ==
    /\ ~Conflicts(row, hosts \ {h})
    /\ hosts' = (hosts \ {h}) \cup {row}

CreateProxyHost(b) ==
    /\ Accepted(b)
    /\ Cardinality(hosts) < MaxHosts
    /\ Insert(Row(b))
    /\ UNCHANGED <<templates, published>>

UpdateProxyHost(h, b) ==
    /\ Accepted(b)
    /\ Replace(h, Row(b))
    /\ UNCHANGED <<templates, published>>

DeleteProxyHost(h) ==
    /\ hosts' = hosts \ {h}
    /\ UNCHANGED <<templates, published>>

\* The form of an HTTP host appends a copy of the template to its middlewares...
WithTemplate(h, t) == [h EXCEPT !.middlewares = @ \o t]

\* ... and sends the host (blank upstreams, which count nowhere, are left out).
ApplyTemplate(h, t) ==
    /\ h.protocol = "http"
    /\ Len(h.middlewares) + Len(t) <= MaxChain
    /\ UpdateProxyHost(h, WithTemplate(h, t))

-----------------------------------------------------------------------------
(* Middleware templates.                                                   *)

CreateMiddlewareTemplate(t) ==
    /\ ValidateMiddlewares(t)
    /\ Cardinality(templates) < MaxTemplates
    /\ templates' = templates \cup {t}
    /\ UNCHANGED <<hosts, published>>

UpdateMiddlewareTemplate(s, t) ==
    /\ ValidateMiddlewares(t)
    /\ templates' = (templates \ {s}) \cup {t}
    /\ UNCHANGED <<hosts, published>>

DeleteMiddlewareTemplate(t) ==
    /\ templates' = templates \ {t}
    /\ UNCHANGED <<hosts, published>>

-----------------------------------------------------------------------------
\* A publish of hosts that do not compile is a 400.  Its queries, and what happens
\* between them, are in Publishing.
Publish ==
    /\ Compiles(hosts)
    /\ published' = hosts
    /\ UNCHANGED <<hosts, templates>>

Next ==
    \/ \E b \in Body : CreateProxyHost(b)
    \/ \E h \in hosts, b \in Body : UpdateProxyHost(h, b)
    \/ \E h \in hosts : DeleteProxyHost(h)
    \/ \E h \in hosts, t \in templates : ApplyTemplate(h, t)
    \/ \E t \in Chain : CreateMiddlewareTemplate(t)
    \/ \E s \in templates, t \in Chain : UpdateMiddlewareTemplate(s, t)
    \/ \E t \in templates : DeleteMiddlewareTemplate(t)
    \/ Publish

Spec == Init /\ [][Next]_vars

-----------------------------------------------------------------------------
(* Properties.                                                             *)

\* Types, and the unique constraint on names.
TypeOK ==
    /\ hosts \subseteq Host
    /\ templates \subseteq Seq(Middleware)
    /\ published \subseteq Host
    /\ \A g, h \in hosts : g.name = h.name => g = h

\* An agent is served the hosts of the published revision whose selectors its
\* labels match, compiled again at every fetch (agent_handlers.go:140).  That
\* must not fail for any labels, or the agent gets a 500 for a revision whose
\* publish was accepted.
EveryAgentIsServed == \A H \in SUBSET published : Compiles(H)

\* docs/compiler.md:72: the same hosts give the same bytes, and so the same
\* ETag, in whatever order they come.
OrderDoesNotMatter ==
    \A r, s \in SetToSeqs(published) : \E config \in Configs(r) : Configs(s) = {config}

\* Whatever part of the published hosts an agent gets, a section has the names of
\* its enabled hosts and no other, and behind each name a router and a service
\* of one and the same host, also where two hosts have become one name.
RoutersBelongToHosts ==
    \A H \in SUBSET published : \A config \in Configs(SetToSeq(H)) : \A p \in Protocol :
        LET section == config[p]
            enabled == {h \in H : h.enabled /\ h.protocol = p}
        IN  /\ DOMAIN section.routers = {sanitizeName(h.name) : h \in enabled}
            /\ \A n \in DOMAIN section.routers : \E h \in enabled :
                  /\ sanitizeName(h.name) = n
                  /\ section.routers[n] = Router(h)
                  /\ section.services[n] = Effective(h)

\* Whatever the configuration refers to is in it: the service and the
\* middlewares of every router, and the middlewares of every chain, also where
\* two hosts or two middlewares have become one name.
ReferencesResolve ==
    \A H \in SUBSET published : \A config \in Configs(SetToSeq(H)) : \A p \in Protocol :
        LET section == config[p]
            defined == DOMAIN section.middlewares
        IN  /\ \A r \in DOMAIN section.routers :
                  /\ section.routers[r].service \in DOMAIN section.services
                  /\ ToSet(section.routers[r].middlewares) \subseteq defined
            /\ \A m \in defined : ToSet(section.middlewares[m].refs) \subseteq defined

\* docs/middleware-library.md:65-67: a template never lands in a state that
\* would fail compilation later.  An HTTP host that compiles still does with any
\* stored template applied.
TemplatesCompile ==
    \A t \in templates : \A h \in hosts :
        h.protocol = "http" /\ Compiles({h}) => Compiles({WithTemplate(h, t)})

\* docs/compiler.md:40 and 66-68: each enabled host has a router, and its
\* middlewares have names of their own.
NothingIsOverwritten ==
    \A config \in Configs(SetToSeq(published)) :
        LET enabled(p) == {h \in published : h.enabled /\ h.protocol = p}
        IN  /\ \A p \in Protocol :
                  Cardinality(DOMAIN config[p].routers) = Cardinality(enabled(p))
            /\ Cardinality(DOMAIN config["http"].middlewares)
                  = MapThenSumSet(LAMBDA h : Len(h.middlewares), enabled("http"))
=============================================================================
