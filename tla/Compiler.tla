------------------------------- MODULE Compiler -------------------------------
(***************************************************************************)
(* internal/compiler: from the proxy hosts of a fleet to the routers,      *)
(* services and middlewares Traefik is given, as operators.                *)
(*                                                                         *)
(* A name is a sequence of characters, because what becomes of two names   *)
(* in sanitizeName is what matters about them.  A domain, an upstream and  *)
(* the configuration of a middleware are what the checks tell apart.       *)
(***************************************************************************)
EXTENDS Integers, Sequences, FiniteSets, SequencesExt, FiniteSetsExt

CONSTANTS
    Character,  \* a sequence: the characters of names, in the order of their bytes
    Replaced,   \* those sanitizeName replaces
    Name,       \* names of hosts and of middlewares
    Hostname,   \* domains looksLikeDomain accepts
    EntryPoint

ASSUME CompilerAssumption ==
    /\ Character \in Seq(ToSet(Character))
    /\ Name \subseteq Seq(ToSet(Character))
    /\ IsInjective(Character)
    /\ "-" \in ToSet(Character) \ Replaced

Domain   == Hostname \cup {"*", "not a hostname", "blank"}
Upstream == {"http", "https", "host:port", "other", "blank"}

\* The built-in types that need no configuration, those that need some and have
\* it or have not, the chain, and a type the compiler does not know.
MiddlewareType == {"plain", "configured", "misconfigured", "chain", "unknown"}
Middleware     == [name : Name, type : MiddlewareType, refs : Seq(Name)]

HostOf(protocols) ==
    [name : Name, protocol : protocols, domain : Domain,
     upstreams : Seq(Upstream), entryPoints : Seq(EntryPoint),
     middlewares : Seq(Middleware), tls : BOOLEAN, enabled : BOOLEAN]

Protocol == {"http", "tcp", "udp"}
Host     == HostOf(Protocol)

Names(mws) == {mws[i].name : i \in DOMAIN mws}
Refs(mws)  == UNION {ToSet(mws[i].refs) : i \in {j \in DOMAIN mws : mws[j].type = "chain"}}

-----------------------------------------------------------------------------
(* Validation.                                                             *)

\* effectiveUpstreamURLs.
Effective(h) == SelectSeq(h.upstreams, LAMBDA u : u # "blank")

\* renderMiddleware returns no error.
Renders(mw) ==
    \/ mw.type \in {"plain", "configured"}
    \/ mw.type = "chain" /\ mw.refs # <<>>

\* Mutant: what a chain refers to is left to the compiler.
ValidateEachMiddleware(mws) == \A i \in DOMAIN mws : Renders(mws[i])

ValidateMiddlewares(mws) ==
    /\ \A i \in DOMAIN mws : Renders(mws[i])
    /\ Refs(mws) \subseteq Names(mws)

ValidateHTTP(h) ==
    /\ h.domain \in Hostname
    /\ Effective(h) # <<>>
    /\ \E scheme \in {"http", "https"} : ToSet(Effective(h)) = {scheme}
    /\ \A i \in DOMAIN h.middlewares : h.middlewares[i].type # "unknown"

ValidateTCP(h) ==
    /\ h.domain \in Hostname \cup {"*"}
    /\ ToSet(Effective(h)) = {"host:port"}
    /\ h.middlewares = <<>>

ValidateUDP(h) ==
    /\ h.entryPoints # <<>>
    /\ IsInjective(h.entryPoints)
    /\ ToSet(Effective(h)) = {"host:port"}
    /\ ~h.tls
    /\ h.middlewares = <<>>

\* What Traefik could not tell apart: one domain, or for UDP one entry point.
Clash(g, h) ==
    /\ g.protocol = h.protocol
    /\ IF g.protocol = "udp"
       THEN ToSet(g.entryPoints) \cap ToSet(h.entryPoints) # {}
       ELSE g.domain = h.domain

\* Validate returns no error for a fleet with these hosts.  Disabled ones only
\* need a name of their own.
Validate(H) ==
    /\ \A h \in H : h.name # <<>>
    /\ \A g, h \in H : g # h => g.name # h.name
    /\ \A h \in H : h.enabled =>
          CASE h.protocol = "http" -> ValidateHTTP(h)
            [] h.protocol = "tcp"  -> ValidateTCP(h)
            [] h.protocol = "udp"  -> ValidateUDP(h)
    /\ \A g, h \in H : g # h /\ g.enabled /\ h.enabled => ~Clash(g, h)

\* Mutant: one map of middleware names for all hosts.
CompilesSharingNames(H) ==
    /\ Validate(H)
    /\ \A h \in H : h.enabled /\ h.protocol = "http" =>
          /\ \A i \in DOMAIN h.middlewares : Renders(h.middlewares[i])
          /\ Refs(h.middlewares) \subseteq UNION {Names(g.middlewares) : g \in H}

\* Compile returns no error: the hosts are valid, and of every one it renders
\* the middlewares render and the chains refer to middlewares of that host.
Compiles(H) ==
    /\ Validate(H)
    /\ \A h \in H : h.enabled /\ h.protocol = "http" =>
          /\ \A i \in DOMAIN h.middlewares : Renders(h.middlewares[i])
          /\ Refs(h.middlewares) \subseteq Names(h.middlewares)

-----------------------------------------------------------------------------
(* Output.                                                                 *)

sanitizeName(s) == [i \in DOMAIN s |-> IF s[i] \in Replaced THEN "-" ELSE s[i]]

\* <host>-<position>-<middleware>, with the positions of the code.
MiddlewareName(h, i) ==
    sanitizeName(h.name) \o <<"-", ToString(i - 1), "-">> \o sanitizeName(h.middlewares[i].name)

\* Byte order of names: where they first differ, s has ended or has the smaller
\* character.
Rank(c) == CHOOSE i \in DOMAIN Character : Character[i] = c
Precedes(s, t) ==
    \E k \in DOMAIN t :
        /\ \A i \in 1 .. k - 1 : i \in DOMAIN s /\ s[i] = t[i]
        /\ k \in DOMAIN s => Rank(s[k]) < Rank(t[k])

\* Mutant: the hosts are left in the order they come in.
AsTheyCome(hosts) == {hosts}

\* sort.Slice by name, which may leave any order among hosts of one name.
Sorted(hosts) ==
    {s \in {[i \in DOMAIN hosts |-> hosts[p[i]]] : p \in Bijection(DOMAIN hosts, DOMAIN hosts)} :
        \A i, j \in DOMAIN s : i < j => ~Precedes(s[j].name, s[i].name)}

\* The last middleware of a name wins (nameMap).
Resolved(h, ref) ==
    MiddlewareName(h, Max({i \in DOMAIN h.middlewares : h.middlewares[i].name = ref}))

\* Mutant: the raw names are emitted.
RenderedMiddlewareRaw(h, i) ==
    [type |-> h.middlewares[i].type, refs |-> h.middlewares[i].refs]

RenderedMiddleware(h, i) ==
    [type |-> h.middlewares[i].type,
     refs |-> IF h.middlewares[i].type = "chain"
              THEN [k \in DOMAIN h.middlewares[i].refs |-> Resolved(h, h.middlewares[i].refs[k])]
              ELSE <<>>]

\* UDP routers have no rule; orWeb and orWebsecure fill in an entry point.
Router(h) ==
    [rule        |-> IF h.protocol = "udp" THEN "" ELSE h.domain,
     entryPoints |-> IF h.entryPoints # <<>> \/ h.protocol = "udp" THEN h.entryPoints
                     ELSE IF h.protocol = "http" THEN <<"web">> ELSE <<"websecure">>,
     service     |-> sanitizeName(h.name),
     middlewares |-> [i \in DOMAIN h.middlewares |-> MiddlewareName(h, i)],
     tls         |-> h.tls]

\* Mutant: disabled hosts are not left out.
PositionsOfAll(hosts, p) == {i \in DOMAIN hosts : hosts[i].protocol = p}

\* Which hosts a section is made of.
Positions(hosts, p) == {i \in DOMAIN hosts : hosts[i].enabled /\ hosts[i].protocol = p}

\* The section of protocol p, three Go maps filled in a loop over the hosts: what
\* is written last under a name stays.
Section(hosts, p) ==
    LET I == Positions(hosts, p)
        Named(i)  == sanitizeName(hosts[i].name)
        Winner(n) == hosts[Max({i \in I : Named(i) = n})]
        At(i, n)  == {j \in DOMAIN hosts[i].middlewares : MiddlewareName(hosts[i], j) = n}
        LastMiddleware(n) ==
            LET i == Max({k \in I : At(k, n) # {}})
            IN  RenderedMiddleware(hosts[i], Max(At(i, n)))
    IN  [routers     |-> [n \in {Named(i) : i \in I} |-> Router(Winner(n))],
         services    |-> [n \in {Named(i) : i \in I} |-> Effective(Winner(n))],
         middlewares |-> [n \in UNION {ToSet(Router(hosts[i]).middlewares) : i \in I} |->
                             LastMiddleware(n)]]

\* What Compile may make of a sequence of hosts that compile.
Configs(hosts) == {[p \in Protocol |-> Section(s, p)] : s \in Sorted(hosts)}
=============================================================================
