----------------------------- MODULE AgentConfig -----------------------------
(***************************************************************************)
(* What one agent is served of one revision: buildAgentConfigResponse      *)
(* (internal/api/agent_handlers.go), as operators.                         *)
(*                                                                         *)
(* A proxy host is its identity and the labels its selector requires; what *)
(* the compiler renders for it is a function of the host, and the ETag is  *)
(* the hash of the rendered bytes, so a configuration stands for its ETag. *)
(* A disabled host is one whose selector no agent satisfies.               *)
(***************************************************************************)
EXTENDS Integers, Sequences, FiniteSets

CONSTANTS
    Host,      \* proxy hosts
    Label,     \* the "key=value" entries an agent can carry
    Selector,  \* the labels a host's selector requires
    Cert       \* certificates of the fleet

ASSUME SelectorAssumption == Selector \in [Host -> SUBSET Label]

\* source_proxy_hosts and source_certs of a revision.
Snapshot == [hosts : SUBSET Host, certs : SUBSET Cert]

\* Rendered configuration: its hosts, its tls.certificates, and the ones among
\* them whose keyFile is not empty.
Config == [hosts : SUBSET Host, certs : SUBSET Cert, keys : SUBSET Cert]

\* labels.Matches: every requirement of the selector is met.
Matches(h, labels) == Selector[h] \subseteq labels

\* What publish compiled, from certificates read with their keys.
Compiled(s) == [hosts |-> s.hosts, certs |-> s.certs, keys |-> s.certs]

\* The keys that survive the snapshot's JSON: model.Certificate marshals
\* without KeyPEM.
KeysAfterJSON == {}

Recompiled(s, labels) ==
    [hosts |-> {h \in s.hosts : Matches(h, labels)},
     certs |-> s.certs,
     keys  |-> KeysAfterJSON]

\* A revision without source hosts is served as it was compiled.
Response(s, labels) ==
    IF s.hosts = {} THEN Compiled(s) ELSE Recompiled(s, labels)
=============================================================================
