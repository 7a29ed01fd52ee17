----------------------------- MODULE MCProxyHosts -----------------------------
(* Small instances of ProxyHosts: hosts that clash in a domain, an entry      *)
(* point or a sanitized name, drafts, and chains that resolve or do not.      *)
EXTENDS ProxyHosts

MCCharacter == <<"-", ".", "0", "1", "2", "3", "a", "b", "x">>

dot  == <<"a", ".", "b">>
dash == <<"a", "-", "b">>
mw   == <<"x">>
MCName == {dot, dash, mw}

Plain(n)    == [name |-> n, type |-> "plain", refs |-> <<>>]
ChainTo(n)  == [name |-> dot, type |-> "chain", refs |-> <<n>>]
Typed(t)    == [name |-> mw, type |-> t, refs |-> <<>>]

MCChain == {<<Plain(mw)>>, <<ChainTo(mw)>>, <<Plain(mw), ChainTo(mw)>>}

HTTP(n, d, mws) ==
    [name |-> n, protocol |-> "", domain |-> d, upstreams |-> <<"http">>,
     entryPoints |-> <<>>, middlewares |-> mws, tls |-> FALSE, enabled |-> TRUE]
L4(n, p, d, eps) ==
    [name |-> n, protocol |-> p, domain |-> d, upstreams |-> <<"blank", "host:port">>,
     entryPoints |-> eps, middlewares |-> <<>>, tls |-> FALSE, enabled |-> TRUE]

MCBody ==
    {HTTP(dot, "d1", <<>>), HTTP(dot, "d1", <<Plain(mw)>>), HTTP(dash, "d1", <<>>),
     HTTP(dash, "d2", <<ChainTo(mw)>>), HTTP(mw, "d2", <<Typed("misconfigured")>>),
     HTTP(mw, "d2", <<Typed("unknown")>>),
     [HTTP(mw, "not a hostname", <<>>) EXCEPT !.enabled = FALSE],
     [HTTP(mw, "d2", <<>>) EXCEPT !.upstreams = <<"blank">>],
     L4(dot, "tcp", "*", <<>>), L4(dot, "tcp", "blank", <<>>),
     L4(dot, "udp", "blank", <<"udp53">>),
     L4(dash, "udp", "blank", <<"udp53", "web">>)}
=============================================================================
