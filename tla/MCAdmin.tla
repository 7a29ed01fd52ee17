------------------------------- MODULE MCAdmin -------------------------------
(* Small instances of Admin.                                               *)
EXTENDS Admin, TLC

CONSTANTS f1, a1, demo, t1, p1, r1, r2

\* Every token has the prefix of the demo token.
MCPrefixOf == [t \in Token |-> CHOOSE p \in Prefix : TRUE]

RequestsAreAlike == Permutations(Request)
=============================================================================
