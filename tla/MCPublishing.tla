---------------------------- MODULE MCPublishing ----------------------------
(* Small instances of Publishing.                                          *)
EXTENDS Publishing, TLC

CONSTANTS p1, p2

\* The first edit breaks the fleet's hosts, the second repairs them.
MCBroken == {1}

PublishersAreAlike == Permutations(Publisher)
=============================================================================
