----------------------------- MODULE MCIssuance -----------------------------
(* Small instances of Issuance: two processes share the job table; the first *)
(* one's renewer is the only one with certificates to renew.                 *)
EXTENDS Issuance

CONSTANTS w1, w2, r1

TwoProcesses == {{w1, r1}, {w2}}
OneProcess   == {{w1, r1}}
=============================================================================
