----------------------------- MODULE MCDelivery -----------------------------
(* Small instances of Delivery.                                            *)
EXTENDS Delivery, TLC

CONSTANTS a1, everywhere, labelled, prod, c1

\* One host for everybody, one for agents that carry the label.
MCSelector == (everywhere :> {}) @@ (labelled :> {prod})
=============================================================================
