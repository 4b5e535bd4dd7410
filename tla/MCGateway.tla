----------------------------- MODULE MCGateway -----------------------------
(* Model checking of Gateway: one account exists, and clients register       *)
(* another email with either password; clients are interchangeable.         *)
EXTENDS Gateway, TLC

CONSTANTS e1, e2, p1, p2

MCAccounts    == {[email |-> e1, password |-> p1]}
MCCredentials == MCAccounts \cup {[email |-> e2, password |-> p] : p \in Passwords}

Symmetry == Permutations(Clients)
=============================================================================
