------------------------ MODULE MCReservationServer ------------------------
(* Model checking of ReservationServer: the two reservations fit on v1 one   *)
(* at a time, for their weight, and only the second does not fit on v2.     *)
EXTENDS ReservationServer, TLC

CONSTANTS v1, v2, r1, r2

MCLimit  == [v \in Vessels |-> IF v = v1 THEN [weight |-> 2, containers |-> 2]
                                         ELSE [weight |-> 5, containers |-> 1]]
MCDemand == r1 :> [weight |-> 1, containers |-> 1] @@ r2 :> [weight |-> 2, containers |-> 2]
=============================================================================
