------------------------- MODULE MCReservationCache -------------------------
(* Model checking of ReservationCache: reservations are interchangeable.    *)
EXTENDS ReservationCache, TLC

Symmetry == Permutations(Reservations)
=============================================================================
