------------------------ MODULE MCReservationManager ------------------------
(* Model checking of ReservationManager: instances of the service are       *)
(* interchangeable, so the safety runs identify states up to their names.   *)
EXTENDS ReservationManager, TLC

WorkerSymmetry == Permutations(Workers)
=============================================================================
