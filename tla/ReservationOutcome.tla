------------------------- MODULE ReservationOutcome -------------------------
(***************************************************************************)
(* What the reservation service promises about one reservation, whatever   *)
(* happens inside it: the capacity it holds is confirmed or released, and  *)
(* the consignment service is told one of the two, for good.               *)
(* "confirmed" is told only of capacity that is confirmed and stays so.    *)
(* "failed" may be told of capacity whose confirmation was applied without *)
(* an answer: it is released after, or an alert asks for that by hand.     *)
(***************************************************************************)
CONSTANT Reservations

VARIABLES
    outcome,    \* "held", "confirmed" or "released", for each reservation
    told        \* what the consignment service has been told of it

vars == <<outcome, told>>

Init ==
    /\ outcome = [r \in Reservations |-> "held"]
    /\ told = [r \in Reservations |-> {}]

Confirm(r) ==
    /\ outcome[r] = "held"
    /\ "failed" \notin told[r]
    /\ outcome' = [outcome EXCEPT ![r] = "confirmed"]
    /\ UNCHANGED told

Release(r) ==
    /\ outcome[r] = "held"
    /\ outcome' = [outcome EXCEPT ![r] = "released"]
    /\ UNCHANGED told

\* A confirmation nobody was told of is taken back.
Undo(r) ==
    /\ outcome[r] = "confirmed"
    /\ "confirmed" \notin told[r]
    /\ outcome' = [outcome EXCEPT ![r] = "released"]
    /\ UNCHANGED told

TellConfirmed(r) ==
    /\ outcome[r] = "confirmed"
    /\ "failed" \notin told[r]
    /\ told' = [told EXCEPT ![r] = {"confirmed"}]
    /\ UNCHANGED outcome

TellFailed(r) ==
    /\ "confirmed" \notin told[r]
    /\ told' = [told EXCEPT ![r] = {"failed"}]
    /\ UNCHANGED outcome

Next == \E r \in Reservations :
            Confirm(r) \/ Release(r) \/ Undo(r) \/ TellConfirmed(r) \/ TellFailed(r)

Spec == Init /\ [][Next]_vars
=============================================================================
