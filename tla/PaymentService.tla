--------------------------- MODULE PaymentService ---------------------------
(***************************************************************************)
(* The payment service: a map from authorisations to payments under one    *)
(* mutex, so that each call is one step.  A payment takes the idempotency  *)
(* key of its capture as payment id, and Refund looks payments up by it.   *)
(***************************************************************************)
CONSTANTS
    Auths,      \* authorisation ids, fresh in every Authorise
    PaymentIDs, \* the idempotency keys given to Capture
    NoID        \* the empty id: no authorisation, or no payment captured

ASSUME NoIDAssumption == NoID \notin PaymentIDs \cup Auths

VARIABLE payments

PaymentStatuses == {"none", "authorised", "captured", "refunded", "voided"}

PaymentsOK ==
    payments \in [Auths -> [status : PaymentStatuses, captureID : PaymentIDs \cup {NoID}]]

NoPayments == payments = [a \in Auths |-> [status |-> "none", captureID |-> NoID]]

Status(a)       == payments[a].status
SetStatus(a, s) == payments' = [payments EXCEPT ![a].status = s]

Authorise(a) == Status(a) = "none" /\ SetStatus(a, "authorised")

\* A second capture of the same authorisation answers with the first one.
CanCapture(a) == Status(a) \in {"authorised", "captured"}

Capture(a, key) ==
    payments' = IF Status(a) = "authorised"
                THEN [payments EXCEPT ![a] = [status |-> "captured", captureID |-> key]]
                ELSE payments

\* The payments a refund of id may find: whichever comes first in the map.
Anchored(id) == {a \in Auths : payments[a].captureID = id}

CanRefund(id) == \E a \in Anchored(id) : Status(a) \in {"captured", "refunded"}

Refund(id) == \E a \in Anchored(id) :
    Status(a) \in {"captured", "refunded"} /\ SetStatus(a, "refunded")

CanVoid(a) == Status(a) \in {"authorised", "voided"}

Void(a) == CanVoid(a) /\ SetStatus(a, "voided")
=============================================================================
