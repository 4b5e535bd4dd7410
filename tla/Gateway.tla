------------------------------ MODULE Gateway ------------------------------
(***************************************************************************)
(* What clients see of the system: the HTTP gateway with its middleware,   *)
(* in front of the user service and of the consignment service's gRPC      *)
(* server, and the two command line clients, which call those directly.    *)
(*                                                                         *)
(* A client has one request under way at a time.  The consignment service  *)
(* is followed up to the event that starts the saga: what happens to the   *)
(* payment and to the status behind it is ConsignmentManager's.            *)
(***************************************************************************)
EXTENDS UserService

CONSTANTS
    Clients,
    Credentials,   \* the emails and passwords that clients give
    Consignments,  \* the ids the consignment service may draw
    MaxSkew,       \* how far the gateway's clock may be from the user service's
    MaxRequests    \* bound: how many requests one behaviour may contain

ASSUME RequestsAssumption    == MaxRequests \in Nat /\ MaxSkew \in Nat
ASSUME CredentialsAssumption == Credentials \subseteq User

None == [none |-> "none"] \* no token, no consignment, no answer

VARIABLES
    gatewayClock, \* the time on the gateway
    request,      \* what each client has under way
    token,        \* the token each client was last given
    answer,       \* how the last request of each client was answered
    told,         \* the accounts whose creation was reported to somebody
    requests,     \* how many requests have been made
    stored,       \* the consignments in Mongo
    reservation,  \* what has become of the reservation of each of them
    scheduled     \* those whose payment.authorised event is in the outbox

clientVars  == <<token, answer, told>>
serviceVars == <<stored, reservation, scheduled>>
vars == <<users, clock, faults, gatewayClock, request, clientVars, requests, serviceVars>>

UserOps        == {"createUser", "auth", "userCli"}
ConsignmentOps == {"create", "confirm", "list", "consignmentCli"}
Guarded        == {"create", "confirm", "list"} \* routes behind middleware.Auth

Idle == [pc |-> "idle"]

\* given is the token an auth request is answered with, found the users that
\* user-cli has yet to log in.
UserRequests ==
    [op : UserOps, pc : {"server", "reply", "list", "login"}, user : User,
     code : Codes, given : Token \cup {None}, found : SUBSET User]

ConsignmentRequests ==
    [op : ConsignmentOps, pc : {"middleware", "server", "store", "refresh", "schedule", "reply", "list"},
     consignment : Consignments \cup {None}, code : Codes]

Requests == UserRequests \cup ConsignmentRequests

Answers ==
    [op : {"createUser", "auth"}, user : User, status : {200, 400, 401, 500}]
        \cup [op : {"userCli"}, user : User, status : {0, 1}]
        \cup [op : {"create"}, consignment : Consignments \cup {None}, status : {201, 400, 401, 500}]
        \cup [op : {"confirm"}, consignment : Consignments, status : {202, 401, 404, 409, 500}]
        \cup [op : {"list"}, consignment : {None}, status : {200, 401, 500}]
        \cup [op : {"consignmentCli"}, consignment : Consignments \cup {None}, status : {0, 1}]

TypeOK ==
    /\ UsersOK
    /\ gatewayClock \in 0..MaxTime
    /\ request \in [Clients -> {Idle} \cup Requests]
    /\ token \in [Clients -> Token \cup {None}]
    /\ answer \in [Clients -> {None} \cup Answers]
    /\ told \subseteq User
    /\ requests \in 0..MaxRequests
    /\ stored \subseteq Consignments
    /\ reservation \in [Consignments -> {"none", "held", "gone"}]
    /\ scheduled \subseteq stored

Init ==
    /\ UsersInit
    /\ gatewayClock = 0
    /\ request = [c \in Clients |-> Idle]
    /\ token = [c \in Clients |-> None]
    /\ answer = [c \in Clients |-> None]
    /\ told = {}
    /\ requests = 0
    /\ stored = {}
    /\ reservation = [k \in Consignments |-> "none"]
    /\ scheduled = {}

At(c, op, pc) == request[c].pc = pc /\ request[c].op = op
Goto(c, pc)   == request' = [request EXCEPT ![c].pc = pc]

\* The server returns: the gateway, or the command line client, has the code.
Return(c, code) == request' = [request EXCEPT ![c].pc = "reply", ![c].code = code]

-----------------------------------------------------------------------------
(* The environment *)

\* Clocks advance, never further apart than MaxSkew.
Tick ==
    /\ \/ clock < MaxTime /\ clock' = clock + 1 /\ UNCHANGED gatewayClock
       \/ gatewayClock < MaxTime /\ gatewayClock' = gatewayClock + 1 /\ UNCHANGED clock
    /\ clock' - gatewayClock' \in -MaxSkew..MaxSkew
    /\ UNCHANGED <<users, faults, request, clientVars, requests, serviceVars>>

\* A reservation expires, or is settled by its saga.
ReservationGone(k) ==
    /\ reservation[k] = "held"
    /\ reservation' = [reservation EXCEPT ![k] = "gone"]
    /\ UNCHANGED <<users, clock, faults, gatewayClock, request, clientVars, requests,
                   stored, scheduled>>

-----------------------------------------------------------------------------
(* Requests begin *)

Begin(c, r) ==
    /\ request[c] = Idle
    /\ requests < MaxRequests
    /\ requests' = requests + 1
    /\ request' = [request EXCEPT ![c] = r]
    /\ answer' = [answer EXCEPT ![c] = None]
    /\ UNCHANGED <<users, clock, faults, gatewayClock, token, told, serviceVars>>

\* POST /v1/users, POST /auth, and user-cli.
BeginUser(c, op, u) ==
    Begin(c, [op |-> op, pc |-> "server", user |-> u, code |-> "OK",
              given |-> None, found |-> {}])

\* POST and GET /v1/consignments, and consignment-cli.
BeginConsignment(c, op) ==
    Begin(c, [op |-> op, pc |-> IF op \in Guarded THEN "middleware" ELSE "server",
              consignment |-> None, code |-> "OK"])

\* POST /v1/consignments/confirm/:id
BeginConfirm(c, k) ==
    Begin(c, [op |-> "confirm", pc |-> "middleware", consignment |-> k, code |-> "OK"])

-----------------------------------------------------------------------------
(* The gateway *)

\* The request ends, and the client is told how: a command line client by the
\* exit code of its process.
End(c, status) ==
    LET r == request[c]
        a == IF r.op \in UserOps
             THEN [op |-> r.op, user |-> r.user, status |-> status]
             ELSE [op |-> r.op, consignment |-> r.consignment, status |-> status]
    IN
    /\ request' = [request EXCEPT ![c] = Idle]
    /\ answer' = [answer EXCEPT ![c] = a]

\* Mutant: the error of decodeJWT is only logged.
Admits_IgnoresError(c) == token[c] # None

\* The x-token header is there, and decodes.
Admits(c) == token[c] # None /\ Valid(token[c], gatewayClock)

Middleware(c) ==
    /\ \E op \in Guarded : At(c, op, "middleware")
    /\ IF Admits(c)
       THEN Goto(c, "server") /\ UNCHANGED answer
       ELSE End(c, 401)
    /\ UNCHANGED <<users, clock, faults, gatewayClock, token, told, requests, serviceVars>>

\* ShouldBindJSON fails.
BadRequest(c) ==
    /\ \E op \in {"createUser", "auth", "create"} : At(c, op, "server")
    /\ End(c, 400)
    /\ UNCHANGED <<users, clock, faults, gatewayClock, token, told, requests, serviceVars>>

\* The server cannot be reached, or its answer is lost.
Unavailable(c) ==
    /\ request[c].pc \in {"server", "list", "login", "reply"}
    /\ request[c].code = "OK"
    /\ Return(c, "Unavailable")
    /\ Fault("rpc")
    /\ UNCHANGED <<users, clock, gatewayClock, clientVars, requests, serviceVars>>

\* The status of a call that succeeds.
Success(op) ==
    CASE op = "create"  -> 201
      [] op = "confirm" -> 202
      [] OTHER          -> 200

\* Mutant: ConfirmConsignment's switch has no default.
Status_NoDefault(op, code) ==
    CASE code = "OK"                                   -> Success(op)
      [] op = "auth" /\ code = "Unauthenticated"       -> 401
      [] op = "confirm" /\ code = "NotFound"           -> 404
      [] op = "confirm" /\ code = "FailedPrecondition" -> 409
      [] op = "confirm"                                -> 200
      [] OTHER                                         -> 500

Status(op, code) ==
    CASE code = "OK"                                   -> Success(op)
      [] op = "auth" /\ code = "Unauthenticated"       -> 401
      [] op = "confirm" /\ code = "NotFound"           -> 404
      [] op = "confirm" /\ code = "FailedPrecondition" -> 409
      [] OTHER                                         -> 500

Reply(c) ==
    LET r == request[c] IN
    /\ r.pc = "reply"
    /\ r.op \notin {"userCli", "consignmentCli"}
    /\ End(c, Status(r.op, r.code))
    /\ token' = IF r.op = "auth" /\ r.code = "OK" THEN [token EXCEPT ![c] = r.given] ELSE token
    /\ told' = IF r.op = "createUser" /\ r.code = "OK" THEN told \cup {r.user} ELSE told
    /\ UNCHANGED <<users, clock, faults, gatewayClock, requests, serviceVars>>

-----------------------------------------------------------------------------
(* The user service's RPCs *)

CreateUser(c) ==
    /\ At(c, "createUser", "server") \/ At(c, "userCli", "server")
    /\ \E code \in Codes : Create(request[c].user, code) /\ Return(c, code)
    /\ UNCHANGED <<clock, gatewayClock, clientVars, requests, serviceVars>>

AuthUser(c) ==
    LET u == request[c].user IN
    /\ At(c, "auth", "server")
    /\ \E code \in Codes :
          /\ Auth(u, code)
          /\ request' = [request EXCEPT ![c].pc = "reply", ![c].code = code,
                             ![c].given = IF code = "OK" THEN Encode(u) ELSE None]
    /\ UNCHANGED <<clock, gatewayClock, clientVars, requests, serviceVars>>

-----------------------------------------------------------------------------
(* user-cli creates a user, and logs every user in with that one's password *)

UserCliCreated(c) ==
    /\ At(c, "userCli", "reply")
    /\ request[c].code = "OK"
    /\ Goto(c, "list")
    /\ told' = told \cup {request[c].user}
    /\ UNCHANGED <<users, clock, faults, gatewayClock, token, answer, requests, serviceVars>>

UserCliGetAll(c) ==
    /\ At(c, "userCli", "list")
    /\ \E code \in Codes, found \in SUBSET users :
          /\ GetAll(code, found)
          /\ request' = [request EXCEPT ![c].pc = IF code = "OK" THEN "login" ELSE "reply",
                             ![c].code = code, ![c].found = found]
    /\ UNCHANGED <<clock, gatewayClock, clientVars, requests, serviceVars>>

UserCliAuth(c) ==
    /\ At(c, "userCli", "login")
    /\ \E v \in request[c].found, code \in Codes :
          /\ Auth([email |-> v.email, password |-> request[c].user.password], code)
          /\ request' = [request EXCEPT ![c].pc = IF code = "OK" THEN "login" ELSE "reply",
                             ![c].code = code, ![c].found = @ \ {v}]
    /\ UNCHANGED <<clock, gatewayClock, clientVars, requests, serviceVars>>

UserCliEnds(c) ==
    /\ \/ At(c, "userCli", "login") /\ request[c].found = {} /\ End(c, 0)
       \/ At(c, "userCli", "reply") /\ request[c].code # "OK" /\ End(c, 1)
    /\ UNCHANGED <<users, clock, faults, gatewayClock, token, told, requests, serviceVars>>

-----------------------------------------------------------------------------
(* The consignment service's RPCs *)

\* CreateConsignment reserves first: capacity, or none to be had.
ReserveCapacity(c) ==
    /\ At(c, "create", "server") \/ At(c, "consignmentCli", "server")
    /\ \/ \E k \in Consignments :
             /\ reservation[k] = "none"
             /\ reservation' = [reservation EXCEPT ![k] = "held"]
             /\ \/ NoFault /\ request' = [request EXCEPT ![c].pc = "store", ![c].consignment = k]
                \/ Fault("reservationReply") /\ Return(c, "Internal")
       \/ Return(c, "Internal") /\ UNCHANGED reservation /\ NoFault
    /\ UNCHANGED <<users, clock, gatewayClock, clientVars, requests, stored, scheduled>>

\* Mutant: the error of the repository is only logged.
StoreConsignment_IgnoresError(c) ==
    /\ request[c].pc = "store"
    /\ \/ stored' = stored \cup {request[c].consignment} /\ NoFault
       \/ UNCHANGED stored /\ Fault("mongo")
    /\ Return(c, "OK")
    /\ UNCHANGED <<users, clock, gatewayClock, clientVars, requests, reservation, scheduled>>

\* Then it stores; if that fails, the reservation is left to expire.
StoreConsignment(c) ==
    /\ request[c].pc = "store"
    /\ \/ stored' = stored \cup {request[c].consignment} /\ Return(c, "OK") /\ NoFault
       \/ UNCHANGED stored /\ Return(c, "Internal") /\ Fault("mongo")
       \/ stored' = stored \cup {request[c].consignment} /\ Return(c, "Internal") /\ Fault("mongoReply")
    /\ UNCHANGED <<users, clock, gatewayClock, clientVars, requests, reservation, scheduled>>

\* ConfirmConsignment.  A failing look-up is answered like an unknown id.
FindConsignment(c) ==
    /\ At(c, "confirm", "server")
    /\ \/ request[c].consignment \in stored /\ Goto(c, "refresh") /\ NoFault
       \/ request[c].consignment \notin stored /\ Return(c, "NotFound") /\ NoFault
       \/ Return(c, "NotFound") /\ Fault("mongo")
    /\ UNCHANGED <<users, clock, gatewayClock, clientVars, requests, serviceVars>>

\* A reservation that is there is given its time again.
RefreshReservation(c) ==
    /\ request[c].pc = "refresh"
    /\ \/ reservation[request[c].consignment] = "held" /\ Goto(c, "schedule") /\ NoFault
       \/ /\ reservation[request[c].consignment] = "gone"
          /\ Return(c, "FailedPrecondition")
          /\ NoFault
       \/ Return(c, "Internal") /\ Fault("reservation")
    /\ UNCHANGED <<users, clock, gatewayClock, clientVars, requests, serviceVars>>

\* The payment is authorised and its event scheduled, or the consignment is
\* cancelled.
ScheduleConfirmation(c) ==
    /\ request[c].pc = "schedule"
    /\ \/ scheduled' = scheduled \cup {request[c].consignment} /\ Return(c, "OK") /\ NoFault
       \/ UNCHANGED scheduled /\ Return(c, "Internal") /\ Fault("payment")
       \/ /\ scheduled' = scheduled \cup {request[c].consignment}
          /\ Return(c, "Internal")
          /\ Fault("mongoReply")
    /\ UNCHANGED <<users, clock, gatewayClock, clientVars, requests, stored, reservation>>

GetConsignments(c) ==
    /\ At(c, "list", "server")
    /\ \/ Return(c, "OK") /\ NoFault
       \/ Return(c, "Internal") /\ Fault("mongo")
    /\ UNCHANGED <<users, clock, gatewayClock, clientVars, requests, serviceVars>>

\* consignment-cli creates a consignment and lists them all.
ConsignmentCliCreated(c) ==
    /\ At(c, "consignmentCli", "reply")
    /\ request[c].code = "OK"
    /\ Goto(c, "list")
    /\ UNCHANGED <<users, clock, faults, gatewayClock, clientVars, requests, serviceVars>>

ConsignmentCliEnds(c) ==
    /\ \/ At(c, "consignmentCli", "list") /\ End(c, 0) /\ NoFault
       \/ At(c, "consignmentCli", "list") /\ End(c, 1) /\ Fault("mongo")
       \/ At(c, "consignmentCli", "reply") /\ request[c].code # "OK" /\ End(c, 1) /\ NoFault
    /\ UNCHANGED <<users, clock, gatewayClock, token, told, requests, serviceVars>>

-----------------------------------------------------------------------------
RequestStep(c) ==
    \/ Middleware(c) \/ BadRequest(c) \/ Unavailable(c) \/ Reply(c)
    \/ CreateUser(c) \/ AuthUser(c)
    \/ UserCliCreated(c) \/ UserCliGetAll(c) \/ UserCliAuth(c) \/ UserCliEnds(c)
    \/ ReserveCapacity(c) \/ StoreConsignment(c)
    \/ FindConsignment(c) \/ RefreshReservation(c) \/ ScheduleConfirmation(c)
    \/ GetConsignments(c)
    \/ ConsignmentCliCreated(c) \/ ConsignmentCliEnds(c)

Next ==
    \/ Tick
    \/ \E k \in Consignments : ReservationGone(k)
    \/ \E c \in Clients :
          \/ \E op \in UserOps, u \in Credentials : BeginUser(c, op, u)
          \/ \E op \in ConsignmentOps \ {"confirm"} : BeginConsignment(c, op)
          \/ \E k \in Consignments : BeginConfirm(c, k)
          \/ RequestStep(c)

Spec == Init /\ [][Next]_vars

-----------------------------------------------------------------------------
(* Properties *)

\* Whoever was told that an account was created can log in to it, then and
\* later: no other registration takes the email over, or shares it.
CreatedCanLogIn ==
    \A u \in told : u \in users /\ \A v \in users : v.email = u.email => v = u

\* What a client was last told is true, however often an answer was lost on the
\* way: after 201, and after consignment-cli, the consignment is stored; after
\* 202 its saga is scheduled; after 409 its reservation is gone; after user-cli
\* the account exists.
AnswersAreTrue ==
    \A c \in Clients :
        LET a == answer[c] IN
        a # None =>
            /\ a.status = 201 => a.consignment \in stored
            /\ a.op = "consignmentCli" /\ a.status = 0 => a.consignment \in stored
            /\ a.status = 202 => a.consignment \in scheduled
            /\ a.status = 409 => reservation[a.consignment] = "gone"
            /\ a.op = "userCli" /\ a.status = 0 => a.user \in users

\* The request of client c passes the middleware.
Admitted(c) == request[c].pc = "middleware" /\ request'[c].pc = "server"
Refused(c)  == request[c].pc = "middleware" /\ request'[c].pc = "idle"

\* A session ends: a request is let through only for an account that exists,
\* and no later after its login than the token's life and the clocks' skew.
SessionsExpire ==
    [][\A c \in Clients : Admitted(c) =>
          /\ token[c].user \in users
          /\ clock <= token[c].expiresAt + MaxSkew]_vars

\* Nor does it end early: whoever is refused with a token has had it for its
\* whole life, less the skew; the gateway's clock being behind does not matter.
SessionsLast ==
    [][\A c \in Clients : Refused(c) /\ token[c] # None =>
          clock > token[c].expiresAt - MaxSkew]_vars
=============================================================================
