--------------------------- MODULE GatewayProofs ---------------------------
(***************************************************************************)
(* Proofs about Gateway, for any clients, accounts and consignments, any   *)
(* life of a token, any skew of the clocks and failures of every kind.     *)
(*                                                                         *)
(* What a client is told is decided some steps before it is told, so the   *)
(* invariant says what a request under way has learnt (Knows): every such  *)
(* fact is one that no other request can undo, since accounts,             *)
(* consignments and scheduled events are only added, and a reservation     *)
(* that is gone does not come back.                                        *)
(***************************************************************************)
EXTENDS Gateway, TLAPS

Knows(r) ==
    /\ r.pc \in {"list", "login"} /\ r.op = "userCli" => r.user \in users
    /\ r.pc = "reply" /\ r.code = "OK" /\ r.op \in {"createUser", "userCli"} => r.user \in users
    /\ r.pc = "reply" /\ r.code = "OK" /\ r.op = "auth" =>
           r.given \in Token /\ r.given.user \in users
    /\ r.pc = "store" => r.op \in {"create", "consignmentCli"} /\ r.consignment \in Consignments
    /\ r.pc \in {"refresh", "schedule"} => r.op = "confirm" /\ r.consignment \in stored
    /\ r.pc = "list" /\ r.op = "consignmentCli" => r.consignment \in stored
    /\ r.pc = "reply" /\ r.code = "OK" /\ r.op \in {"create", "consignmentCli"} =>
           r.consignment \in stored
    /\ r.pc # "idle" /\ r.op = "confirm" => r.consignment \in Consignments
    /\ r.pc # "idle" /\ r.op = "list" => r.consignment = None
    /\ r.pc = "reply" /\ r.code = "OK" /\ r.op = "confirm" => r.consignment \in scheduled
    /\ r.pc = "reply" /\ r.code = "FailedPrecondition" /\ r.op = "confirm" =>
           reservation[r.consignment] = "gone"

IsTrue(a) ==
    a # None =>
        /\ a.status = 201 => a.consignment \in stored
        /\ a.op = "consignmentCli" /\ a.status = 0 => a.consignment \in stored
        /\ a.status = 202 => a.consignment \in scheduled
        /\ a.status = 409 => reservation[a.consignment] = "gone"
        /\ a.op = "userCli" /\ a.status = 0 => a.user \in users

EmailsUnique  == \A u, v \in users : u.email = v.email => u = v
TokenOK(t)    == t # None => t \in Token /\ t.user \in users
ClocksAgree   == clock - gatewayClock \in -MaxSkew..MaxSkew

GatewayInv ==
    /\ TypeOK
    /\ EmailsUnique
    /\ told \subseteq users
    /\ ClocksAgree
    /\ \A c \in Clients : Knows(request[c]) /\ TokenOK(token[c]) /\ IsTrue(answer[c])

LEMMA GatewayInit == Init => GatewayInv
  <1> SUFFICES ASSUME Init PROVE GatewayInv
    OBVIOUS
  <1>1. TypeOK
    BY TimeAssumption, BoundAssumption, AccountsAssumption, RequestsAssumption
    DEF Init, UsersInit, TypeOK, UsersOK
  <1>2. EmailsUnique /\ told \subseteq users /\ ClocksAgree
    BY AccountsAssumption, RequestsAssumption
    DEF Init, UsersInit, EmailsUnique, ClocksAgree
  <1>3. \A c \in Clients : Knows(request[c]) /\ TokenOK(token[c]) /\ IsTrue(answer[c])
    BY DEF Init, Idle, Knows, TokenOK, IsTrue
  <1>4. QED
    BY <1>1, <1>2, <1>3 DEF GatewayInv

-----------------------------------------------------------------------------
(* Requests under way *)

\* A request that is not idle is one of the two kinds; its operation tells which.
LEMMA RequestKinds ==
    ASSUME TypeOK, NEW c \in Clients, request[c].pc # "idle"
    PROVE  /\ request[c] \in Requests
           /\ request[c].op \in UserOps => request[c] \in UserRequests
           /\ request[c].op \in ConsignmentOps => request[c] \in ConsignmentRequests
  <1>1. request[c] \in Requests
    BY DEF TypeOK, Idle
  <1>2. QED
    BY <1>1 DEF Requests, UserRequests, ConsignmentRequests, UserOps, ConsignmentOps

LEMMA ReturnedRequest ==
    ASSUME NEW r \in Requests, NEW code \in Codes
    PROVE  [r EXCEPT !.pc = "reply", !.code = code] \in Requests
  <1>1. CASE r \in UserRequests
    BY <1>1 DEF Requests, UserRequests
  <1>2. CASE r \in ConsignmentRequests
    BY <1>2 DEF Requests, ConsignmentRequests
  <1>3. QED
    BY <1>1, <1>2 DEF Requests

LEMMA FaultBound ==
    ASSUME TypeOK
    PROVE  /\ NoFault => faults' \in 0..MaxFaults
           /\ \A k : Fault(k) => faults' \in 0..MaxFaults
  BY BoundAssumption DEF TypeOK, UsersOK, NoFault, Fault

\* Facts that stay true.
Grows ==
    /\ users \subseteq users'
    /\ stored \subseteq stored'
    /\ scheduled \subseteq scheduled'
    /\ \A k \in Consignments : reservation[k] = "gone" => reservation'[k] = "gone"

LEMMA KnowsStays ==
    ASSUME GatewayInv, Grows, NEW c \in Clients, request'[c] = request[c]
    PROVE  Knows(request[c])'
  <1>1. Knows(request[c])
    BY DEF GatewayInv
  <1>2. QED
    BY <1>1 DEF Grows, Knows, None

LEMMA TokenStays ==
    ASSUME GatewayInv, Grows, NEW c \in Clients, token'[c] = token[c]
    PROVE  TokenOK(token[c])'
  BY DEF GatewayInv, Grows, TokenOK, None, Token, User

LEMMA AnswerStays ==
    ASSUME GatewayInv, Grows, NEW c \in Clients, answer'[c] = answer[c]
    PROVE  IsTrue(answer[c])'
  <1>1. answer[c] \in {None} \cup Answers /\ IsTrue(answer[c])
    BY DEF GatewayInv, TypeOK
  <1>2. answer[c] # None /\ answer[c].status = 409 => answer[c].consignment \in Consignments
    BY <1>1 DEF Answers
  <1>3. QED
    BY <1>1, <1>2 DEF Grows, IsTrue, None

\* A step that moves the request of one client, and whose other effects last.
LEMMA RequestMoves ==
    ASSUME GatewayInv, NEW c \in Clients, NEW r \in {Idle} \cup Requests,
           request' = [request EXCEPT ![c] = r], Knows(r)',
           faults' \in 0..MaxFaults, requests' \in 0..MaxRequests,
           UNCHANGED <<clock, gatewayClock, token>>,
           answer' = answer \/ answer' = [answer EXCEPT ![c] = None],
           users' \subseteq User, EmailsUnique', told' \subseteq users',
           stored' \subseteq Consignments, scheduled' \subseteq stored',
           reservation' \in [Consignments -> {"none", "held", "gone"}], Grows
    PROVE  GatewayInv'
  <1>1. TypeOK'
    BY DEF GatewayInv, TypeOK, UsersOK
  <1>2. ClocksAgree'
    BY DEF GatewayInv, ClocksAgree
  <1>3. ASSUME NEW d \in Clients PROVE Knows(request[d])'
    <2>1. CASE d = c
      BY <2>1 DEF GatewayInv, TypeOK
    <2>2. CASE d # c
      BY <2>2, KnowsStays DEF GatewayInv, TypeOK
    <2>3. QED
      BY <2>1, <2>2
  <1>4. ASSUME NEW d \in Clients PROVE TokenOK(token[d])'
    BY TokenStays
  <1>5. ASSUME NEW d \in Clients PROVE IsTrue(answer[d])'
    <2>1. CASE answer'[d] = answer[d]
      BY <2>1, AnswerStays
    <2>2. CASE answer'[d] # answer[d]
      BY <2>2 DEF GatewayInv, TypeOK, IsTrue
    <2>3. QED
      BY <2>1, <2>2
  <1>6. QED
    BY <1>1, <1>2, <1>3, <1>4, <1>5 DEF GatewayInv

\* The same for a step that changes nothing else.
LEMMA OnlyRequestMoves ==
    ASSUME GatewayInv, NEW c \in Clients, NEW r \in Requests,
           request' = [request EXCEPT ![c] = r], Knows(r)', faults' \in 0..MaxFaults,
           UNCHANGED <<users, clock, gatewayClock, clientVars, requests, serviceVars>>
    PROVE  GatewayInv'
  <1>1. EmailsUnique' /\ Grows
    BY DEF GatewayInv, EmailsUnique, Grows, serviceVars
  <1>2. QED
    BY <1>1, RequestMoves DEF GatewayInv, TypeOK, UsersOK, clientVars, serviceVars

\* What a request keeps when its call returns.
LEMMA Returned ==
    ASSUME GatewayInv, NEW c \in Clients, request[c].pc # "idle",
           NEW code \in Codes, Return(c, code)
    PROVE  \E r \in Requests :
               /\ request' = [request EXCEPT ![c] = r]
               /\ r.pc = "reply" /\ r.code = code /\ r.op = request[c].op
               /\ r.op \in UserOps => r.user = request[c].user
               /\ r.op \in ConsignmentOps => r.consignment = request[c].consignment
  <1>1. request[c] \in Requests /\ TypeOK
    BY RequestKinds DEF GatewayInv
  <1>2. PICK r \in Requests : r = [request[c] EXCEPT !.pc = "reply", !.code = code]
    BY <1>1, ReturnedRequest
  <1>3. request' = [request EXCEPT ![c] = r]
    BY <1>2 DEF Return
  <1>4. r.pc = "reply" /\ r.code = code /\ r.op = request[c].op
    BY <1>1, <1>2 DEF Requests, UserRequests, ConsignmentRequests
  <1>5. r.op \in ConsignmentOps => r.consignment = request[c].consignment
    BY <1>1, <1>2, <1>4 DEF Requests, UserRequests, ConsignmentRequests, UserOps, ConsignmentOps
  <1>6. r.op \in UserOps => r.user = request[c].user
    BY <1>1, <1>2, <1>4 DEF Requests, UserRequests, ConsignmentRequests, UserOps, ConsignmentOps
  <1>7. QED
    BY <1>3, <1>4, <1>5, <1>6

\* A call that fails teaches nothing.
LEMMA CallFails ==
    ASSUME GatewayInv, NEW c \in Clients, request[c].pc # "idle",
           NEW code \in Codes \ {"OK", "FailedPrecondition"}, Return(c, code),
           faults' \in 0..MaxFaults,
           UNCHANGED <<users, clock, gatewayClock, clientVars, requests, serviceVars>>
    PROVE  GatewayInv'
  <1>1. PICK r \in Requests :
            /\ request' = [request EXCEPT ![c] = r]
            /\ r.pc = "reply" /\ r.code = code /\ r.op = request[c].op
            /\ r.op \in ConsignmentOps => r.consignment = request[c].consignment
    BY Returned
  <1>2. Knows(r)'
    BY <1>1 DEF GatewayInv, Knows, ConsignmentOps, None
  <1>3. QED
    BY <1>1, <1>2, OnlyRequestMoves

\* The request of a client ends, with a true answer.
LEMMA RequestEnds ==
    ASSUME GatewayInv, NEW c \in Clients, NEW a \in Answers,
           request' = [request EXCEPT ![c] = Idle], answer' = [answer EXCEPT ![c] = a],
           IsTrue(a), faults' \in 0..MaxFaults,
           UNCHANGED <<users, clock, gatewayClock, requests, serviceVars>>,
           token' = token \/ (\E t \in Token : token' = [token EXCEPT ![c] = t] /\ t.user \in users),
           told' = told \/ (\E u \in users : told' = told \cup {u})
    PROVE  GatewayInv'
  <1>1. TypeOK'
    BY DEF GatewayInv, TypeOK, UsersOK, serviceVars
  <1>2. Grows
    BY DEF Grows, serviceVars
  <1>3. EmailsUnique' /\ told' \subseteq users' /\ ClocksAgree'
    BY DEF GatewayInv, EmailsUnique, ClocksAgree
  <1>4. ASSUME NEW d \in Clients PROVE Knows(request[d])'
    <2>1. CASE d = c
      BY <2>1 DEF GatewayInv, TypeOK, Idle, Knows
    <2>2. CASE d # c
      BY <2>2, <1>2, KnowsStays DEF GatewayInv, TypeOK
    <2>3. QED
      BY <2>1, <2>2
  <1>5. ASSUME NEW d \in Clients PROVE TokenOK(token[d])'
    <2>1. CASE token'[d] = token[d]
      BY <2>1, <1>2, TokenStays
    <2>2. CASE token'[d] # token[d]
      BY <2>2 DEF GatewayInv, TypeOK, TokenOK
    <2>3. QED
      BY <2>1, <2>2
  <1>6. ASSUME NEW d \in Clients PROVE IsTrue(answer[d])'
    <2>1. CASE d = c
      BY <2>1 DEF GatewayInv, TypeOK, IsTrue, serviceVars
    <2>2. CASE d # c
      BY <2>2, <1>2, AnswerStays DEF GatewayInv, TypeOK
    <2>3. QED
      BY <2>1, <2>2
  <1>7. QED
    BY <1>1, <1>3, <1>4, <1>5, <1>6 DEF GatewayInv

-----------------------------------------------------------------------------
(* The environment, and the beginning of requests *)

LEMMA EnvironmentStep ==
    ASSUME GatewayInv, Tick \/ \E k \in Consignments : ReservationGone(k)
    PROVE  GatewayInv'
  <1>1. TypeOK'
    BY TimeAssumption DEF GatewayInv, TypeOK, UsersOK, Tick, ReservationGone, clientVars, serviceVars
  <1>2. Grows
    BY DEF GatewayInv, TypeOK, Grows, Tick, ReservationGone, serviceVars
  <1>3. request' = request /\ token' = token /\ answer' = answer /\ told' = told /\ users' = users
    BY DEF Tick, ReservationGone, clientVars
  <1>4. ClocksAgree'
    BY DEF GatewayInv, ClocksAgree, Tick, ReservationGone
  <1>5. QED
    BY <1>1, <1>2, <1>3, <1>4, KnowsStays, TokenStays, AnswerStays DEF GatewayInv, EmailsUnique

LEMMA BeginStep ==
    ASSUME GatewayInv, NEW c \in Clients,
           \/ \E op \in UserOps, u \in Credentials : BeginUser(c, op, u)
           \/ \E op \in ConsignmentOps \ {"confirm"} : BeginConsignment(c, op)
           \/ \E k \in Consignments : BeginConfirm(c, k)
    PROVE  GatewayInv'
  <1>1. ASSUME NEW r \in Requests, Begin(c, r), Knows(r)'
        PROVE  GatewayInv'
    <2>1. EmailsUnique' /\ Grows
      BY <1>1 DEF GatewayInv, EmailsUnique, Grows, Begin, serviceVars
    <2>2. requests' \in 0..MaxRequests
      BY <1>1, RequestsAssumption DEF GatewayInv, TypeOK, Begin
    <2>3. QED
      BY <1>1, <2>1, <2>2, RequestMoves DEF GatewayInv, TypeOK, UsersOK, Begin, serviceVars
  <1>2. CASE \E op \in UserOps, u \in Credentials : BeginUser(c, op, u)
    <2>1. PICK op \in UserOps, u \in Credentials : BeginUser(c, op, u)
      BY <1>2
    <2>2. PICK r : r = [op |-> op, pc |-> "server", user |-> u, code |-> "OK",
                        given |-> None, found |-> {}]
      OBVIOUS
    <2>3. r \in Requests
      BY <2>2, CredentialsAssumption DEF Requests, UserRequests, Codes
    <2>4. Knows(r)'
      BY <2>2 DEF Knows, UserOps
    <2>5. QED
      BY <1>1, <2>1, <2>2, <2>3, <2>4 DEF BeginUser
  <1>3. CASE \E op \in ConsignmentOps \ {"confirm"} : BeginConsignment(c, op)
    <2>1. PICK op \in ConsignmentOps \ {"confirm"} : BeginConsignment(c, op)
      BY <1>3
    <2>2. PICK r : r = [op |-> op, pc |-> IF op \in Guarded THEN "middleware" ELSE "server",
                        consignment |-> None, code |-> "OK"]
      OBVIOUS
    <2>3. r \in Requests
      BY <2>2 DEF Requests, ConsignmentRequests, Codes
    <2>4. Knows(r)'
      BY <2>2 DEF Knows
    <2>5. QED
      BY <1>1, <2>1, <2>2, <2>3, <2>4 DEF BeginConsignment
  <1>4. CASE \E k \in Consignments : BeginConfirm(c, k)
    <2>1. PICK k \in Consignments : BeginConfirm(c, k)
      BY <1>4
    <2>2. PICK r : r = [op |-> "confirm", pc |-> "middleware", consignment |-> k, code |-> "OK"]
      OBVIOUS
    <2>3. r \in Requests
      BY <2>2 DEF Requests, ConsignmentRequests, ConsignmentOps, Codes
    <2>4. Knows(r)'
      BY <2>2 DEF Knows
    <2>5. QED
      BY <1>1, <2>1, <2>2, <2>3, <2>4 DEF BeginConfirm
  <1>5. QED
    BY <1>2, <1>3, <1>4

-----------------------------------------------------------------------------
(* The gateway *)

\* What a request keeps when it goes on.
LEMMA GoesOn ==
    ASSUME GatewayInv, NEW c \in Clients, NEW pc, Goto(c, pc),
           \/ request[c] \in UserRequests /\ pc \in {"server", "reply", "list", "login"}
           \/ request[c] \in ConsignmentRequests
              /\ pc \in {"middleware", "server", "store", "refresh", "schedule", "reply", "list"}
    PROVE  \E r \in Requests :
               /\ request' = [request EXCEPT ![c] = r]
               /\ r.pc = pc /\ r.code = request[c].code /\ r.op = request[c].op
               /\ r.op \in UserOps => r.user = request[c].user
               /\ r.op \in ConsignmentOps => r.consignment = request[c].consignment
  <1>1. PICK r : r = [request[c] EXCEPT !.pc = pc]
    OBVIOUS
  <1>2. request' = [request EXCEPT ![c] = r]
    BY <1>1 DEF Goto
  <1>3. CASE request[c] \in UserRequests /\ pc \in {"server", "reply", "list", "login"}
    <2>1. r \in UserRequests
      BY <1>1, <1>3 DEF UserRequests
    <2>2. /\ r.pc = pc /\ r.code = request[c].code /\ r.op = request[c].op
          /\ r.user = request[c].user /\ r.op \notin ConsignmentOps
      BY <1>1, <1>3 DEF UserRequests, UserOps, ConsignmentOps
    <2>3. QED
      BY <1>2, <2>1, <2>2 DEF Requests
  <1>4. CASE /\ request[c] \in ConsignmentRequests
             /\ pc \in {"middleware", "server", "store", "refresh", "schedule", "reply", "list"}
    <2>1. r \in ConsignmentRequests
      BY <1>1, <1>4 DEF ConsignmentRequests
    <2>2. /\ r.pc = pc /\ r.code = request[c].code /\ r.op = request[c].op
          /\ r.consignment = request[c].consignment /\ r.op \notin UserOps
      BY <1>1, <1>4 DEF ConsignmentRequests, UserOps, ConsignmentOps
    <2>3. QED
      BY <1>2, <2>1, <2>2 DEF Requests
  <1>5. QED
    BY <1>3, <1>4

LEMMA Answered ==
    ASSUME GatewayInv, NEW c \in Clients, NEW status, End(c, status)
    PROVE  \E a :
               /\ request' = [request EXCEPT ![c] = Idle]
               /\ answer' = [answer EXCEPT ![c] = a]
               /\ request[c].op \in UserOps =>
                     a = [op |-> request[c].op, user |-> request[c].user, status |-> status]
               /\ request[c].op \notin UserOps =>
                     a = [op |-> request[c].op, consignment |-> request[c].consignment,
                          status |-> status]
  BY DEF End

LEMMA StatusValues ==
    ASSUME NEW op, NEW code \in Codes
    PROVE  /\ op = "createUser" => Status(op, code) \in {200, 500}
           /\ op = "auth" => Status(op, code) \in {200, 401, 500}
           /\ op = "create" =>
                 Status(op, code) \in {201, 500} /\ (Status(op, code) = 201 => code = "OK")
           /\ op = "confirm" =>
                 /\ Status(op, code) \in {202, 404, 409, 500}
                 /\ Status(op, code) = 202 => code = "OK"
                 /\ Status(op, code) = 409 => code = "FailedPrecondition"
           /\ op = "list" => Status(op, code) \in {200, 500}
  <1>1. CASE op = "createUser"
    BY <1>1 DEF Status, Success
  <1>2. CASE op = "auth"
    BY <1>2 DEF Status, Success
  <1>3. CASE op = "create"
    BY <1>3 DEF Status, Success
  <1>4. CASE op = "confirm"
    BY <1>4 DEF Status, Success
  <1>5. CASE op = "list"
    BY <1>5 DEF Status, Success
  <1>6. QED
    BY <1>1, <1>2, <1>3, <1>4, <1>5

LEMMA MiddlewareStep ==
    ASSUME GatewayInv, NEW c \in Clients, Middleware(c) \/ BadRequest(c)
    PROVE  GatewayInv'
  <1>1. request[c].pc \in {"middleware", "server"} /\ request[c].pc # "idle"
    BY DEF Middleware, BadRequest, At
  <1>2. request[c] \in Requests /\ Knows(request[c]) /\ TypeOK
    BY <1>1, RequestKinds DEF GatewayInv
  <1>3. faults' \in 0..MaxFaults
    BY <1>2 DEF TypeOK, UsersOK, Middleware, BadRequest
  <1>4. CASE Middleware(c) /\ Admits(c)
    <2>1. request[c] \in ConsignmentRequests /\ Goto(c, "server")
      BY <1>1, <1>2, <1>4, RequestKinds DEF Middleware, At, Guarded, ConsignmentOps
    <2>2. PICK r \in Requests :
             /\ request' = [request EXCEPT ![c] = r]
             /\ r.pc = "server" /\ r.op = request[c].op
             /\ r.op \in ConsignmentOps => r.consignment = request[c].consignment
      BY <2>1, GoesOn
    <2>3. Knows(r)'
      BY <1>1, <1>2, <2>2 DEF Knows, ConsignmentOps, None
    <2>4. QED
      BY <1>3, <1>4, <2>2, <2>3, OnlyRequestMoves DEF Middleware, clientVars
  <1>5. ASSUME NEW status \in {400, 401}, End(c, status),
               \/ request[c].op \in {"createUser", "auth", "create"} /\ status = 400
               \/ request[c].op \in Guarded /\ status = 401,
               UNCHANGED <<users, clock, faults, gatewayClock, token, told, requests, serviceVars>>
        PROVE  GatewayInv'
    <2>1. PICK a :
             /\ request' = [request EXCEPT ![c] = Idle]
             /\ answer' = [answer EXCEPT ![c] = a]
             /\ request[c].op \in UserOps =>
                   a = [op |-> request[c].op, user |-> request[c].user, status |-> status]
             /\ request[c].op \notin UserOps =>
                   a = [op |-> request[c].op, consignment |-> request[c].consignment,
                        status |-> status]
      BY <1>5, Answered
    <2>2. ASSUME request[c].op \in UserOps PROVE a \in Answers /\ IsTrue(a)
      <3>1. request[c].op \in {"createUser", "auth"} /\ status = 400 /\ request[c].user \in User
        BY <1>1, <1>2, <1>5, <2>2, RequestKinds DEF UserRequests, UserOps, Guarded
      <3>2. QED
        BY <2>1, <2>2, <3>1 DEF Answers, IsTrue
    <2>3. ASSUME request[c].op \notin UserOps PROVE a \in Answers /\ IsTrue(a)
      <3>1. /\ request[c].op = "create" \/ (request[c].op \in {"confirm", "list"} /\ status = 401)
            /\ request[c].consignment \in Consignments \cup {None}
        BY <1>1, <1>2, <1>5, <2>3, RequestKinds
        DEF ConsignmentRequests, ConsignmentOps, UserOps, Guarded
      <3>2. /\ request[c].op = "confirm" => request[c].consignment \in Consignments
            /\ request[c].op = "list" => request[c].consignment = None
        BY <1>1, <1>2 DEF Knows
      <3>3. a = [op |-> request[c].op, consignment |-> request[c].consignment, status |-> status]
        BY <2>1, <2>3
      <3>4. a \in Answers
        BY <3>1, <3>2, <3>3 DEF Answers
      <3>5. IsTrue(a)
        BY <3>1, <3>3 DEF IsTrue
      <3>6. QED
        BY <3>4, <3>5
    <2>4. a \in Answers /\ IsTrue(a)
      BY <2>2, <2>3
    <2>5. request' = [request EXCEPT ![c] = Idle] /\ answer' = [answer EXCEPT ![c] = a]
      BY <2>1
    <2>6. /\ UNCHANGED <<users, clock, gatewayClock, requests, serviceVars>>
          /\ token' = token /\ told' = told
      BY <1>5
    <2>7. QED
      BY <1>3, <2>4, <2>5, <2>6, RequestEnds
  <1>6. CASE Middleware(c) /\ ~ Admits(c)
    BY <1>5, <1>6 DEF Middleware, At
  <1>7. CASE BadRequest(c)
    BY <1>5, <1>7 DEF BadRequest, At
  <1>8. QED
    BY <1>4, <1>6, <1>7

LEMMA UnavailableStep == ASSUME GatewayInv, NEW c \in Clients, Unavailable(c) PROVE GatewayInv'
  <1>1. request[c].pc # "idle" /\ Return(c, "Unavailable")
    BY DEF Unavailable
  <1>2. "Unavailable" \in Codes \ {"OK", "FailedPrecondition"}
    BY DEF Codes
  <1>3. faults' \in 0..MaxFaults
    BY FaultBound DEF GatewayInv, Unavailable
  <1>4. UNCHANGED <<users, clock, gatewayClock, clientVars, requests, serviceVars>>
    BY DEF Unavailable
  <1>5. QED
    BY <1>1, <1>2, <1>3, <1>4, CallFails

LEMMA ReplyStep == ASSUME GatewayInv, NEW c \in Clients, Reply(c) PROVE GatewayInv'
  <1> DEFINE op     == request[c].op
             code   == request[c].code
             status == Status(op, code)
  <1>1. /\ request[c] \in Requests /\ Knows(request[c]) /\ request[c].pc = "reply"
        /\ op \in UserOps => request[c] \in UserRequests
        /\ op \in ConsignmentOps => request[c] \in ConsignmentRequests
    BY RequestKinds DEF GatewayInv, Reply
  <1>2. /\ op \in {"createUser", "auth", "create", "confirm", "list"}
        /\ code \in Codes
    BY <1>1 DEF Reply, Requests, UserRequests, ConsignmentRequests, UserOps, ConsignmentOps
  <1>3. PICK a :
           /\ request' = [request EXCEPT ![c] = Idle]
           /\ answer' = [answer EXCEPT ![c] = a]
           /\ op \in UserOps => a = [op |-> op, user |-> request[c].user, status |-> status]
           /\ op \notin UserOps =>
                 a = [op |-> op, consignment |-> request[c].consignment, status |-> status]
    BY Answered DEF Reply
  <1>4. CASE op \in UserOps
    <2>1. /\ \/ op = "createUser" /\ status \in {200, 500}
             \/ op = "auth" /\ status \in {200, 401, 500}
          /\ request[c].user \in User
      BY <1>1, <1>2, <1>4, StatusValues DEF UserOps, UserRequests
    <2>2. a = [op |-> op, user |-> request[c].user, status |-> status]
      BY <1>3, <1>4
    <2>3. a \in Answers /\ IsTrue(a)
      BY <2>1, <2>2 DEF Answers, IsTrue
    <2>4. token' = token \/ (\E t \in Token : token' = [token EXCEPT ![c] = t] /\ t.user \in users)
      BY <1>1 DEF Reply, Knows
    <2>5. told' = told \/ (\E u \in users : told' = told \cup {u})
      BY <1>1 DEF Reply, Knows
    <2>6. /\ UNCHANGED <<users, clock, gatewayClock, requests, serviceVars>>
          /\ faults' \in 0..MaxFaults
      BY DEF Reply, GatewayInv, TypeOK, UsersOK
    <2>7. request' = [request EXCEPT ![c] = Idle] /\ answer' = [answer EXCEPT ![c] = a]
      BY <1>3
    <2>8. QED
      BY <2>3, <2>4, <2>5, <2>6, <2>7, RequestEnds
  <1>5. CASE op \notin UserOps
    <2>1. /\ \/ op = "create" /\ status \in {201, 500}
             \/ op = "confirm" /\ status \in {202, 404, 409, 500}
             \/ op = "list" /\ status \in {200, 500}
          /\ request[c].consignment \in Consignments \cup {None}
      BY <1>1, <1>2, <1>5, StatusValues DEF UserOps, ConsignmentOps, ConsignmentRequests
    <2>2. a = [op |-> op, consignment |-> request[c].consignment, status |-> status]
      BY <1>3, <1>5
    <2>3. /\ op = "confirm" => request[c].consignment \in Consignments
          /\ op = "list" => request[c].consignment = None
      BY <1>1 DEF Knows
    <2>4. a \in Answers
      BY <2>1, <2>2, <2>3 DEF Answers
    <2>5. /\ status = 201 => op = "create" /\ code = "OK"
          /\ status = 202 => op = "confirm" /\ code = "OK"
          /\ status = 409 => op = "confirm" /\ code = "FailedPrecondition"
          /\ op # "consignmentCli" /\ op # "userCli"
      BY <1>2, <2>1, StatusValues
    <2>6. IsTrue(a)
      BY <1>1, <2>2, <2>5 DEF IsTrue, Knows
    <2>7. token' = token /\ told' = told
      BY <2>1 DEF Reply
    <2>8. /\ UNCHANGED <<users, clock, gatewayClock, requests, serviceVars>>
          /\ faults' \in 0..MaxFaults
      BY DEF Reply, GatewayInv, TypeOK, UsersOK
    <2>9. request' = [request EXCEPT ![c] = Idle] /\ answer' = [answer EXCEPT ![c] = a]
      BY <1>3
    <2>10. QED
      BY <2>4, <2>6, <2>7, <2>8, <2>9, RequestEnds
  <1>6. QED
    BY <1>4, <1>5

-----------------------------------------------------------------------------
(* The user service's RPCs, and user-cli *)

LEMMA CreateUserStep == ASSUME GatewayInv, NEW c \in Clients, CreateUser(c) PROVE GatewayInv'
  <1>1. PICK code \in Codes : Create(request[c].user, code) /\ Return(c, code)
    BY DEF CreateUser
  <1>2. /\ request[c].op \in {"createUser", "userCli"}
        /\ request[c].pc # "idle"
        /\ request[c] \in UserRequests
    BY RequestKinds DEF GatewayInv, CreateUser, At, UserOps
  <1>3. request[c].user \in User
    BY <1>2 DEF UserRequests
  <1>4. /\ users \subseteq users' /\ users' \subseteq User /\ EmailsUnique'
        /\ code \in {"OK", "Internal"}
        /\ code = "OK" => request[c].user \in users'
    BY <1>1, <1>3 DEF GatewayInv, TypeOK, UsersOK, EmailsUnique, Create, Insert, CanInsert
  <1>5. faults' \in 0..MaxFaults
    BY <1>1, FaultBound DEF GatewayInv, Create, Insert
  <1>6. PICK r \in Requests :
           /\ request' = [request EXCEPT ![c] = r]
           /\ r.pc = "reply" /\ r.code = code /\ r.op = request[c].op
           /\ r.op \in UserOps => r.user = request[c].user
    BY <1>1, <1>2, Returned
  <1>7. Knows(r)'
    BY <1>2, <1>4, <1>6 DEF Knows, UserOps
  <1>8. UNCHANGED <<clock, gatewayClock, clientVars, requests, serviceVars>>
    BY DEF CreateUser
  <1>9. /\ Grows /\ told' \subseteq users' /\ token' = token /\ answer' = answer
        /\ requests' \in 0..MaxRequests
        /\ stored' \subseteq Consignments /\ scheduled' \subseteq stored'
        /\ reservation' \in [Consignments -> {"none", "held", "gone"}]
    BY <1>4, <1>8 DEF GatewayInv, TypeOK, Grows, clientVars, serviceVars
  <1>10. QED
    BY <1>4, <1>5, <1>6, <1>7, <1>8, <1>9, RequestMoves

LEMMA EncodeType ==
    ASSUME GatewayInv, NEW u \in users
    PROVE  Encode(u) \in Token /\ Encode(u).user = u
  BY TimeAssumption DEF GatewayInv, TypeOK, UsersOK, Encode, Token

\* Auth finds the account it says OK of.
LEMMA AuthFinds ==
    ASSUME GatewayInv, NEW u \in User, NEW code, Auth(u, code)
    PROVE  /\ code \in {"OK", "Unauthenticated"}
           /\ code = "OK" => u \in users
           /\ users' = users /\ faults' \in 0..MaxFaults
  <1>1. PICK found \in SUBSET users :
           /\ GetByEmail(u.email, found)
           /\ code = IF \E v \in found : v.password = u.password THEN "OK" ELSE "Unauthenticated"
    BY DEF Auth
  <1>2. \A v \in found : v.email = u.email /\ v \in User
    BY <1>1 DEF GatewayInv, TypeOK, UsersOK, GetByEmail, Select
  <1>3. code = "OK" => u \in users
    BY <1>1, <1>2 DEF User
  <1>4. faults' \in 0..MaxFaults
    BY <1>1, FaultBound DEF GatewayInv, GetByEmail, Select
  <1>5. QED
    BY <1>1, <1>3, <1>4 DEF Auth

LEMMA AuthUserStep == ASSUME GatewayInv, NEW c \in Clients, AuthUser(c) PROVE GatewayInv'
  <1>1. request[c].op = "auth" /\ request[c] \in UserRequests
    BY RequestKinds DEF GatewayInv, AuthUser, At, UserOps
  <1>2. request[c].user \in User
    BY <1>1 DEF UserRequests
  <1>3. PICK code \in Codes :
           /\ Auth(request[c].user, code)
           /\ request' = [request EXCEPT ![c].pc = "reply", ![c].code = code,
                              ![c].given = IF code = "OK" THEN Encode(request[c].user) ELSE None]
    BY DEF AuthUser
  <1>4. PICK given : given = IF code = "OK" THEN Encode(request[c].user) ELSE None
    OBVIOUS
  <1>5. /\ given \in Token \cup {None}
        /\ code = "OK" => given \in Token /\ given.user \in users
        /\ code \in {"OK", "Unauthenticated"}
        /\ users' = users /\ faults' \in 0..MaxFaults
    BY <1>2, <1>3, <1>4, AuthFinds, EncodeType
  <1>6. PICK r : r = [request[c] EXCEPT !.pc = "reply", !.code = code, !.given = given]
    OBVIOUS
  <1>7. /\ r \in Requests
        /\ r.pc = "reply" /\ r.code = code /\ r.op = "auth" /\ r.given = given
    BY <1>1, <1>5, <1>6 DEF Requests, UserRequests
  <1>8. request' = [request EXCEPT ![c] = r]
    BY <1>3, <1>4, <1>6
  <1>9. Knows(r)'
    BY <1>5, <1>7 DEF Knows
  <1>10. UNCHANGED <<clock, gatewayClock, clientVars, requests, serviceVars>>
    BY DEF AuthUser
  <1>11. QED
    BY <1>5, <1>7, <1>8, <1>9, <1>10, OnlyRequestMoves

LEMMA UserCliCreatedStep ==
    ASSUME GatewayInv, NEW c \in Clients, UserCliCreated(c)
    PROVE  GatewayInv'
  <1>1. request[c].op = "userCli" /\ request[c] \in UserRequests /\ request[c].user \in users
    BY RequestKinds DEF GatewayInv, UserCliCreated, At, UserOps, Knows
  <1>2. PICK r \in Requests :
           /\ request' = [request EXCEPT ![c] = r]
           /\ r.pc = "list" /\ r.op = request[c].op
           /\ r.op \in UserOps => r.user = request[c].user
    BY <1>1, GoesOn DEF UserCliCreated
  <1>3. UNCHANGED <<users, clock, faults, gatewayClock, token, answer, requests, serviceVars>>
    BY DEF UserCliCreated
  <1>4. Knows(r)'
    BY <1>1, <1>2, <1>3 DEF Knows, UserOps
  <1>5. told' \subseteq users' /\ EmailsUnique' /\ Grows
    BY <1>1, <1>3 DEF GatewayInv, UserCliCreated, EmailsUnique, Grows, serviceVars
  <1>6. /\ faults' \in 0..MaxFaults /\ requests' \in 0..MaxRequests /\ users' \subseteq User
        /\ stored' \subseteq Consignments /\ scheduled' \subseteq stored'
        /\ reservation' \in [Consignments -> {"none", "held", "gone"}]
    BY <1>3 DEF GatewayInv, TypeOK, UsersOK, serviceVars
  <1>7. QED
    BY <1>2, <1>3, <1>4, <1>5, <1>6, RequestMoves

LEMMA UserCliGetAllStep ==
    ASSUME GatewayInv, NEW c \in Clients, UserCliGetAll(c)
    PROVE  GatewayInv'
  <1>1. request[c].op = "userCli" /\ request[c] \in UserRequests /\ request[c].user \in users
    BY RequestKinds DEF GatewayInv, UserCliGetAll, At, UserOps, Knows
  <1>2. PICK code \in Codes, found \in SUBSET users :
           /\ GetAll(code, found)
           /\ request' = [request EXCEPT ![c].pc = IF code = "OK" THEN "login" ELSE "reply",
                              ![c].code = code, ![c].found = found]
    BY DEF UserCliGetAll
  <1>3. PICK r : r = [request[c] EXCEPT !.pc = IF code = "OK" THEN "login" ELSE "reply",
                                        !.code = code, !.found = found]
    OBVIOUS
  <1>4. found \in SUBSET User
    BY DEF GatewayInv, TypeOK, UsersOK
  <1>5. /\ r \in Requests
        /\ r.pc = IF code = "OK" THEN "login" ELSE "reply"
        /\ r.code = code /\ r.op = "userCli" /\ r.user = request[c].user
    BY <1>1, <1>3, <1>4 DEF Requests, UserRequests
  <1>6. request' = [request EXCEPT ![c] = r]
    BY <1>2, <1>3
  <1>7. UNCHANGED <<users, clock, gatewayClock, clientVars, requests, serviceVars>>
    BY <1>2 DEF UserCliGetAll, GetAll
  <1>8. faults' \in 0..MaxFaults
    BY <1>2, FaultBound DEF GatewayInv, GetAll, Select
  <1>9. Knows(r)'
    BY <1>1, <1>5, <1>7 DEF Knows
  <1>10. QED
    BY <1>5, <1>6, <1>7, <1>8, <1>9, OnlyRequestMoves

LEMMA UserCliAuthStep ==
    ASSUME GatewayInv, NEW c \in Clients, UserCliAuth(c)
    PROVE  GatewayInv'
  <1>1. request[c].op = "userCli" /\ request[c] \in UserRequests /\ request[c].user \in users
    BY RequestKinds DEF GatewayInv, UserCliAuth, At, UserOps, Knows
  <1>2. PICK v \in request[c].found, code \in Codes :
           /\ Auth([email |-> v.email, password |-> request[c].user.password], code)
           /\ request' = [request EXCEPT ![c].pc = IF code = "OK" THEN "login" ELSE "reply",
                              ![c].code = code, ![c].found = @ \ {v}]
    BY DEF UserCliAuth
  <1>3. PICK r : r = [request[c] EXCEPT !.pc = IF code = "OK" THEN "login" ELSE "reply",
                                        !.code = code, !.found = @ \ {v}]
    OBVIOUS
  <1>4. /\ r \in Requests
        /\ r.pc = IF code = "OK" THEN "login" ELSE "reply"
        /\ r.code = code /\ r.op = "userCli" /\ r.user = request[c].user
    BY <1>1, <1>3 DEF Requests, UserRequests
  <1>5. request' = [request EXCEPT ![c] = r]
    BY <1>2, <1>3
  <1>6. [email |-> v.email, password |-> request[c].user.password] \in User
    BY <1>1 DEF UserRequests, User
  <1>7. users' = users /\ faults' \in 0..MaxFaults
    BY <1>2, <1>6, AuthFinds
  <1>8. UNCHANGED <<clock, gatewayClock, clientVars, requests, serviceVars>>
    BY DEF UserCliAuth
  <1>9. Knows(r)'
    BY <1>1, <1>4, <1>7 DEF Knows
  <1>10. QED
    BY <1>4, <1>5, <1>7, <1>8, <1>9, OnlyRequestMoves

\* A command line client ends.
LEMMA UserCliEndsStep == ASSUME GatewayInv, NEW c \in Clients, UserCliEnds(c) PROVE GatewayInv'
  <1>1. PICK status \in {0, 1} :
           /\ End(c, status)
           /\ status = 0 => request[c].pc = "login"
           /\ request[c].op = "userCli" /\ request[c].pc # "idle"
    BY DEF UserCliEnds, At
  <1>2. request[c] \in UserRequests /\ Knows(request[c])
    BY <1>1, RequestKinds DEF GatewayInv, UserOps
  <1>3. PICK a :
           /\ request' = [request EXCEPT ![c] = Idle]
           /\ answer' = [answer EXCEPT ![c] = a]
           /\ a = [op |-> "userCli", user |-> request[c].user, status |-> status]
    BY <1>1, Answered DEF UserOps
  <1>4. request[c].user \in User /\ (status = 0 => request[c].user \in users)
    BY <1>1, <1>2 DEF UserRequests, Knows
  <1>5. a \in Answers /\ IsTrue(a)
    BY <1>3, <1>4 DEF Answers, IsTrue
  <1>6. /\ UNCHANGED <<users, clock, gatewayClock, requests, serviceVars>>
        /\ token' = token /\ told' = told /\ faults' \in 0..MaxFaults
    BY DEF UserCliEnds, GatewayInv, TypeOK, UsersOK
  <1>7. QED
    BY <1>3, <1>5, <1>6, RequestEnds

-----------------------------------------------------------------------------
(* The consignment service's RPCs, and consignment-cli *)

LEMMA ReserveCapacityStep ==
    ASSUME GatewayInv, NEW c \in Clients, ReserveCapacity(c)
    PROVE  GatewayInv'
  <1>1. /\ request[c].op \in {"create", "consignmentCli"} /\ request[c].pc # "idle"
        /\ request[c] \in ConsignmentRequests
    BY RequestKinds DEF GatewayInv, ReserveCapacity, At, ConsignmentOps
  <1>2. UNCHANGED <<users, clock, gatewayClock, clientVars, requests, stored, scheduled>>
    BY DEF ReserveCapacity
  <1>3. faults' \in 0..MaxFaults
    BY FaultBound DEF GatewayInv, ReserveCapacity
  <1>4. /\ reservation' \in [Consignments -> {"none", "held", "gone"}]
        /\ Grows
    BY <1>2 DEF GatewayInv, TypeOK, Grows, ReserveCapacity
  <1>5. \E r \in Requests :
           /\ request' = [request EXCEPT ![c] = r]
           /\ r.op = request[c].op
           /\ \/ r.pc = "store" /\ r.consignment \in Consignments
              \/ r.pc = "reply" /\ r.code = "Internal"
    <2>1. CASE Return(c, "Internal")
      BY <1>1, <2>1, Returned DEF Codes
    <2>2. CASE \E k \in Consignments :
                  request' = [request EXCEPT ![c].pc = "store", ![c].consignment = k]
      <3>1. PICK k \in Consignments :
               request' = [request EXCEPT ![c].pc = "store", ![c].consignment = k]
        BY <2>2
      <3>2. PICK r : r = [request[c] EXCEPT !.pc = "store", !.consignment = k]
        OBVIOUS
      <3>3. /\ r \in ConsignmentRequests
            /\ r.pc = "store" /\ r.consignment = k /\ r.op = request[c].op
        BY <1>1, <3>2 DEF ConsignmentRequests
      <3>4. request' = [request EXCEPT ![c] = r]
        BY <3>1, <3>2
      <3>5. QED
        BY <3>3, <3>4 DEF Requests
    <2>3. QED
      BY <2>1, <2>2 DEF ReserveCapacity
  <1>6. PICK r \in Requests :
           /\ request' = [request EXCEPT ![c] = r]
           /\ r.op = request[c].op
           /\ \/ r.pc = "store" /\ r.consignment \in Consignments
              \/ r.pc = "reply" /\ r.code = "Internal"
    BY <1>5
  <1>7. Knows(r)'
    BY <1>1, <1>6 DEF Knows
  <1>8. /\ token' = token /\ answer' = answer /\ told' \subseteq users' /\ users' \subseteq User
        /\ EmailsUnique' /\ stored' \subseteq Consignments /\ scheduled' \subseteq stored'
        /\ requests' \in 0..MaxRequests
    BY <1>2 DEF GatewayInv, TypeOK, UsersOK, EmailsUnique, clientVars
  <1>9. QED
    BY <1>2, <1>3, <1>4, <1>6, <1>7, <1>8, RequestMoves

LEMMA StoreConsignmentStep ==
    ASSUME GatewayInv, NEW c \in Clients, StoreConsignment(c)
    PROVE  GatewayInv'
  <1>1. /\ request[c].pc # "idle" /\ request[c].op \in {"create", "consignmentCli"}
        /\ request[c].consignment \in Consignments
    BY DEF GatewayInv, StoreConsignment, Knows
  <1>2. PICK code \in {"OK", "Internal"} :
           /\ Return(c, code)
           /\ stored' \in {stored, stored \cup {request[c].consignment}}
           /\ code = "OK" => request[c].consignment \in stored'
    BY DEF StoreConsignment
  <1>3. faults' \in 0..MaxFaults
    BY FaultBound DEF GatewayInv, StoreConsignment
  <1>4. UNCHANGED <<users, clock, gatewayClock, clientVars, requests, reservation, scheduled>>
    BY DEF StoreConsignment
  <1>5. PICK r \in Requests :
           /\ request' = [request EXCEPT ![c] = r]
           /\ r.pc = "reply" /\ r.code = code /\ r.op = request[c].op
           /\ r.op \in ConsignmentOps => r.consignment = request[c].consignment
    BY <1>1, <1>2, Returned DEF Codes
  <1>6. Knows(r)'
    BY <1>1, <1>2, <1>5 DEF Knows, ConsignmentOps
  <1>7. /\ Grows /\ stored' \subseteq Consignments /\ scheduled' \subseteq stored'
        /\ reservation' \in [Consignments -> {"none", "held", "gone"}]
        /\ token' = token /\ answer' = answer /\ told' \subseteq users' /\ users' \subseteq User
        /\ EmailsUnique' /\ requests' \in 0..MaxRequests
    BY <1>1, <1>2, <1>4 DEF GatewayInv, TypeOK, UsersOK, EmailsUnique, Grows, clientVars
  <1>8. QED
    BY <1>3, <1>4, <1>5, <1>6, <1>7, RequestMoves

\* ConfirmConsignment up to the payment.
LEMMA ConfirmStep ==
    ASSUME GatewayInv, NEW c \in Clients, FindConsignment(c) \/ RefreshReservation(c)
    PROVE  GatewayInv'
  <1>1. /\ request[c].op = "confirm" /\ request[c].pc # "idle"
        /\ request[c] \in ConsignmentRequests
        /\ request[c].consignment \in Consignments
        /\ request[c].pc = "refresh" => request[c].consignment \in stored
    BY RequestKinds
    DEF GatewayInv, FindConsignment, RefreshReservation, At, ConsignmentOps, Knows
  <1>2. UNCHANGED <<users, clock, gatewayClock, clientVars, requests, serviceVars>>
    BY DEF FindConsignment, RefreshReservation
  <1>3. faults' \in 0..MaxFaults
    BY FaultBound DEF GatewayInv, FindConsignment, RefreshReservation
  <1>4. CASE \E code \in {"NotFound", "Internal"} : Return(c, code)
    BY <1>1, <1>2, <1>3, <1>4, CallFails DEF Codes
  <1>5. CASE /\ Return(c, "FailedPrecondition")
             /\ reservation[request[c].consignment] = "gone"
    <2>1. PICK r \in Requests :
             /\ request' = [request EXCEPT ![c] = r]
             /\ r.pc = "reply" /\ r.code = "FailedPrecondition" /\ r.op = request[c].op
             /\ r.op \in ConsignmentOps => r.consignment = request[c].consignment
      BY <1>1, <1>5, Returned DEF Codes
    <2>2. Knows(r)'
      BY <1>1, <1>2, <1>5, <2>1 DEF Knows, ConsignmentOps, serviceVars
    <2>3. QED
      BY <1>2, <1>3, <2>1, <2>2, OnlyRequestMoves
  <1>6. CASE \E pc \in {"refresh", "schedule"} :
                Goto(c, pc) /\ request[c].consignment \in stored
    <2>1. PICK pc \in {"refresh", "schedule"} : Goto(c, pc) /\ request[c].consignment \in stored
      BY <1>6
    <2>2. PICK r \in Requests :
             /\ request' = [request EXCEPT ![c] = r]
             /\ r.pc = pc /\ r.op = request[c].op
             /\ r.op \in ConsignmentOps => r.consignment = request[c].consignment
      BY <1>1, <2>1, GoesOn
    <2>3. Knows(r)'
      BY <1>1, <1>2, <2>1, <2>2 DEF Knows, ConsignmentOps, serviceVars
    <2>4. QED
      BY <1>2, <1>3, <2>2, <2>3, OnlyRequestMoves
  <1>7. QED
    BY <1>1, <1>4, <1>5, <1>6 DEF FindConsignment, RefreshReservation

LEMMA ScheduleConfirmationStep ==
    ASSUME GatewayInv, NEW c \in Clients, ScheduleConfirmation(c)
    PROVE  GatewayInv'
  <1>1. /\ request[c].pc # "idle" /\ request[c].op = "confirm"
        /\ request[c].consignment \in Consignments /\ request[c].consignment \in stored
    BY DEF GatewayInv, ScheduleConfirmation, Knows
  <1>2. PICK code \in {"OK", "Internal"} :
           /\ Return(c, code)
           /\ scheduled' \in {scheduled, scheduled \cup {request[c].consignment}}
           /\ code = "OK" => request[c].consignment \in scheduled'
    BY DEF ScheduleConfirmation
  <1>3. faults' \in 0..MaxFaults
    BY FaultBound DEF GatewayInv, ScheduleConfirmation
  <1>4. UNCHANGED <<users, clock, gatewayClock, clientVars, requests, stored, reservation>>
    BY DEF ScheduleConfirmation
  <1>5. PICK r \in Requests :
           /\ request' = [request EXCEPT ![c] = r]
           /\ r.pc = "reply" /\ r.code = code /\ r.op = request[c].op
           /\ r.op \in ConsignmentOps => r.consignment = request[c].consignment
    BY <1>1, <1>2, Returned DEF Codes
  <1>6. Knows(r)'
    BY <1>1, <1>2, <1>5 DEF Knows, ConsignmentOps
  <1>7. /\ Grows /\ stored' \subseteq Consignments /\ scheduled' \subseteq stored'
        /\ reservation' \in [Consignments -> {"none", "held", "gone"}]
        /\ token' = token /\ answer' = answer /\ told' \subseteq users' /\ users' \subseteq User
        /\ EmailsUnique' /\ requests' \in 0..MaxRequests
    BY <1>1, <1>2, <1>4 DEF GatewayInv, TypeOK, UsersOK, EmailsUnique, Grows, clientVars
  <1>8. QED
    BY <1>3, <1>4, <1>5, <1>6, <1>7, RequestMoves

LEMMA GetConsignmentsStep ==
    ASSUME GatewayInv, NEW c \in Clients, GetConsignments(c)
    PROVE  GatewayInv'
  <1>1. /\ request[c].op = "list" /\ request[c].pc # "idle"
        /\ request[c].consignment = None
    BY DEF GatewayInv, GetConsignments, At, Knows
  <1>2. UNCHANGED <<users, clock, gatewayClock, clientVars, requests, serviceVars>>
    BY DEF GetConsignments
  <1>3. faults' \in 0..MaxFaults
    BY FaultBound DEF GatewayInv, GetConsignments
  <1>4. PICK code \in {"OK", "Internal"} : Return(c, code)
    BY DEF GetConsignments
  <1>5. PICK r \in Requests :
           /\ request' = [request EXCEPT ![c] = r]
           /\ r.pc = "reply" /\ r.code = code /\ r.op = request[c].op
           /\ r.op \in ConsignmentOps => r.consignment = request[c].consignment
    BY <1>1, <1>4, Returned DEF Codes
  <1>6. Knows(r)'
    BY <1>1, <1>5 DEF Knows, ConsignmentOps, None
  <1>7. QED
    BY <1>2, <1>3, <1>5, <1>6, OnlyRequestMoves

LEMMA ConsignmentCliStep ==
    ASSUME GatewayInv, NEW c \in Clients, ConsignmentCliCreated(c) \/ ConsignmentCliEnds(c)
    PROVE  GatewayInv'
  <1>1. /\ request[c].op = "consignmentCli" /\ request[c].pc # "idle"
        /\ request[c] \in ConsignmentRequests
        /\ request[c].consignment \in Consignments \cup {None}
        /\ request[c].pc = "reply" /\ request[c].code = "OK" => request[c].consignment \in stored
        /\ request[c].pc = "list" => request[c].consignment \in stored
    BY RequestKinds
    DEF GatewayInv, ConsignmentCliCreated, ConsignmentCliEnds, At, ConsignmentOps,
        ConsignmentRequests, Knows
  <1>2. /\ UNCHANGED <<users, clock, gatewayClock, requests, serviceVars>>
        /\ token' = token /\ told' = told
    BY DEF ConsignmentCliCreated, ConsignmentCliEnds, clientVars
  <1>3. faults' \in 0..MaxFaults
    BY FaultBound DEF GatewayInv, TypeOK, UsersOK, ConsignmentCliCreated, ConsignmentCliEnds
  <1>4. CASE ConsignmentCliCreated(c)
    <2>1. PICK r \in Requests :
             /\ request' = [request EXCEPT ![c] = r]
             /\ r.pc = "list" /\ r.op = request[c].op
             /\ r.op \in ConsignmentOps => r.consignment = request[c].consignment
      BY <1>1, <1>4, GoesOn DEF ConsignmentCliCreated
    <2>2. Knows(r)'
      BY <1>1, <1>2, <1>4, <2>1 DEF ConsignmentCliCreated, At, Knows, ConsignmentOps, serviceVars
    <2>3. UNCHANGED clientVars
      BY <1>4 DEF ConsignmentCliCreated, clientVars
    <2>4. QED
      BY <1>2, <1>3, <2>1, <2>2, <2>3, OnlyRequestMoves
  <1>5. CASE ConsignmentCliEnds(c)
    <2>1. PICK status \in {0, 1} :
             End(c, status) /\ (status = 0 => request[c].consignment \in stored)
      BY <1>1, <1>5 DEF ConsignmentCliEnds, At
    <2>2. PICK a :
             /\ request' = [request EXCEPT ![c] = Idle]
             /\ answer' = [answer EXCEPT ![c] = a]
             /\ a = [op |-> "consignmentCli", consignment |-> request[c].consignment,
                     status |-> status]
      BY <1>1, <2>1, Answered DEF UserOps
    <2>3. a \in Answers
      BY <1>1, <2>2 DEF Answers
    <2>4. IsTrue(a)
      BY <2>1, <2>2 DEF IsTrue
    <2>5. QED
      BY <1>2, <1>3, <2>2, <2>3, <2>4, RequestEnds
  <1>6. QED
    BY <1>4, <1>5

-----------------------------------------------------------------------------
(* The invariant *)

LEMMA GatewayStep == GatewayInv /\ [Next]_vars => GatewayInv'
  <1> SUFFICES ASSUME GatewayInv, [Next]_vars PROVE GatewayInv'
    OBVIOUS
  <1>1. CASE UNCHANGED vars
    <2>1. TypeOK' /\ Grows
      BY <1>1 DEF GatewayInv, TypeOK, UsersOK, Grows, vars, clientVars, serviceVars
    <2>2. /\ request' = request /\ token' = token /\ answer' = answer
          /\ told' = told /\ users' = users /\ clock' = clock /\ gatewayClock' = gatewayClock
      BY <1>1 DEF vars, clientVars
    <2>3. QED
      BY <2>1, <2>2, KnowsStays, TokenStays, AnswerStays
      DEF GatewayInv, EmailsUnique, ClocksAgree
  <1>2. CASE Tick \/ \E k \in Consignments : ReservationGone(k)
    BY <1>2, EnvironmentStep
  <1>3. ASSUME NEW c \in Clients,
               \/ \E op \in UserOps, u \in Credentials : BeginUser(c, op, u)
               \/ \E op \in ConsignmentOps \ {"confirm"} : BeginConsignment(c, op)
               \/ \E k \in Consignments : BeginConfirm(c, k)
        PROVE  GatewayInv'
    BY <1>3, BeginStep
  <1>4. ASSUME NEW c \in Clients, RequestStep(c)
        PROVE  GatewayInv'
    BY <1>4, MiddlewareStep, UnavailableStep, ReplyStep, CreateUserStep, AuthUserStep,
       UserCliCreatedStep, UserCliGetAllStep, UserCliAuthStep, UserCliEndsStep,
       ReserveCapacityStep, StoreConsignmentStep, ConfirmStep, ScheduleConfirmationStep,
       GetConsignmentsStep, ConsignmentCliStep
    DEF RequestStep
  <1>5. QED
    BY <1>1, <1>2, <1>3, <1>4 DEF Next

LEMMA GatewayInvariant == Spec => []GatewayInv
  <1>1. QED
    BY GatewayInit, GatewayStep, PTL DEF Spec

\* Every reachable state of the gateway and of the services behind it is well
\* typed; in particular the statuses of every route are those of its handler.
THEOREM GatewayTypeCorrect == Spec => []TypeOK
  <1>1. GatewayInv => TypeOK
    BY DEF GatewayInv
  <1>2. QED
    BY <1>1, GatewayInvariant, PTL

\* Whoever was told that an account was created can log in to it.
THEOREM AccountsStay == Spec => []CreatedCanLogIn
  <1>1. GatewayInv => CreatedCanLogIn
    BY DEF GatewayInv, EmailsUnique, CreatedCanLogIn
  <1>2. QED
    BY <1>1, GatewayInvariant, PTL

\* What a client was last told is true.
THEOREM AnswersStayTrue == Spec => []AnswersAreTrue
  <1>1. GatewayInv => AnswersAreTrue
    BY DEF GatewayInv, IsTrue, AnswersAreTrue
  <1>2. QED
    BY <1>1, GatewayInvariant, PTL

-----------------------------------------------------------------------------
(* Sessions *)

\* Only the middleware moves a request that is at the middleware.
LEMMA OnlyMiddleware ==
    ASSUME GatewayInv, Next, NEW c \in Clients,
           request[c].pc = "middleware", request'[c] # request[c]
    PROVE  Middleware(c)
  <1>1. request[c] # Idle
    BY DEF Idle
  <1>2. ASSUME NEW d \in Clients, d # c,
               \/ \E op \in UserOps, u \in Credentials : BeginUser(d, op, u)
               \/ \E op \in ConsignmentOps \ {"confirm"} : BeginConsignment(d, op)
               \/ \E k \in Consignments : BeginConfirm(d, k)
               \/ RequestStep(d)
        PROVE  request'[c] = request[c]
    BY <1>2
    DEF GatewayInv, TypeOK, BeginUser, BeginConsignment, BeginConfirm, Begin, RequestStep,
        Goto, Return, End, Middleware, BadRequest, Unavailable, Reply, CreateUser, AuthUser,
        UserCliCreated, UserCliGetAll, UserCliAuth, UserCliEnds, ReserveCapacity,
        StoreConsignment, FindConsignment, RefreshReservation, ScheduleConfirmation,
        GetConsignments, ConsignmentCliCreated, ConsignmentCliEnds
  <1>3. \/ \E op \in UserOps, u \in Credentials : BeginUser(c, op, u)
        \/ \E op \in ConsignmentOps \ {"confirm"} : BeginConsignment(c, op)
        \/ \E k \in Consignments : BeginConfirm(c, k)
        \/ RequestStep(c)
    BY <1>2 DEF Next, Tick, ReservationGone
  <1>4. RequestStep(c)
    BY <1>1, <1>3 DEF BeginUser, BeginConsignment, BeginConfirm, Begin
  <1>5. QED
    BY <1>4
    DEF RequestStep, At, BadRequest, Unavailable, Reply, CreateUser, AuthUser,
        UserCliCreated, UserCliGetAll, UserCliAuth, UserCliEnds, ReserveCapacity,
        StoreConsignment, FindConsignment, RefreshReservation, ScheduleConfirmation,
        GetConsignments, ConsignmentCliCreated, ConsignmentCliEnds

\* What the middleware has looked at.
LEMMA MiddlewareDecides ==
    ASSUME GatewayInv, [Next]_vars, NEW c \in Clients
    PROVE  /\ Admitted(c) => Admits(c)
           /\ Refused(c) => ~ Admits(c)
  <1>1. Idle.pc = "idle"
    BY DEF Idle
  <1>2. Admitted(c) \/ Refused(c) => request[c].pc = "middleware" /\ request'[c] # request[c]
    BY DEF Admitted, Refused
  <1>3. Admitted(c) \/ Refused(c) => Middleware(c)
    BY <1>2, OnlyMiddleware DEF vars
  <1>4. Middleware(c) /\ Admits(c) => request'[c].pc = "server"
    <2>1. SUFFICES ASSUME Middleware(c), Admits(c) PROVE request'[c].pc = "server"
      OBVIOUS
    <2>2. request[c] \in ConsignmentRequests /\ Goto(c, "server")
      BY <2>1, RequestKinds DEF GatewayInv, Middleware, At, Guarded, ConsignmentOps
    <2>3. QED
      BY <2>2, GoesOn DEF GatewayInv, TypeOK
  <1>5. Middleware(c) /\ ~ Admits(c) => request'[c].pc = "idle"
    BY <1>1 DEF Middleware, End, GatewayInv, TypeOK
  <1>6. QED
    BY <1>3, <1>4, <1>5 DEF Admitted, Refused

LEMMA TokenLife ==
    ASSUME GatewayInv, NEW c \in Clients, token[c] # None
    PROVE  /\ token[c].user \in users
           /\ Admits(c) => clock <= token[c].expiresAt + MaxSkew
           /\ ~ Admits(c) => clock > token[c].expiresAt - MaxSkew
  <1>1. token[c].user \in users /\ token[c].expiresAt \in Nat
    BY TimeAssumption DEF GatewayInv, TokenOK, Token
  <1>2. clock \in Nat /\ gatewayClock \in Nat /\ clock - gatewayClock \in -MaxSkew..MaxSkew
    BY TimeAssumption DEF GatewayInv, TypeOK, UsersOK, ClocksAgree
  <1>3. QED
    BY <1>1, <1>2, RequestsAssumption DEF Admits, Valid

\* A token is good for no longer than its life and the clocks' skew.
THEOREM SessionsEnd == Spec => SessionsExpire
  <1>1. ASSUME GatewayInv, [Next]_vars, NEW c \in Clients, Admitted(c)
        PROVE  token[c].user \in users /\ clock <= token[c].expiresAt + MaxSkew
    <2>1. Admits(c) /\ token[c] # None
      BY <1>1, MiddlewareDecides DEF Admits
    <2>2. QED
      BY <1>1, <2>1, TokenLife
  <1>2. GatewayInv /\ [Next]_vars =>
            [\A c \in Clients : Admitted(c) =>
                /\ token[c].user \in users
                /\ clock <= token[c].expiresAt + MaxSkew]_vars
    BY <1>1
  <1>3. QED
    BY <1>2, GatewayInvariant, PTL DEF Spec, SessionsExpire

\* And for no less.
THEOREM SessionsStand == Spec => SessionsLast
  <1>1. ASSUME GatewayInv, [Next]_vars, NEW c \in Clients, Refused(c), token[c] # None
        PROVE  clock > token[c].expiresAt - MaxSkew
    BY <1>1, MiddlewareDecides, TokenLife
  <1>2. GatewayInv /\ [Next]_vars =>
            [\A c \in Clients : Refused(c) /\ token[c] # None =>
                clock > token[c].expiresAt - MaxSkew]_vars
    BY <1>1
  <1>3. QED
    BY <1>2, GatewayInvariant, PTL DEF Spec, SessionsLast
=============================================================================
