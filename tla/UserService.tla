---------------------------- MODULE UserService ----------------------------
(***************************************************************************)
(* The user service: accounts in Postgres, and the tokens it signs for     *)
(* whoever gives the password of one.                                      *)
(*                                                                         *)
(* An account is its email and its password; the password stands for its   *)
(* hash, which CompareHashAndPassword tells apart from that of any other.  *)
(* Each RPC is one statement to the database, so one step that says which  *)
(* code it returns.                                                        *)
(***************************************************************************)
EXTENDS Integers

CONSTANTS
    Emails,
    Passwords,
    Accounts,       \* those that exist to begin with
    TokenLifetime,  \* 72 hours, in ticks of the clock
    MaxTime,        \* bound: how far the clocks run
    Faults,         \* which failures the environment may inject
    MaxFaults       \* bound: how many of them one behaviour may contain

ASSUME TimeAssumption  == TokenLifetime \in Nat /\ MaxTime \in Nat
ASSUME BoundAssumption == MaxFaults \in Nat

VARIABLES
    users,  \* the rows of the table
    clock,  \* the time on the user service
    faults  \* how many failures have been injected

User  == [email : Emails, password : Passwords]
Token == [user : User, expiresAt : 0..(MaxTime + TokenLifetime)]

ASSUME AccountsAssumption ==
    /\ Accounts \subseteq User
    /\ \A u, v \in Accounts : u.email = v.email => u = v

Codes == {"OK", "Internal", "Unauthenticated", "NotFound", "FailedPrecondition", "Unavailable"}

UsersOK ==
    /\ users \subseteq User
    /\ clock \in 0..MaxTime
    /\ faults \in 0..MaxFaults

UsersInit ==
    /\ users = Accounts
    /\ clock = 0
    /\ faults = 0

Fault(kind) == kind \in Faults /\ faults < MaxFaults /\ faults' = faults + 1
NoFault     == UNCHANGED faults

-----------------------------------------------------------------------------
(* PostgresRepository *)

\* Mutant: the email is not unique.
CanInsert_AnyEmail(u) == u \notin users

\* The email is unique.
CanInsert(u) == \A v \in users : v.email # u.email

\* An insert that is done, refused, lost, or done without an answer.
Insert(u, done) ==
    \/ CanInsert(u) /\ users' = users \cup {u} /\ done = TRUE /\ NoFault
    \/ ~ CanInsert(u) /\ UNCHANGED users /\ done = FALSE /\ NoFault
    \/ UNCHANGED users /\ done = FALSE /\ Fault("database")
    \/ CanInsert(u) /\ users' = users \cup {u} /\ done = FALSE /\ Fault("databaseReply")

\* A query that finds rows, or fails and finds none.
Select(rows, found, done) ==
    \/ found = rows /\ done /\ NoFault
    \/ found = {} /\ ~ done /\ Fault("database")

GetByEmail(email, found) ==
    \E done \in BOOLEAN : Select({v \in users : v.email = email}, found, done)

-----------------------------------------------------------------------------
(* The gRPC server *)

\* A password that cannot be hashed ends like an insert that is lost.
Create(u, code) ==
    \E done \in BOOLEAN : Insert(u, done) /\ code = IF done THEN "OK" ELSE "Internal"

\* TokenService.Encode.
Encode(u) == [user |-> u, expiresAt |-> clock + TokenLifetime]

\* Mutant: IssuedAt is set too, which Valid compares with the verifier's clock.
Valid_IssuedAt(token, now) ==
    now <= token.expiresAt /\ now >= token.expiresAt - TokenLifetime

\* Decode, here and in the gateway's middleware: StandardClaims.Valid.
Valid(token, now) == now <= token.expiresAt

\* A failing look-up is answered like an unknown email.  The account found by
\* its email, with the same password, is the one that is asked for.
Auth(u, code) ==
    \E found \in SUBSET users :
        /\ GetByEmail(u.email, found)
        /\ code = IF \E v \in found : v.password = u.password THEN "OK" ELSE "Unauthenticated"
        /\ UNCHANGED users

GetAll(code, found) ==
    /\ Select(users, found, code = "OK")
    /\ code \in {"OK", "Internal"}
    /\ UNCHANGED users
=============================================================================
