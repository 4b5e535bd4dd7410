SPECIFICATION Spec
CONSTANTS
    e1 = e1
    e2 = e2
    p1 = p1
    p2 = p2
    Emails = {e1, e2}
    Passwords = {p1, p2}
    Accounts <- MCAccounts
    Credentials <- MCCredentials
    TokenLifetime = 1
    MaxTime = 3
    Faults = {"database", "databaseReply", "rpc", "reservationReply", "reservation", "mongo", "mongoReply", "payment"}
    MaxFaults = 1
    Clients = {c1, c2}
    Consignments = {k1}
    MaxSkew = 1
    MaxRequests = 3
SYMMETRY Symmetry
INVARIANTS
    TypeOK
    CreatedCanLogIn
    AnswersAreTrue
PROPERTIES
    SessionsExpire
    SessionsLast
CHECK_DEADLOCK FALSE
