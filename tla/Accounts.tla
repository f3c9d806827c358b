------------------------------ MODULE Accounts ------------------------------
(***************************************************************************)
(* Registration and login with a password (auth.service.ts, users.service, *)
(* and the DTOs of the two requests).  Registration looks for a conflict,  *)
(* hashes the password for a long time and only then inserts the account;  *)
(* the unique indexes on the two columns decide.  A user logs in with      *)
(* either of them.  The session either one opens is Session's.             *)
(*                                                                         *)
(* A word stands for an email or a username in lower case, written by the  *)
(* user in any case and with blanks around it.                             *)
(***************************************************************************)
EXTENDS Integers, FiniteSets

CONSTANTS
    Words,
    Emails,         \* the words @IsEmail takes
    Clients

Usernames == Words \ Emails     \* the pattern allows no @

Written == [word : Words, as : {"stored", "otherwise"}]

VARIABLES
    users,      \* User rows
    request     \* the registration of each client

accounts == <<users, request>>

Registration(stage, email, username, user) ==
    [stage |-> stage, email |-> email, username |-> username, user |-> user]

Only(stage) == Registration(stage, "", "", 0)

-----------------------------------------------------------------------------
\* @Transform, and register and login again: trim and toLowerCase.
Normal(x) == <<x.word, "stored">>

\* RegisterDto.
ValidNames(email, username) == email.word \in Emails /\ username.word \in Usernames

\* findIdentityConflict, before the password is hashed.
Register(c, email, username) ==
    /\ request[c].stage # "hashing"
    /\ request' = [request EXCEPT ![c] =
           IF ~ValidNames(email, username) THEN Only("refused")
           ELSE IF \E u \in users : \/ u.email = Normal(email)
                                    \/ u.username = Normal(username)
             THEN Only("conflict")
             ELSE Registration("hashing", Normal(email), Normal(username), 0)]
    /\ UNCHANGED users

\* Mutant: only the email is unique.
TakenEmail(r) == \E u \in users : u.email = r.email

\* The indexes User_email_key and User_username_key.
Taken(r) == \E u \in users : u.email = r.email \/ u.username = r.username

\* The account is inserted unless an index says P2002.
CreateUser(c) ==
    LET r == request[c]
        id == Cardinality(users) + 1
    IN  /\ r.stage = "hashing"
        /\ IF Taken(r)
             THEN /\ request' = [request EXCEPT ![c] = Only("conflict")]
                  /\ UNCHANGED users
             ELSE /\ users' = users \cup {[id |-> id, email |-> r.email,
                                           username |-> r.username]}
                  /\ request' = [request EXCEPT ![c] =
                         Registration("registered", r.email, r.username, id)]

\* The request fails before or after the insert.
FailRegister(c) ==
    /\ request[c].stage \in {"hashing", "registered"}
    /\ request' = [request EXCEPT ![c] = Only("failed")]
    /\ UNCHANGED users

\* findForAuthentication; findFirst would take any of these.
FindForAuthentication(x) ==
    {u \in users : u.email = Normal(x) \/ u.username = Normal(x)}

\* login, with the password of the account found or with another one.
Login(c, x) ==
    /\ request[c].stage # "hashing"
    /\ \/ \E u \in FindForAuthentication(x) :
              request' = [request EXCEPT ![c] = Registration("in", "", "", u.id)]
       \/ request' = [request EXCEPT ![c] = Only("refused")]
    /\ UNCHANGED users

-----------------------------------------------------------------------------
AccountsInit == users = {} /\ request = [c \in Clients |-> Only("none")]

AccountsNext ==
    \E c \in Clients :
        \/ \E email, username \in Written : Register(c, email, username)
        \/ CreateUser(c) \/ FailRegister(c)
        \/ \E x \in Written : Login(c, x)

-----------------------------------------------------------------------------
\* Whoever was told that its account exists is the only one both its names
\* find, however they are written, also when others registered meanwhile;
\* and no identifier finds two accounts.
IdentifiersFindTheirOwner ==
    /\ \A x \in Written : Cardinality(FindForAuthentication(x)) <= 1
    /\ \A c \in Clients : \A x \in Written :
           /\ request[c].stage = "registered"
           /\ x.word \in {request[c].email[1], request[c].username[1]}
           => {u.id : u \in FindForAuthentication(x)} = {request[c].user}

=============================================================================
