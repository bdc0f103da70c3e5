------------------------------- MODULE Accounts -------------------------------
(***************************************************************************)
(* Accounts (auth/auth.service.ts, users/users.service.ts, activate of     *)
(* sellers/sellers.service.ts): registration, login, the activation of a   *)
(* seller profile, and what admins do to users.                            *)
(*                                                                         *)
(* A user has an email, which is unique and never changes, and rows are    *)
(* never deleted; so the email stands for the user's id.  A client holds   *)
(* one token and makes one call at a time; clients of one user hold tokens *)
(* of different ages.  A token has its user's id as the database writes    *)
(* it; the URL of an admin's call may write it in upper case, which        *)
(* ParseUUIDPipe lets pass and PostgreSQL takes for the same uuid.         *)
(* Passwords and signatures are left out: a login here is one with the     *)
(* right password.  A call that is refused without having changed anything *)
(* is left out as well.                                                    *)
(*                                                                         *)
(* Operators introduced by "Fault" are not part of the model: each is the  *)
(* definition after it with a mistake in it, kept to show that some        *)
(* property notices that mistake.                                          *)
(***************************************************************************)
CONSTANTS
  Emails,
  Admin,     \* the admin of the seed data
  Clients,
  NoUser,    \* no user row
  Nobody,    \* no token
  Spellings, \* the ways to write an id
  Canonical  \* the one of them that the database answers in

\* isAdmin and isActive, by the names of those that are true.
Flags == {"admin", "active"}

ASSUME AccountsAssumption ==
  /\ Admin \in Emails
  /\ Nobody \notin Emails
  /\ \A row \in SUBSET Flags : row # NoUser
  /\ Canonical \in Spellings

\* The claims of a token: customerId and sellerId not null, isAdmin true.
Roles == {"customer", "seller", "admin"}

VARIABLES
  user,       \* the user table
  customers,  \* the users with a customer row
  sellers,    \* the users with a seller row
  \* The token a client holds.
  sub,        \* whose it is
  roles,      \* its claims
  \* The call a client makes.
  pc,         \* where it is
  subject,    \* the user it is about
  spelt,      \* how the URL of an admin's call writes that user's id
  entity,     \* the user entity of an admin's call
  loaded,     \* the row save has read to compare the entity with
  unread,     \* the claims issueToken has still to read
  claims,     \* those it has found true
  \* History, for the properties only.
  overtaken   \* calls whose subject's row has changed since they read it

tables == <<user, customers, sellers>>
token == <<sub, roles>>
call == <<subject, spelt, entity, loaded, unread, claims>>
vars == <<tables, token, pc, call, overtaken>>

Exists(e) == user[e] # NoUser

\* The seed data: an admin without a customer row, and users with one.
Init ==
  /\ user \in [Emails -> {NoUser, {"active"}, {"active", "admin"}}]
  /\ \A e \in Emails : e = Admin <=> user[e] = {"active", "admin"}
  /\ customers = {e \in Emails : user[e] = {"active"}}
  /\ sellers \in SUBSET customers
  /\ sub = [c \in Clients |-> Nobody]
  /\ roles = [c \in Clients |-> {}]
  /\ pc = [c \in Clients |-> "idle"]
  /\ subject = [c \in Clients |-> Admin]
  /\ spelt = [c \in Clients |-> Canonical]
  /\ entity = [c \in Clients |-> {}]
  /\ loaded = [c \in Clients |-> {}]
  /\ unread = [c \in Clients |-> {}]
  /\ claims = [c \in Clients |-> {}]
  /\ overtaken = {}

\* The call is over; what its variables held is of no interest.
Finish(c) ==
  /\ pc' = [pc EXCEPT ![c] = "idle"]
  /\ subject' = [subject EXCEPT ![c] = Admin]
  /\ spelt' = [spelt EXCEPT ![c] = Canonical]
  /\ entity' = [entity EXCEPT ![c] = {}]
  /\ loaded' = [loaded EXCEPT ![c] = {}]
  /\ unread' = [unread EXCEPT ![c] = {}]
  /\ claims' = [claims EXCEPT ![c] = {}]

\* It ends and leaves all as it is.
Refuse(c) ==
  /\ Finish(c)
  /\ overtaken' = overtaken \ {c}
  /\ UNCHANGED <<tables, token>>

(***************************************************************************)
(* register                                                                *)
(***************************************************************************)

\* The hash is computed before the transaction begins.
Register(c, e) ==
  /\ pc[c] = "idle"
  /\ pc' = [pc EXCEPT ![c] = "insert"]
  /\ subject' = [subject EXCEPT ![c] = e]
  /\ UNCHANGED <<tables, token, spelt, entity, loaded, unread, claims,
                 overtaken>>

\* The email is in the unique index on behalf of a transaction that is open.
Inserting(e) == \E d \in Clients : pc[d] = "commit" /\ subject[d] = e

\* INSERT of the user, which waits for such a transaction to end.
InsertUser(c) ==
  /\ pc[c] = "insert"
  /\ ~Inserting(subject[c])
  /\ \/ /\ ~Exists(subject[c])
        /\ pc' = [pc EXCEPT ![c] = "commit"]
        /\ UNCHANGED <<tables, token, call, overtaken>>
     \/ /\ Exists(subject[c])
        /\ Refuse(c)

\* Fault: without a transaction, and the second INSERT fails.
CommitUserAlone(c) ==
  /\ pc[c] = "commit"
  /\ user' = [user EXCEPT ![subject[c]] = {"active"}]
  /\ Finish(c)
  /\ UNCHANGED <<customers, sellers, token, overtaken>>

\* INSERT of the customer and COMMIT: both rows are there.
CommitUser(c) ==
  /\ pc[c] = "commit"
  /\ user' = [user EXCEPT ![subject[c]] = {"active"}]
  /\ customers' = customers \cup {subject[c]}
  /\ Finish(c)
  /\ UNCHANGED <<sellers, token, overtaken>>

(***************************************************************************)
(* login and issueToken                                                    *)
(***************************************************************************)

\* issueToken sends its three queries.
Issue(c, e, stage) ==
  /\ pc' = [pc EXCEPT ![c] = stage]
  /\ subject' = [subject EXCEPT ![c] = e]
  /\ unread' = [unread EXCEPT ![c] = Roles]
  /\ claims' = [claims EXCEPT ![c] = {}]
  /\ UNCHANGED <<spelt, entity, loaded, overtaken>>

\* What is checked is the row findByEmailWithPassword found.
Login(c, e) ==
  /\ pc[c] = "idle"
  /\ Exists(e)
  /\ "active" \in user[e]
  /\ Issue(c, e, "login")
  /\ UNCHANGED <<tables, token>>

\* What the rows of a user say of each claim.
Holds(e) ==
  {q \in Roles : \/ q = "customer" /\ e \in customers
                 \/ q = "seller" /\ e \in sellers
                 \/ q = "admin" /\ Exists(e) /\ "admin" \in user[e]}

\* One of the queries, which run on connections of their own.
ReadClaim(c, q) ==
  /\ pc[c] \in {"login", "refresh"}
  /\ q \in unread[c]
  /\ unread' = [unread EXCEPT ![c] = @ \ {q}]
  /\ claims' = [claims EXCEPT ![c] = @ \cup ({q} \cap Holds(subject[c]))]
  /\ UNCHANGED <<tables, token, pc, subject, spelt, entity, loaded, overtaken>>

\* Fault: signed when the user is known, and not the profiles.
SignEarly(c) ==
  /\ pc[c] \in {"login", "refresh"}
  /\ "admin" \notin unread[c]
  /\ sub' = [sub EXCEPT ![c] = subject[c]]
  /\ roles' = [roles EXCEPT ![c] = claims[c]]
  /\ Finish(c)
  /\ UNCHANGED <<tables, overtaken>>

\* The client swaps its token for the new one.
Sign(c) ==
  /\ pc[c] \in {"login", "refresh"}
  /\ unread[c] = {}
  /\ sub' = [sub EXCEPT ![c] = subject[c]]
  /\ roles' = [roles EXCEPT ![c] = claims[c]]
  /\ Finish(c)
  /\ UNCHANGED <<tables, overtaken>>

\* When a token expires matters at the next call, where the guard looks.
Expire(c) ==
  /\ pc[c] = "idle"
  /\ sub[c] # Nobody
  /\ sub' = [sub EXCEPT ![c] = Nobody]
  /\ roles' = [roles EXCEPT ![c] = {}]
  /\ UNCHANGED <<tables, pc, call, overtaken>>

(***************************************************************************)
(* activate                                                                *)
(***************************************************************************)

\* Fault: save is not awaited, and fails.
ActivateUnawaited(c) ==
  /\ pc[c] = "idle"
  /\ sub[c] # Nobody
  /\ sub[c] \notin sellers
  /\ Issue(c, sub[c], "refresh")
  /\ UNCHANGED <<tables, token>>

\* JwtAuthGuard, and findByUserId.
Activate(c) ==
  /\ pc[c] = "idle"
  /\ sub[c] # Nobody
  /\ sub[c] \notin sellers
  /\ pc' = [pc EXCEPT ![c] = "activate"]
  /\ subject' = [subject EXCEPT ![c] = sub[c]]
  /\ UNCHANGED <<tables, token, spelt, entity, loaded, unread, claims,
                 overtaken>>

\* save; the unique constraint on userId refuses a second row.
InsertSeller(c) ==
  /\ pc[c] = "activate"
  /\ \/ /\ subject[c] \notin sellers
        /\ sellers' = sellers \cup {subject[c]}
        /\ Issue(c, subject[c], "refresh")
        /\ UNCHANGED <<user, customers, token>>
     \/ /\ subject[c] \in sellers
        /\ Refuse(c)

(***************************************************************************)
(* deactivate and setRole: the guards look at the token only, and compare  *)
(* its id with that of the URL letter by letter.                           *)
(***************************************************************************)

\* The id the URL has, of e and written as s says, is the caller's.
IsCaller(c, e, s) == e = sub[c] /\ s = Canonical

\* findById, and the assignment to the entity.
Edit(c, e, s, row) ==
  /\ pc[c] = "idle"
  /\ sub[c] # Nobody /\ "admin" \in roles[c]
  /\ Exists(e)
  /\ pc' = [pc EXCEPT ![c] = "save"]
  /\ subject' = [subject EXCEPT ![c] = e]
  /\ spelt' = [spelt EXCEPT ![c] = s]
  /\ entity' = [entity EXCEPT ![c] = row]
  /\ UNCHANGED <<tables, token, loaded, unread, claims, overtaken>>

Deactivate(c, e, s) ==
  /\ ~IsCaller(c, e, s)
  /\ Edit(c, e, s, user[e] \ {"active"})

\* Fault: admins may revoke their own rights.
SetRoleOfAnyone(c, e, s, isAdmin) ==
  Edit(c, e, s, IF isAdmin THEN user[e] \cup {"admin"} ELSE user[e] \ {"admin"})

\* Fault: the entity is a new one, with the defaults of its columns.
SetRoleOfNew(c, e, s, isAdmin) ==
  /\ isAdmin \/ ~IsCaller(c, e, s)
  /\ Edit(c, e, s, {"active"} \cup IF isAdmin THEN {"admin"} ELSE {})

SetRole(c, e, s, isAdmin) ==
  /\ isAdmin \/ ~IsCaller(c, e, s)
  /\ Edit(c, e, s, IF isAdmin THEN user[e] \cup {"admin"} ELSE user[e] \ {"admin"})

\* save reads the row again.
Reload(c) ==
  /\ pc[c] = "save"
  /\ loaded' = [loaded EXCEPT ![c] = user[subject[c]]]
  /\ pc' = [pc EXCEPT ![c] = "write"]
  /\ UNCHANGED <<tables, token, subject, spelt, entity, unread, claims, overtaken>>

\* It then updates the columns in which the row differed from the entity.
Written(c) ==
  {f \in Flags : IF f \in entity[c] <=> f \in loaded[c]
                 THEN f \in user[subject[c]]
                 ELSE f \in entity[c]}

\* Calls about the same user that are past their first read.
Editing(e) == {d \in Clients : subject[d] = e /\ pc[d] \in {"save", "write"}}

Write(c) ==
  /\ pc[c] = "write"
  /\ user' = [user EXCEPT ![subject[c]] = Written(c)]
  /\ overtaken' = (IF user' = user THEN overtaken
                   ELSE overtaken \cup Editing(subject[c])) \ {c}
  /\ Finish(c)
  /\ UNCHANGED <<customers, sellers, token>>

\* A statement fails, or the process dies; a transaction is rolled back.
Die(c) == pc[c] # "idle" /\ Refuse(c)

GoOn(c) ==
  \/ InsertUser(c) \/ CommitUser(c)
  \/ \E q \in Roles : ReadClaim(c, q)
  \/ Sign(c) \/ InsertSeller(c) \/ Reload(c) \/ Write(c)

\* The spellings to be told apart: of the caller's own id, where a guard would
\* refuse it.  Elsewhere the spelling makes no difference.
Ways(c, e) == IF e = sub[c] THEN Spellings ELSE {Canonical}

Next ==
  \E c \in Clients :
    \/ \E e \in Emails :
         \/ Register(c, e) \/ Login(c, e)
         \/ SetRole(c, e, Canonical, TRUE)
         \/ \E s \in Ways(c, e) : Deactivate(c, e, s) \/ SetRole(c, e, s, FALSE)
    \/ Activate(c) \/ Expire(c) \/ GoOn(c) \/ Die(c)

Spec == Init /\ [][Next]_vars

(***************************************************************************)
(* Properties                                                              *)
(***************************************************************************)

\* Every variable holds values of its kind; no user that registered is without
\* a customer row, and no profile without a user.
TypeOK ==
  /\ user \in [Emails -> {NoUser} \cup SUBSET Flags]
  /\ customers = {e \in Emails \ {Admin} : Exists(e)}
  /\ sellers \subseteq {e \in Emails : Exists(e)}
  /\ Exists(Admin)
  /\ sub \in [Clients -> Emails \cup {Nobody}]
  /\ roles \in [Clients -> SUBSET Roles]
  /\ pc \in [Clients -> {"idle", "insert", "commit", "login", "refresh",
                         "activate", "save", "write"}]
  /\ subject \in [Clients -> Emails]
  /\ spelt \in [Clients -> Spellings]
  /\ entity \in [Clients -> SUBSET Flags]
  /\ loaded \in [Clients -> SUBSET Flags]
  /\ unread \in [Clients -> SUBSET Roles]
  /\ claims \in [Clients -> SUBSET Roles]
  /\ overtaken \subseteq Clients

\* A token never claims a profile that is not there, and has the customerId of
\* whoever registered.
ProfilesAreBacked ==
  \A c \in Clients : sub[c] # Nobody =>
    /\ roles[c] \ {"admin"} \subseteq Holds(sub[c])
    /\ sub[c] # Admin => "customer" \in roles[c]

\* "Activation creates the Seller row and returns a freshly-issued JWT
\* containing the new sellerId": the row it inserted is there for the query that
\* issueToken sends on another connection.
ActivationShows ==
  \A c \in Clients :
    pc[c] = "refresh" => "seller" \in claims[c] \cup unread[c]

\* The admins who can log in.
InOffice == {e \in Emails : Exists(e) /\ Flags \subseteq user[e]}

\* "Guard against locking yourself out" and "Prevent self-demotion, which could
\* orphan the admin role": these are all the ways the last admin who can log in
\* is lost.  The caller was put out of office before, which their token does not
\* show; or puts themselves out, by an id that is spelt another way, or by saving
\* a row that was read before somebody else changed it.
LastAdminIsLostForAReason ==
  [][InOffice # {} /\ InOffice' = {} =>
       \A c \in Clients : Write(c) =>
         \/ sub[c] \notin InOffice
         \/ /\ subject[c] = sub[c]
            /\ spelt[c] # Canonical \/ c \in overtaken]_vars

\* A user who was deactivated becomes active again only by a call that read the
\* row before it was, and saves what it read.
DeactivationSticks ==
  [][\A e \in Emails :
       Exists(e) /\ "active" \notin user[e] /\ "active" \in user'[e] =>
         \E c \in overtaken : Write(c)]_vars
=============================================================================
