--------------------------- MODULE Accounts_proofs ---------------------------
(***************************************************************************)
(* Proofs about Accounts, for any users and any number of clients.         *)
(***************************************************************************)
EXTENDS Accounts, TLAPS

Stages == {"idle", "insert", "commit", "login", "refresh", "activate", "save", "write"}

\* Stages of a call whose subject is a user.
Known == {"login", "refresh", "activate", "save", "write"}

\* The token of c.
Backed(c) ==
  sub[c] # Nobody =>
    /\ roles[c] \ {"admin"} \subseteq Holds(sub[c])
    /\ sub[c] # Admin => "customer" \in roles[c]

\* A transaction that has inserted an email is the only one, and first.
Reserved(c) ==
  pc[c] = "commit" =>
    /\ ~Exists(subject[c])
    /\ \A d \in Clients \ {c} : pc[d] = "commit" => subject[d] # subject[c]

\* What issueToken has read is so, and will be; what it has not it will.
Issuing(c) ==
  /\ pc[c] \in {"login", "refresh"} =>
       /\ claims[c] \ {"admin"} \subseteq Holds(subject[c])
       /\ subject[c] # Admin => "customer" \in claims[c] \cup unread[c]
  /\ pc[c] = "refresh" =>
       subject[c] \in sellers /\ "seller" \in claims[c] \cup unread[c]

\* An admin's call whose read is not outdated takes nothing from its caller, if it
\* recognises them, and makes nobody active whom it did not find so.
Editor(c) ==
  pc[c] \in {"save", "write"} /\ c \notin overtaken =>
    /\ sub[c] = subject[c] /\ spelt[c] = Canonical =>
         user[subject[c]] \subseteq entity[c]
    /\ "active" \in entity[c] => "active" \in user[subject[c]]

Ok(c) ==
  /\ Backed(c)
  /\ Reserved(c)
  /\ pc[c] \in Known => Exists(subject[c])
  /\ Issuing(c)
  /\ Editor(c)

Inv == TypeOK /\ \A c \in Clients : Ok(c)

-----------------------------------------------------------------------------
LEMMA Constants ==
  /\ Admin \in Emails /\ Nobody \notin Emails /\ NoUser # {"active"}
  /\ \A row \in SUBSET Flags : row # NoUser
  /\ Canonical \in Spellings
BY AccountsAssumption DEF Flags

\* The parts of TypeOK about tables, and about calls.
Tables ==
  /\ user \in [Emails -> {NoUser} \cup SUBSET Flags]
  /\ customers = {e \in Emails \ {Admin} : Exists(e)}
  /\ sellers \subseteq {e \in Emails : Exists(e)}
  /\ Exists(Admin)

Locals ==
  /\ sub \in [Clients -> Emails \cup {Nobody}]
  /\ roles \in [Clients -> SUBSET Roles]
  /\ pc \in [Clients -> Stages]
  /\ subject \in [Clients -> Emails]
  /\ spelt \in [Clients -> Spellings]
  /\ entity \in [Clients -> SUBSET Flags]
  /\ loaded \in [Clients -> SUBSET Flags]
  /\ unread \in [Clients -> SUBSET Roles]
  /\ claims \in [Clients -> SUBSET Roles]
  /\ overtaken \subseteq Clients

LEMMA Types == TypeOK <=> Tables /\ Locals
BY DEF TypeOK, Tables, Locals, Stages

LEMMA TypesAfter ==
  ASSUME Tables', Locals'
  PROVE  TypeOK'
BY DEF TypeOK, Tables, Locals, Stages

\* What a step of one client leaves alone in another.
Same(d) ==
  /\ sub'[d] = sub[d] /\ roles'[d] = roles[d] /\ pc'[d] = pc[d]
  /\ subject'[d] = subject[d] /\ spelt'[d] = spelt[d] /\ entity'[d] = entity[d]
  /\ unread'[d] = unread[d] /\ claims'[d] = claims[d]

\* Rows are added and not removed.
Grows ==
  /\ \A e \in Emails : Exists(e) => user'[e] # NoUser
  /\ customers \subseteq customers' /\ sellers \subseteq sellers'

LEMMA HoldsGrow ==
  ASSUME Grows, NEW e \in Emails
  PROVE  Holds(e) \ {"admin"} \subseteq Holds(e)'
BY DEF Grows, Holds, Roles

LEMMA BackedStep ==
  ASSUME Locals, Grows, NEW d \in Clients, Backed(d),
         sub'[d] = sub[d], roles'[d] = roles[d]
  PROVE  Backed(d)'
<1>1. CASE sub[d] = Nobody
  BY <1>1 DEF Backed
<1>2. CASE sub[d] # Nobody
  <2>1. sub[d] \in Emails
    BY <1>2 DEF Locals
  <2>2. Holds(sub[d]) \ {"admin"} \subseteq Holds(sub[d])'
    BY <2>1, HoldsGrow
  <2>3. QED
    BY <1>2, <2>2 DEF Backed, Holds
<1>3. QED
  BY <1>1, <1>2

\* A step of c keeps what is so of another client, if rows only grow, and only
\* rows change that no transaction has inserted and no editor has open.
LEMMA OtherStep ==
  ASSUME Inv, NEW c \in Clients, NEW d \in Clients, d # c, Same(d), Grows,
         d \in overtaken' \/ d \notin overtaken,
         d \in overtaken => d \in overtaken',
         pc[d] \in {"save", "write"} /\ d \notin overtaken' =>
           user'[subject[d]] = user[subject[d]],
         pc[d] = "commit" =>
           /\ user'[subject[d]] = user[subject[d]]
           /\ pc'[c] = "commit" => subject'[c] # subject[d],
         \A q \in Clients \ {c} : pc'[q] = pc[q] /\ subject'[q] = subject[q]
  PROVE  Ok(d)'
<1> USE Types DEF Inv, Same
<1>1. Backed(d)'
  BY BackedStep DEF Ok
<1>2. Reserved(d)'
  BY DEF Ok, Reserved, Exists
<1>3. subject[d] \in Emails
  BY DEF Locals
<1>4. pc'[d] \in Known => Exists(subject[d])'
  BY <1>3 DEF Ok, Grows, Exists
<1>5. Issuing(d)'
  <2>1. Holds(subject[d]) \ {"admin"} \subseteq Holds(subject[d])'
    BY <1>3, HoldsGrow
  <2>2. claims'[d] = claims[d] /\ unread'[d] = unread[d]
    OBVIOUS
  <2>3. subject[d] \in sellers => subject[d] \in sellers'
    BY DEF Grows
  <2>4. QED
    BY <2>1, <2>2, <2>3 DEF Ok, Issuing, Holds
<1>6. Editor(d)'
  BY DEF Ok, Editor
<1>7. QED
  BY <1>1, <1>2, <1>4, <1>5, <1>6 DEF Ok

\* A step of c that leaves the tables alone.
LEMMA LocalStep ==
  ASSUME Inv, NEW c \in Clients, UNCHANGED tables, Locals',
         \A d \in Clients \ {c} : Same(d),
         overtaken' \cup {c} = overtaken \cup {c},
         pc'[c] = "commit" =>
           \A d \in Clients \ {c} : pc[d] = "commit" => subject[d] # subject'[c],
         Ok(c)'
  PROVE  Inv'
<1> USE Types DEF Inv
<1>1. user' = user /\ customers' = customers /\ sellers' = sellers
  BY DEF tables
<1>2. TypeOK'
  BY <1>1, TypesAfter DEF Tables, Exists
<1>3. Grows
  BY <1>1 DEF Grows, Exists
<1>4. ASSUME NEW d \in Clients \ {c} PROVE Ok(d)'
  BY <1>1, <1>3, OtherStep DEF Same
<1>5. QED
  BY <1>2, <1>4

\* The end of a call.
LEMMA Finished ==
  ASSUME TypeOK, NEW c \in Clients, Finish(c)
  PROVE  /\ pc' \in [Clients -> Stages] /\ subject' \in [Clients -> Emails]
         /\ spelt' \in [Clients -> Spellings]
         /\ entity' \in [Clients -> SUBSET Flags]
         /\ loaded' \in [Clients -> SUBSET Flags]
         /\ unread' \in [Clients -> SUBSET Roles]
         /\ claims' \in [Clients -> SUBSET Roles]
         /\ pc'[c] = "idle"
         /\ \A d \in Clients \ {c} :
              /\ pc'[d] = pc[d] /\ subject'[d] = subject[d]
              /\ spelt'[d] = spelt[d] /\ entity'[d] = entity[d]
              /\ unread'[d] = unread[d] /\ claims'[d] = claims[d]
<1> USE Types, Constants DEF Finish, Locals
<1>1. pc' \in [Clients -> Stages] /\ pc'[c] = "idle"
  BY DEF Stages
<1>2. QED
  BY <1>1

LEMMA IdleIsOk ==
  ASSUME NEW c, pc[c] = "idle", Backed(c)
  PROVE  Ok(c)
BY DEF Ok, Reserved, Issuing, Editor, Known

LEMMA RefuseStep ==
  ASSUME Inv, NEW c \in Clients, Refuse(c)
  PROVE  Inv'
<1> USE Types DEF Inv
<1>1. Finish(c) /\ overtaken' = overtaken \ {c} /\ UNCHANGED <<tables, sub, roles>>
  BY DEF Refuse, token
<1>2. Locals'
  BY <1>1, Finished DEF Locals
<1>3. \A d \in Clients \ {c} : Same(d)
  BY <1>1, Finished DEF Same
<1>4. Grows
  BY <1>1 DEF Grows, tables, Exists
<1>5. pc'[c] = "idle" /\ Backed(c)'
  BY <1>1, <1>4, Finished, BackedStep DEF Ok
<1>6. Ok(c)'
  BY <1>5 DEF Ok, Reserved, Issuing, Editor, Known
<1>7. QED
  BY <1>1, <1>2, <1>3, <1>5, <1>6, LocalStep

-----------------------------------------------------------------------------
(***************************************************************************)
(* Calls that leave the tables alone.                                      *)
(***************************************************************************)

LEMMA RegisterStep ==
  ASSUME Inv, NEW c \in Clients, NEW e \in Emails, Register(c, e)
  PROVE  Inv'
<1> USE Types DEF Inv
<1>1. /\ pc' = [pc EXCEPT ![c] = "insert"]
      /\ subject' = [subject EXCEPT ![c] = e]
      /\ UNCHANGED <<tables, sub, roles, spelt, entity, loaded, unread, claims,
                     overtaken>>
  BY DEF Register, token
<1>2. Locals' /\ pc'[c] = "insert"
  BY <1>1 DEF Locals, Stages
<1>3. \A d \in Clients \ {c} : Same(d)
  BY <1>1, <1>2 DEF Same, Locals
<1>4. Backed(c)'
  BY <1>1 DEF Ok, Backed, Holds, tables, Exists
<1>5. Ok(c)'
  BY <1>2, <1>4 DEF Ok, Reserved, Issuing, Editor, Known
<1>6. QED
  BY <1>1, <1>2, <1>3, <1>5, LocalStep

LEMMA InsertUserStep ==
  ASSUME Inv, NEW c \in Clients, InsertUser(c)
  PROVE  Inv'
<1> USE Types DEF Inv
<1>1. CASE Refuse(c)
  BY <1>1, RefuseStep
<1>2. CASE ~Refuse(c)
  <2>1. /\ ~Inserting(subject[c]) /\ ~Exists(subject[c])
        /\ pc' = [pc EXCEPT ![c] = "commit"]
        /\ UNCHANGED <<user, customers, sellers, sub, roles, subject, spelt, entity,
                       loaded, unread, claims, overtaken>>
    BY <1>2 DEF InsertUser, token, call, tables
  <2>2. Locals' /\ pc'[c] = "commit"
    BY <2>1 DEF Locals, Stages
  <2>3. \A d \in Clients \ {c} : Same(d)
    BY <2>1 DEF Same, Locals
  <2>4. \A d \in Clients \ {c} : pc[d] = "commit" => subject[d] # subject[c]
    BY <2>1 DEF Inserting
  <2>5. Reserved(c)'
    BY <2>1, <2>3, <2>4 DEF Reserved, Exists, Same
  <2>6. Backed(c)'
    BY <2>1 DEF Ok, Backed, Holds, Exists
  <2>7. Ok(c)'
    BY <2>2, <2>5, <2>6 DEF Ok, Issuing, Editor, Known
  <2>8. QED
    BY <2>1, <2>2, <2>3, <2>4, <2>7, LocalStep DEF tables
<1>3. QED
  BY <1>1, <1>2

LEMMA IssueTypes ==
  ASSUME TypeOK, NEW c \in Clients, NEW e \in Emails,
         NEW stage \in {"login", "refresh"}, Issue(c, e, stage),
         UNCHANGED <<sub, roles>>
  PROVE  /\ Locals'
         /\ pc'[c] = stage /\ subject'[c] = e
         /\ unread'[c] = Roles /\ claims'[c] = {}
         /\ \A d \in Clients \ {c} : Same(d)
<1> USE Types
<1>1. pc' \in [Clients -> Stages] /\ pc'[c] = stage
  BY DEF Issue, Locals, Stages
<1>2. Locals'
  BY <1>1 DEF Issue, Locals
<1>3. subject'[c] = e /\ unread'[c] = Roles /\ claims'[c] = {}
  BY DEF Issue, Locals
<1>4. \A d \in Clients \ {c} : Same(d)
  BY DEF Issue, Locals, Same
<1>5. QED
  BY <1>1, <1>2, <1>3, <1>4

LEMMA LoginStep ==
  ASSUME Inv, NEW c \in Clients, NEW e \in Emails, Login(c, e)
  PROVE  Inv'
<1> USE Types DEF Inv
<1>1. /\ Exists(e) /\ Issue(c, e, "login")
      /\ UNCHANGED <<tables, user, customers, sellers, sub, roles, overtaken>>
  BY DEF Login, Issue, token, tables
<1>2. /\ Locals' /\ pc'[c] = "login" /\ subject'[c] = e
      /\ unread'[c] = Roles /\ claims'[c] = {}
      /\ \A d \in Clients \ {c} : Same(d)
  BY <1>1, IssueTypes
<1>3. Backed(c)'
  BY <1>1 DEF Ok, Backed, Holds, Exists
<1>4. Issuing(c)' /\ Exists(subject[c])'
  BY <1>1, <1>2 DEF Issuing, Roles, Exists
<1>5. Ok(c)'
  BY <1>2, <1>3, <1>4 DEF Ok, Reserved, Editor
<1>6. QED
  BY <1>1, <1>2, <1>5, LocalStep

LEMMA ReadClaimStep ==
  ASSUME Inv, NEW c \in Clients, NEW q \in Roles, ReadClaim(c, q)
  PROVE  Inv'
<1> USE Types DEF Inv
<1> DEFINE rest == unread[c] \ {q}
           found == claims[c] \cup ({q} \cap Holds(subject[c]))
<1>1. /\ pc[c] \in {"login", "refresh"}
      /\ unread' = [unread EXCEPT ![c] = rest]
      /\ claims' = [claims EXCEPT ![c] = found]
      /\ UNCHANGED <<user, customers, sellers, sub, roles, pc, subject, spelt, entity,
                     loaded, overtaken>>
  BY DEF ReadClaim, token, tables
<1>2. rest \in SUBSET Roles /\ found \in SUBSET Roles
  BY DEF Locals, Holds
<1> HIDE DEF rest, found
<1>3. Locals' /\ unread'[c] = rest /\ claims'[c] = found
  BY <1>1, <1>2 DEF Locals
<1>4. \A d \in Clients \ {c} : Same(d)
  BY <1>1 DEF Same, Locals
<1>5. Backed(c)'
  BY <1>1 DEF Ok, Backed, Holds, Exists
<1>6. Issuing(c)'
  <2>1. /\ claims[c] \ {"admin"} \subseteq Holds(subject[c])
        /\ subject[c] # Admin => "customer" \in claims[c] \cup unread[c]
        /\ pc[c] = "refresh" =>
             subject[c] \in sellers /\ "seller" \in claims[c] \cup unread[c]
        /\ Exists(subject[c]) /\ subject[c] \in Emails
    BY <1>1 DEF Ok, Issuing, Known, Locals
  <2>2. found \ {"admin"} \subseteq Holds(subject[c])
    BY <2>1 DEF found
  <2>3. subject[c] # Admin => "customer" \in Holds(subject[c])
    BY <2>1 DEF Holds, Tables, Roles
  <2>4. subject[c] \in sellers => "seller" \in Holds(subject[c])
    BY DEF Holds, Roles
  <2>5. subject[c] # Admin => "customer" \in found \cup rest
    BY <2>1, <2>3 DEF found, rest
  <2>6. pc[c] = "refresh" => "seller" \in found \cup rest
    BY <2>1, <2>4 DEF found, rest
  <2>7. QED
    BY <1>1, <1>3, <2>1, <2>2, <2>5, <2>6 DEF Issuing, Holds, Exists
<1>7. Exists(subject[c])' /\ Reserved(c)' /\ Editor(c)'
  BY <1>1 DEF Ok, Known, Exists, Reserved, Editor
<1>8. Ok(c)'
  BY <1>5, <1>6, <1>7 DEF Ok
<1>9. QED
  BY <1>1, <1>3, <1>4, <1>8, LocalStep DEF tables

\* By the time issueToken signs it has read every claim.
LEMMA SignStep ==
  ASSUME Inv, NEW c \in Clients, Sign(c)
  PROVE  Inv'
<1> USE Types DEF Inv
<1>1. /\ pc[c] \in {"login", "refresh"} /\ unread[c] = {}
      /\ sub' = [sub EXCEPT ![c] = subject[c]]
      /\ roles' = [roles EXCEPT ![c] = claims[c]]
      /\ Finish(c)
      /\ UNCHANGED <<user, customers, sellers, overtaken>>
  BY DEF Sign, tables
<1>2. Locals' /\ sub'[c] = subject[c] /\ roles'[c] = claims[c] /\ pc'[c] = "idle"
  BY <1>1, Finished DEF Locals
<1>3. \A d \in Clients \ {c} : Same(d)
  BY <1>1, Finished DEF Same, Locals
<1>4. Backed(c)'
  BY <1>1, <1>2 DEF Ok, Issuing, Backed, Holds, Exists
<1>5. Ok(c)'
  BY <1>2, <1>4 DEF Ok, Reserved, Issuing, Editor, Known
<1>6. QED
  BY <1>1, <1>2, <1>3, <1>5, LocalStep DEF tables

LEMMA ExpireStep ==
  ASSUME Inv, NEW c \in Clients, Expire(c)
  PROVE  Inv'
<1> USE Types DEF Inv
<1>1. /\ pc[c] = "idle"
      /\ sub' = [sub EXCEPT ![c] = Nobody]
      /\ roles' = [roles EXCEPT ![c] = {}]
      /\ UNCHANGED <<user, customers, sellers, pc, subject, spelt, entity, loaded,
                     unread, claims, overtaken>>
  BY DEF Expire, tables, call
<1>2. Locals' /\ sub'[c] = Nobody /\ pc'[c] = "idle"
  BY <1>1 DEF Locals
<1>3. \A d \in Clients \ {c} : Same(d)
  BY <1>1 DEF Same, Locals
<1>4. Ok(c)'
  BY <1>2 DEF Ok, Backed, Reserved, Issuing, Editor, Known
<1>5. QED
  BY <1>1, <1>2, <1>3, <1>4, LocalStep DEF tables

LEMMA ActivateStep ==
  ASSUME Inv, NEW c \in Clients, Activate(c)
  PROVE  Inv'
<1> USE Types, Constants DEF Inv
<1>1. /\ sub[c] # Nobody
      /\ pc' = [pc EXCEPT ![c] = "activate"]
      /\ subject' = [subject EXCEPT ![c] = sub[c]]
      /\ UNCHANGED <<user, customers, sellers, sub, roles, spelt, entity, loaded,
                     unread, claims, overtaken>>
  BY DEF Activate, tables, token
<1>2. sub[c] \in Emails
  BY <1>1 DEF Locals
<1>3. Locals' /\ subject'[c] = sub[c] /\ pc'[c] = "activate"
  BY <1>1, <1>2 DEF Locals, Stages
<1>4. \A d \in Clients \ {c} : Same(d)
  BY <1>1 DEF Same, Locals
<1>5. Exists(sub[c])
  <2>1. CASE sub[c] = Admin
    BY <2>1 DEF Tables
  <2>2. CASE sub[c] # Admin
    <3>1. "customer" \in Holds(sub[c])
      BY <1>1, <2>2 DEF Ok, Backed
    <3>2. sub[c] \in customers
      BY <3>1 DEF Holds
    <3>3. QED
      BY <3>2 DEF Tables
  <2>3. QED
    BY <2>1, <2>2
<1>6. Backed(c)'
  BY <1>1 DEF Ok, Backed, Holds, Exists
<1>7. Ok(c)'
  BY <1>1, <1>3, <1>5, <1>6 DEF Ok, Reserved, Issuing, Editor, Exists
<1>8. QED
  BY <1>1, <1>3, <1>4, <1>7, LocalStep DEF tables

LEMMA EditStep ==
  ASSUME Inv, NEW c \in Clients, NEW e \in Emails, NEW row \in SUBSET Flags,
         NEW s \in Spellings, Edit(c, e, s, row),
         sub[c] = e /\ s = Canonical => user[e] \subseteq row,
         "active" \in row => "active" \in user[e]
  PROVE  Inv'
<1> USE Types DEF Inv
<1>1. /\ sub[c] # Nobody /\ Exists(e)
      /\ pc' = [pc EXCEPT ![c] = "save"]
      /\ subject' = [subject EXCEPT ![c] = e]
      /\ spelt' = [spelt EXCEPT ![c] = s]
      /\ entity' = [entity EXCEPT ![c] = row]
      /\ UNCHANGED <<user, customers, sellers, sub, roles, loaded, unread,
                     claims, overtaken>>
  BY DEF Edit, tables, token
<1>2. Locals' /\ pc'[c] = "save" /\ subject'[c] = e /\ spelt'[c] = s /\ entity'[c] = row
  BY <1>1 DEF Locals, Stages
<1>3. \A d \in Clients \ {c} : Same(d)
  BY <1>1 DEF Same, Locals
<1>4. Backed(c)'
  BY <1>1 DEF Ok, Backed, Holds, Exists
<1>5. Editor(c)' /\ Exists(subject[c])'
  BY <1>1, <1>2 DEF Editor, Exists
<1>6. Ok(c)'
  BY <1>2, <1>4, <1>5 DEF Ok, Reserved, Issuing
<1>7. QED
  BY <1>1, <1>2, <1>3, <1>6, LocalStep DEF tables

LEMMA DeactivateStep ==
  ASSUME Inv, NEW c \in Clients, NEW e \in Emails, NEW s \in Spellings,
         Deactivate(c, e, s)
  PROVE  Inv'
<1>1. user[e] \in SUBSET Flags
  BY Types DEF Inv, Tables, Deactivate, Edit, Exists
<1>2. user[e] \ {"active"} \in SUBSET Flags
  BY <1>1
<1>3. QED
  BY <1>2, EditStep DEF Deactivate, IsCaller

LEMMA SetRoleStep ==
  ASSUME Inv, NEW c \in Clients, NEW e \in Emails, NEW s \in Spellings,
         NEW isAdmin \in BOOLEAN, SetRole(c, e, s, isAdmin)
  PROVE  Inv'
<1>1. user[e] \in SUBSET Flags
  BY Types DEF Inv, Tables, SetRole, Edit, Exists
<1>2. CASE isAdmin
  <2>1. user[e] \cup {"admin"} \in SUBSET Flags
    BY <1>1 DEF Flags
  <2>2. Edit(c, e, s, user[e] \cup {"admin"})
    BY <1>2 DEF SetRole
  <2>3. QED
    BY <2>1, <2>2, EditStep
<1>3. CASE ~isAdmin
  <2>1. user[e] \ {"admin"} \in SUBSET Flags
    BY <1>1
  <2>2. Edit(c, e, s, user[e] \ {"admin"}) /\ ~(e = sub[c] /\ s = Canonical)
    BY <1>3 DEF SetRole, IsCaller
  <2>3. QED
    BY <2>1, <2>2, EditStep
<1>4. QED
  BY <1>2, <1>3

LEMMA ReloadStep ==
  ASSUME Inv, NEW c \in Clients, Reload(c)
  PROVE  Inv'
<1> USE Types DEF Inv
<1>1. /\ pc[c] = "save"
      /\ loaded' = [loaded EXCEPT ![c] = user[subject[c]]]
      /\ pc' = [pc EXCEPT ![c] = "write"]
      /\ UNCHANGED <<user, customers, sellers, sub, roles, subject, spelt, entity,
                     unread, claims, overtaken>>
  BY DEF Reload, tables, token
<1>2. user[subject[c]] \in SUBSET Flags
  BY <1>1 DEF Ok, Known, Exists, Tables, Locals
<1>3. Locals' /\ pc'[c] = "write"
  BY <1>1, <1>2 DEF Locals, Stages
<1>4. \A d \in Clients \ {c} : Same(d)
  BY <1>1 DEF Same, Locals
<1>5. Backed(c)'
  BY <1>1 DEF Ok, Backed, Holds, Exists
<1>6. Editor(c)' /\ Exists(subject[c])'
  BY <1>1, <1>3 DEF Ok, Editor, Known, Exists
<1>7. Ok(c)'
  BY <1>3, <1>5, <1>6 DEF Ok, Reserved, Issuing
<1>8. QED
  BY <1>1, <1>3, <1>4, <1>7, LocalStep DEF tables

-----------------------------------------------------------------------------
(***************************************************************************)
(* Calls that write.                                                       *)
(***************************************************************************)

LEMMA InsertSellerStep ==
  ASSUME Inv, NEW c \in Clients, InsertSeller(c)
  PROVE  Inv'
<1> USE Types DEF Inv
<1>1. CASE Refuse(c)
  BY <1>1, RefuseStep
<1>2. CASE ~Refuse(c)
  <2> DEFINE e == subject[c]
  <2>1. /\ pc[c] = "activate"
        /\ sellers' = sellers \cup {e}
        /\ Issue(c, e, "refresh")
        /\ UNCHANGED <<user, customers, sub, roles, overtaken>>
    BY <1>2 DEF InsertSeller, Issue, token
  <2>2. e \in Emails /\ Exists(e)
    BY <2>1 DEF Ok, Known, Locals
  <2>3. /\ Locals' /\ pc'[c] = "refresh" /\ subject'[c] = e
        /\ unread'[c] = Roles /\ claims'[c] = {}
        /\ \A d \in Clients \ {c} : Same(d)
    BY <2>1, <2>2, IssueTypes
  <2>4. TypeOK'
    BY <2>1, <2>2, <2>3, TypesAfter DEF Tables, Exists
  <2>5. Grows
    BY <2>1 DEF Grows, Exists
  <2>6. Backed(c)'
    BY <2>1, <2>5, BackedStep DEF Ok
  <2>7. Issuing(c)' /\ Exists(subject[c])'
    BY <2>1, <2>2, <2>3 DEF Issuing, Roles, Exists
  <2>8. Ok(c)'
    BY <2>3, <2>6, <2>7 DEF Ok, Reserved, Editor
  <2>9. ASSUME NEW d \in Clients \ {c} PROVE Ok(d)'
    BY <2>1, <2>3, <2>5, OtherStep DEF Same
  <2>10. QED
    BY <2>4, <2>8, <2>9
<1>3. QED
  BY <1>1, <1>2

LEMMA CommitUserStep ==
  ASSUME Inv, NEW c \in Clients, CommitUser(c)
  PROVE  Inv'
<1> USE Types, Constants DEF Inv
<1> DEFINE e == subject[c]
<1>1. /\ pc[c] = "commit"
      /\ user' = [user EXCEPT ![e] = {"active"}]
      /\ customers' = customers \cup {e}
      /\ Finish(c)
      /\ UNCHANGED <<sellers, sub, roles, overtaken>>
  BY DEF CommitUser, token
<1>2. e \in Emails /\ ~Exists(e) /\ e # Admin
  BY <1>1 DEF Ok, Reserved, Locals, Tables
<1>3. /\ user'[e] = {"active"} /\ \A x \in Emails \ {e} : user'[x] = user[x]
      /\ user' \in [Emails -> {NoUser} \cup SUBSET Flags]
  BY <1>1, <1>2 DEF Tables, Flags
<1>4. Locals' /\ pc'[c] = "idle" /\ \A d \in Clients \ {c} : Same(d)
  BY <1>1, Finished DEF Locals, Same
<1>5. Tables'
  BY <1>1, <1>2, <1>3 DEF Tables, Exists
<1>6. Grows
  BY <1>1, <1>2, <1>3 DEF Grows, Exists
<1>7. Ok(c)'
  <2>1. Backed(c)'
    BY <1>1, <1>6, BackedStep DEF Ok
  <2>2. QED
    BY <1>4, <2>1 DEF Ok, Reserved, Issuing, Editor, Known
<1>8. ASSUME NEW d \in Clients \ {c} PROVE Ok(d)'
  <2>1. pc[d] \in {"commit", "save", "write"} => subject[d] # e
    BY <1>1, <1>2 DEF Ok, Reserved, Known
  <2>2. pc[d] \in {"commit", "save", "write"} => user'[subject[d]] = user[subject[d]]
    BY <1>3, <2>1 DEF Locals
  <2>3. QED
    BY <1>1, <1>4, <1>6, <2>2, OtherStep DEF Same
<1>9. QED
  BY <1>4, <1>5, <1>7, <1>8, TypesAfter

LEMMA WriteStep ==
  ASSUME Inv, NEW c \in Clients, Write(c)
  PROVE  Inv'
<1> USE Types, Constants DEF Inv
<1> DEFINE e == subject[c]
<1>1. /\ pc[c] = "write"
      /\ user' = [user EXCEPT ![e] = Written(c)]
      /\ overtaken' = (IF user' = user THEN overtaken
                       ELSE overtaken \cup Editing(e)) \ {c}
      /\ Finish(c)
      /\ UNCHANGED <<customers, sellers, sub, roles>>
  BY DEF Write, token
<1>2. e \in Emails /\ Exists(e)
  BY <1>1 DEF Ok, Known, Locals
<1>3. Written(c) \in SUBSET Flags
  BY DEF Written
<1>4. /\ user'[e] # NoUser /\ \A x \in Emails \ {e} : user'[x] = user[x]
      /\ user' \in [Emails -> {NoUser} \cup SUBSET Flags]
  BY <1>1, <1>2, <1>3 DEF Tables
<1>5. Locals' /\ pc'[c] = "idle" /\ \A d \in Clients \ {c} : Same(d)
  <2>1. overtaken' \subseteq Clients
    BY <1>1 DEF Locals, Editing
  <2>2. QED
    BY <1>1, <2>1, Finished DEF Locals, Same
<1>6. \A x \in Emails : Exists(x) <=> user'[x] # NoUser
  BY <1>2, <1>4 DEF Exists
<1>7. Tables'
  BY <1>1, <1>4, <1>6 DEF Tables, Exists
<1>8. Grows
  BY <1>1, <1>6 DEF Grows
<1>9. Ok(c)'
  <2>1. Backed(c)'
    BY <1>1, <1>8, BackedStep DEF Ok
  <2>2. QED
    BY <1>5, <2>1 DEF Ok, Reserved, Issuing, Editor, Known
<1>10. ASSUME NEW d \in Clients \ {c} PROVE Ok(d)'
  <2>1. d \in overtaken => d \in overtaken'
    BY <1>1
  <2>2. pc[d] = "commit" => user'[subject[d]] = user[subject[d]]
    BY <1>2, <1>4 DEF Ok, Reserved, Locals
  <2>3. pc[d] \in {"save", "write"} /\ d \notin overtaken' =>
          user'[subject[d]] = user[subject[d]]
    BY <1>1, <1>4 DEF Editing, Locals
  <2>4. pc'[c] # "commit"
    BY <1>5
  <2>5. QED
    BY <1>5, <1>8, <2>1, <2>2, <2>3, <2>4, OtherStep DEF Same
<1>11. QED
  BY <1>5, <1>7, <1>9, <1>10, TypesAfter

-----------------------------------------------------------------------------
(***************************************************************************)
(* The theorems.                                                           *)
(***************************************************************************)

LEMMA InvInit ==
  Init => Inv
<1> SUFFICES ASSUME Init PROVE Inv
  OBVIOUS
<1> USE Constants
<1>1. {"active"} \in SUBSET Flags /\ {"active", "admin"} \in SUBSET Flags
  BY DEF Flags
<1>2. user \in [Emails -> {NoUser} \cup SUBSET Flags]
  BY <1>1 DEF Init
<1>3. Exists(Admin)
  BY <1>1 DEF Init, Exists
<1>4. customers = {e \in Emails \ {Admin} : Exists(e)}
  <2>1. \A e \in Emails : user[e] \in {NoUser, {"active"}, {"active", "admin"}}
    BY DEF Init
  <2>2. {"active"} # {"active", "admin"}
    OBVIOUS
  <2>3. \A e \in Emails : user[e] = {"active"} <=> e # Admin /\ user[e] # NoUser
    BY <2>1, <2>2 DEF Init
  <2>4. QED
    BY <2>3 DEF Init, Exists
<1>5. Tables
  BY <1>2, <1>3, <1>4 DEF Tables, Init
<1>6. Locals
  BY DEF Locals, Init, Stages
<1>7. \A c \in Clients : pc[c] = "idle" /\ sub[c] = Nobody
  BY DEF Init
<1>8. \A c \in Clients : Ok(c)
  BY <1>7, IdleIsOk DEF Backed
<1>9. QED
  BY <1>5, <1>6, <1>8, Types DEF Inv

LEMMA InvStep ==
  Inv /\ [Next]_vars => Inv'
<1> SUFFICES ASSUME Inv, [Next]_vars PROVE Inv'
  OBVIOUS
<1>1. CASE UNCHANGED vars
  <2>1. UNCHANGED <<user, customers, sellers, sub, roles, pc, subject, spelt, entity,
                    loaded, unread, claims, overtaken>>
    BY <1>1 DEF vars, tables, token, call
  <2>2. TypeOK'
    BY <2>1 DEF Inv, TypeOK, Exists
  <2>3. ASSUME NEW c \in Clients PROVE Ok(c)'
    BY <2>1 DEF Inv, Ok, Backed, Reserved, Issuing, Editor, Holds, Exists
  <2>4. QED
    BY <2>2, <2>3 DEF Inv
<1>2. ASSUME NEW c \in Clients, NEW e \in Emails,
             \/ Register(c, e) \/ Login(c, e)
             \/ SetRole(c, e, Canonical, TRUE)
             \/ \E s \in Ways(c, e) : Deactivate(c, e, s) \/ SetRole(c, e, s, FALSE)
      PROVE  Inv'
  <2>1. Canonical \in Spellings /\ Ways(c, e) \subseteq Spellings
    BY Constants DEF Ways
  <2>2. CASE Register(c, e) \/ Login(c, e)
    BY <1>2, <2>2, RegisterStep, LoginStep
  <2>3. ASSUME NEW s \in Spellings, NEW isAdmin \in BOOLEAN,
               Deactivate(c, e, s) \/ SetRole(c, e, s, isAdmin)
        PROVE  Inv'
    BY <1>2, <2>3, DeactivateStep, SetRoleStep
  <2>4. QED
    BY <1>2, <2>1, <2>2, <2>3
<1>3. ASSUME NEW c \in Clients, GoOn(c) PROVE Inv'
  BY <1>3, InsertUserStep, CommitUserStep, ReadClaimStep, SignStep,
     InsertSellerStep, ReloadStep, WriteStep DEF GoOn
<1>4. ASSUME NEW c \in Clients, Activate(c) \/ Expire(c) \/ Die(c) PROVE Inv'
  BY <1>4, ActivateStep, ExpireStep, RefuseStep DEF Die
<1>5. QED
  BY <1>1, <1>2, <1>3, <1>4 DEF Next

\* The inductive invariant holds always.
THEOREM Invariance == Spec => []Inv
<1>1. Init => Inv
  BY InvInit
<1>2. Inv /\ [Next]_vars => Inv'
  BY InvStep
<1>3. QED
  BY <1>1, <1>2, PTL DEF Spec

\* Whatever registrations overlap or fail, whoever registered has a customer
\* row, and there is no profile without a user.
THEOREM TypeCorrect == Spec => []TypeOK
<1>1. Inv => TypeOK
  BY DEF Inv
<1>2. QED
  BY <1>1, Invariance, PTL

\* No token claims a profile that does not exist, though its claims are read in
\* three queries at different moments.
THEOREM TokensAreBacked == Spec => []ProfilesAreBacked
<1>1. Inv => ProfilesAreBacked
  BY DEF Inv, Ok, Backed, ProfilesAreBacked
<1>2. QED
  BY <1>1, Invariance, PTL

\* The token that activate returns will show the new seller profile.
THEOREM ActivationIsSeen == Spec => []ActivationShows
<1>1. Inv => ActivationShows
  BY DEF Inv, Ok, Issuing, ActivationShows
<1>2. QED
  BY <1>1, Invariance, PTL

\* The last admin who can log in is lost only to a caller who had lost that
\* already, to an id that hides from the guards that it is the caller's own, or to
\* the save of an outdated read.
THEOREM LossOfLastAdminHasAReason == Spec => LastAdminIsLostForAReason
<1>1. ASSUME Inv, NEW c \in Clients, Write(c), sub[c] \in InOffice, InOffice' = {}
      PROVE  subject[c] = sub[c] /\ (spelt[c] # Canonical \/ c \in overtaken)
  <2> USE Types DEF Inv
  <2> DEFINE e == subject[c]
  <2>1. /\ pc[c] = "write"
        /\ user' = [user EXCEPT ![e] = Written(c)]
        /\ e \in Emails
    BY <1>1 DEF Write, Locals
  <2>2. user'[e] = Written(c) /\ \A x \in Emails \ {e} : user'[x] = user[x]
    BY <1>1, <2>1 DEF Tables
  <2>3. sub[c] \in Emails /\ Exists(sub[c]) /\ Flags \subseteq user[sub[c]]
    BY <1>1 DEF InOffice
  <2>4. \A x \in Emails : user'[x] # NoUser => ~(Flags \subseteq user'[x])
    BY <1>1 DEF InOffice, Exists
  <2>5. CASE sub[c] # e
    BY <2>2, <2>3, <2>4, <2>5 DEF Exists
  <2>6. CASE sub[c] = e
    <3>1. ~(Flags \subseteq Written(c))
      <4>1. Written(c) \in SUBSET Flags
        BY DEF Written
      <4>2. Written(c) # NoUser
        BY <4>1, Constants
      <4>3. QED
        BY <2>1, <2>2, <2>4, <4>2
    <3>2. Flags \subseteq user[e] /\ Flags \subseteq entity[c] =>
            Flags \subseteq Written(c)
      BY DEF Written
    <3>3. ~(Flags \subseteq entity[c])
      BY <2>3, <2>6, <3>1, <3>2
    <3>4. spelt[c] # Canonical \/ c \in overtaken
      BY <1>1, <2>1, <2>3, <2>6, <3>3 DEF Ok, Editor
    <3>5. QED
      BY <2>6, <3>4
  <2>7. QED
    BY <2>5, <2>6
<1>2. ASSUME UNCHANGED vars PROVE InOffice' = InOffice
  BY <1>2 DEF vars, tables, InOffice, Exists
<1>3. Inv /\ [Next]_vars =>
        [InOffice # {} /\ InOffice' = {} =>
           \A c \in Clients : Write(c) =>
             \/ sub[c] \notin InOffice
             \/ /\ subject[c] = sub[c]
                /\ spelt[c] # Canonical \/ c \in overtaken]_vars
  BY <1>1, <1>2
<1>4. QED
  BY <1>3, Invariance, PTL DEF Spec, LastAdminIsLostForAReason

\* A deactivation is only undone by the save of a call that read before it.
THEOREM DeactivationHolds == Spec => DeactivationSticks
<1>1. ASSUME Inv, Next, NEW e \in Emails, Exists(e), "active" \notin user[e],
             "active" \in user'[e]
      PROVE  \E c \in overtaken : Write(c)
  <2> USE Types, Constants DEF Inv
  <2>1. user'[e] # user[e]
    BY <1>1
  <2>2. \E c \in Clients : CommitUser(c) \/ Write(c)
    BY <1>1, <2>1 DEF Next, Register, Login, Issue, Deactivate, SetRole, Edit,
       Activate, Expire, GoOn, InsertUser, Refuse, ReadClaim, Sign, InsertSeller,
       Reload, Die, tables
  <2>3. PICK c \in Clients : CommitUser(c) \/ Write(c)
    BY <2>2
  <2>4. subject[c] \in Emails
    BY <1>1 DEF Locals
  <2>5. CASE CommitUser(c)
    <3>1. ~Exists(subject[c]) /\ user' = [user EXCEPT ![subject[c]] = {"active"}]
      BY <1>1, <2>5 DEF CommitUser, Ok, Reserved
    <3>2. subject[c] = e
      BY <1>1, <2>1, <2>4, <3>1 DEF Tables
    <3>3. QED
      BY <1>1, <3>1, <3>2
  <2>6. CASE Write(c)
    <3>1. pc[c] = "write" /\ user' = [user EXCEPT ![subject[c]] = Written(c)]
      BY <2>6 DEF Write
    <3>2. subject[c] = e /\ user'[e] = Written(c)
      BY <1>1, <2>1, <2>4, <3>1 DEF Tables
    <3>3. "active" \in Written(c) => "active" \in entity[c] \/ "active" \in user[e]
      BY <3>2 DEF Written
    <3>4. "active" \in entity[c]
      BY <1>1, <3>2, <3>3
    <3>5. c \in overtaken
      BY <1>1, <3>1, <3>2, <3>4 DEF Ok, Editor
    <3>6. QED
      BY <2>6, <3>5
  <2>7. QED
    BY <2>3, <2>5, <2>6
<1>2. ASSUME Inv, [Next]_vars
      PROVE  [\A e \in Emails :
                Exists(e) /\ "active" \notin user[e] /\ "active" \in user'[e] =>
                  \E c \in overtaken : Write(c)]_vars
  BY <1>1, <1>2
<1>3. QED
  BY <1>2, Invariance, PTL DEF Spec, DeactivationSticks

=============================================================================
