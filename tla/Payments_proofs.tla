--------------------------- MODULE Payments_proofs ---------------------------
(***************************************************************************)
(* Proofs about Payments, for any orders and any number of webhooks being  *)
(* handled at once.                                                        *)
(***************************************************************************)
EXTENDS Payments, TLAPS

\* A handler is working on a notice the gateway has sent.
Genuine(w) == pc[w] # "idle" => notice[w] \in notices

\* Past findOne there is a payment row, and an entity; at "check" the entity is
\* as it was read, so a paid one means a paid order.
Checking(w) ==
  /\ pc[w] \notin {"idle", "find"} =>
       /\ payment[notice[w].order] # NoRow
       /\ entity[w] \in Payment
  /\ pc[w] = "check" =>
       (entity[w].status = "paid" => order[notice[w].order] = "paid")

\* Past the checks the entity is what the notice says.
Saving(w) ==
  /\ pc[w] \in {"reload", "write", "commit"} =>
       entity[w].status = notice[w].result
  /\ pc[w] \in {"write", "commit"} => reloaded[w] \in Payment
  /\ pc[w] = "commit" => entity[w].status = "paid"

Handlers == \A w \in Workers : Genuine(w) /\ Checking(w) /\ Saving(w)

\* createForOrder opens no charge, and saves no row, a second time.
Unopened ==
  \A o \in Orders : /\ payment[o] # NoRow => opening[o] = "done"
                    /\ opening[o] = "charge" => charge[o] = "none"

\* The gateway notifies a settlement only after settling.
Honest ==
  \A n \in notices : n.result = "paid" => charge[n.order] = "settled"

Inv ==
  /\ TypeOK
  /\ PaidMeansSettled
  /\ SettledTogether
  /\ AcknowledgedMeansApplied
  /\ Handlers
  /\ Unopened
  /\ Honest

-----------------------------------------------------------------------------
(***************************************************************************)
(* Type correctness.                                                       *)
(***************************************************************************)

LEMMA AnyNoticeType == AnyNotice \in Notice
<1>1. PICK o \in Orders : TRUE
  BY PaymentsAssumption
<1>2. [order |-> o, result |-> "neither"] \in Notice
  BY SMT DEF Notice, Results
<1>3. QED
  BY <1>2 DEF AnyNotice

\* What a handler writes is a payment row.
LEMMA SavedType ==
  ASSUME Inv, NEW w \in Workers, pc[w] \in {"write", "commit"}
  PROVE  /\ payment[notice[w].order] \in Payment
         /\ Saved(w) \in Payment
<1>1. /\ payment[notice[w].order] \in Payment
      /\ entity[w] \in Payment
      /\ reloaded[w] \in Payment
  BY SMT DEF Inv, TypeOK, Handlers, Checking, Saving, Notice
<1>2. QED
  BY <1>1, SMT DEF Saved, Payment

LEMMA TypeInit == Init => TypeOK
  BY AnyNoticeType, SMT DEF Init, TypeOK, OrderStatus, Stages

\* Ending a request keeps the types.
LEMMA FinishType ==
  ASSUME TypeOK, NEW w \in Workers, Finish(w)
  PROVE  /\ pc' \in [Workers -> Stages]
         /\ notice' \in [Workers -> Notice]
         /\ entity' \in [Workers -> Payment \cup {NoRow}]
         /\ reloaded' \in [Workers -> Payment \cup {NoRow}]
         /\ late' \in [Workers -> BOOLEAN]
  BY AnyNoticeType, SMT DEF TypeOK, Finish, Stages

LEMMA TypeStep == Inv /\ [Next]_vars => TypeOK'
<1> SUFFICES ASSUME Inv, [Next]_vars PROVE TypeOK'
  OBVIOUS
<1> USE DEF gateway, handler
<1>t. TypeOK
  BY DEF Inv
<1>1. ASSUME NEW o \in Orders,
             CreateTransaction(o) \/ ProviderFails(o) \/ OpeningFails(o)
      PROVE  TypeOK'
  BY <1>1, <1>t, SMT
     DEF TypeOK, CreateTransaction, ProviderFails, OpeningFails
<1>2. ASSUME NEW o \in Orders, SavePayment(o) PROVE TypeOK'
  <2>1. [status |-> "pending", raw |-> "created"] \in Payment
    BY SMT DEF Payment, PaymentStatus
  <2>2. QED
    BY <1>2, <1>t, <2>1, SMT DEF TypeOK, SavePayment
<1>3. ASSUME NEW o \in Orders, Settle(o) PROVE TypeOK'
  <2>1. [order |-> o, result |-> "paid"] \in Notice
    BY SMT DEF Notice, Results
  <2>2. QED
    BY <1>3, <1>t, <2>1, SMT DEF TypeOK, Settle
<1>4. ASSUME NEW o \in Orders, NEW result \in Results, Attempt(o, result)
      PROVE  TypeOK'
  <2>1. [order |-> o, result |-> result] \in Notice
    BY SMT DEF Notice
  <2>2. QED
    BY <1>4, <1>t, <2>1, SMT DEF TypeOK, Attempt
<1>5. ASSUME NEW w \in Workers, NEW n \in notices, Deliver(w, n) PROVE TypeOK'
  BY <1>5, <1>t, SMT DEF TypeOK, Deliver, Goto, Stages
<1>6. ASSUME NEW w \in Workers, FindPayment(w) PROVE TypeOK'
  <2>1. CASE Finish(w) /\ UNCHANGED <<order, payment, opening, gateway, acked>>
    BY <2>1, <1>t, FinishType, SMT DEF TypeOK
  <2>2. CASE ~Finish(w)
    <3>1. /\ payment[notice[w].order] # NoRow
          /\ entity' = [entity EXCEPT ![w] = payment[notice[w].order]]
          /\ pc' = [pc EXCEPT ![w] = "check"]
          /\ UNCHANGED <<notice, reloaded, late>>
          /\ UNCHANGED <<order, payment, opening, charge, notices, acked>>
      BY <1>6, <2>2 DEF FindPayment, Goto
    <3>2. payment[notice[w].order] \in Payment \cup {NoRow}
      BY <1>t, SMT DEF TypeOK, Notice
    <3>3. entity' \in [Workers -> Payment \cup {NoRow}]
      BY <3>1, <3>2, <1>t DEF TypeOK
    <3>4. QED
      BY <3>1, <3>3, <1>t, SMT DEF TypeOK, Stages
  <2>3. QED
    BY <1>6, <2>1, <2>2 DEF FindPayment
<1>7. ASSUME NEW w \in Workers, Check(w) PROVE TypeOK'
  <2>1. CASE NothingToDo(w)
    BY <1>7, <2>1, <1>t, FinishType, SMT
       DEF Inv, TypeOK, Handlers, Genuine, Check, Reply
  <2>2. CASE ~NothingToDo(w)
    <3>1. notice[w].result \in {"paid", "failed"}
      BY <2>2, <1>t, SMT DEF TypeOK, NothingToDo, Notice, Results
    <3>2. [status |-> notice[w].result, raw |-> notice[w].result] \in Payment
      BY <3>1, SMT DEF Payment, PaymentStatus, Results
    <3>3. QED
      BY <1>7, <2>2, <3>2, <1>t, SMT DEF TypeOK, Check, Goto, Stages
  <2>3. QED
    BY <2>1, <2>2
<1>8. ASSUME NEW w \in Workers, Reload(w) PROVE TypeOK'
  BY <1>8, <1>t, SMT DEF TypeOK, Reload, Goto, Stages, Notice
<1>9. ASSUME NEW w \in Workers, Write(w) PROVE TypeOK'
  <2>1. Saved(w) \in Payment
    BY <1>9, SavedType DEF Write
  <2>2. CASE entity[w].status = "failed"
    BY <1>9, <2>1, <2>2, <1>t, FinishType, SMT
       DEF Inv, TypeOK, Handlers, Genuine, Write, Reply
  <2>3. CASE entity[w].status = "paid"
    BY <1>9, <2>3, <1>t, SMT DEF TypeOK, Write, Goto, Stages
  <2>4. QED
    BY <1>9, <2>2, <2>3 DEF Write
<1>10. ASSUME NEW w \in Workers, CommitSettlement(w) PROVE TypeOK'
  <2>1. Saved(w) \in Payment
    BY <1>10, SavedType DEF CommitSettlement
  <2>2. Finish(w) /\ UNCHANGED <<opening, charge, notices>>
    BY <1>10 DEF CommitSettlement, Reply
  <2>3. order' \in [Orders -> OrderStatus]
    <3>1. (IF order[notice[w].order] = "pending" THEN "paid"
           ELSE order[notice[w].order]) \in OrderStatus
      BY <1>t, SMT DEF TypeOK, OrderStatus, Notice
    <3>2. QED
      BY <1>10, <3>1, <1>t DEF TypeOK, CommitSettlement
  <2>4. payment' \in [Orders -> Payment \cup {NoRow}]
    BY <1>10, <2>1, <1>t DEF TypeOK, CommitSettlement
  <2>5. acked' \subseteq notices
    BY <1>10, <1>t, SMT
       DEF Inv, TypeOK, Handlers, Genuine, CommitSettlement, Reply
  <2>6. QED
    BY <2>2, <2>3, <2>4, <2>5, <1>t, FinishType, SMT DEF TypeOK
<1>11. ASSUME NEW w \in Workers, Fail(w) PROVE TypeOK'
  BY <1>11, <1>t, FinishType, SMT DEF TypeOK, Fail
<1>12. CASE UNCHANGED vars
  BY <1>12, <1>t, SMT DEF TypeOK, vars
<1>13. QED
  BY <1>1, <1>2, <1>3, <1>4, <1>5, <1>6, <1>7, <1>8, <1>9, <1>10, <1>11, <1>12
     DEF Next, Handle

-----------------------------------------------------------------------------
(***************************************************************************)
(* What no step undoes, and what a step of another handler leaves alone.   *)
(***************************************************************************)

LEMMA Monotone ==
  ASSUME Inv, [Next]_vars, NEW o \in Orders
  PROVE  /\ charge[o] = "settled" => charge'[o] = "settled"
         /\ order[o] = "paid" => order'[o] = "paid"
         /\ payment[o] # NoRow => payment'[o] # NoRow
         /\ notices \subseteq notices'
<1> USE DEF gateway, handler
<1>t. TypeOK
  BY DEF Inv
<1>1. ASSUME NEW p \in Orders,
             \/ CreateTransaction(p) \/ ProviderFails(p) \/ OpeningFails(p)
             \/ Settle(p) \/ \E result \in Results : Attempt(p, result)
      PROVE  /\ charge[o] = "settled" => charge'[o] = "settled"
             /\ notices \subseteq notices'
             /\ UNCHANGED <<order, payment>>
  <2>1. CASE CreateTransaction(p)
    BY <2>1, <1>t, SMT DEF Inv, Unopened, TypeOK, CreateTransaction
  <2>2. CASE ProviderFails(p)
    <3>1. charge' = charge \/ charge' = [charge EXCEPT ![p] = "open"]
      BY <2>2 DEF ProviderFails
    <3>2. opening[p] = "charge" /\ UNCHANGED <<order, payment, notices>>
      BY <2>2 DEF ProviderFails
    <3>3. QED
      BY <3>1, <3>2, <1>t, SMT DEF Inv, Unopened, TypeOK
  <2>3. CASE OpeningFails(p)
    BY <2>3 DEF OpeningFails
  <2>4. CASE Settle(p)
    BY <2>4, <1>t, SMT DEF TypeOK, Settle
  <2>5. CASE \E result \in Results : Attempt(p, result)
    BY <2>5 DEF Attempt
  <2>6. QED
    BY <1>1, <2>1, <2>2, <2>3, <2>4, <2>5
<1>2. ASSUME NEW p \in Orders, SavePayment(p)
      PROVE  /\ payment[o] # NoRow => payment'[o] # NoRow
             /\ UNCHANGED <<order, charge, notices>>
  <2>1. [status |-> "pending", raw |-> "created"] \in Payment
    BY SMT DEF Payment, PaymentStatus
  <2>2. QED
    BY <1>2, <1>t, <2>1, PaymentsAssumption, SMT DEF TypeOK, SavePayment
<1>3. ASSUME NEW w \in Workers,
             \/ \E n \in notices : Deliver(w, n)
             \/ FindPayment(w) \/ Check(w) \/ Reload(w) \/ Fail(w)
      PROVE  UNCHANGED <<order, payment, charge, notices>>
  BY <1>3 DEF Deliver, FindPayment, Check, Reload, Fail
<1>4. ASSUME NEW w \in Workers, Write(w) \/ CommitSettlement(w)
      PROVE  /\ payment[o] # NoRow => payment'[o] # NoRow
             /\ order[o] = "paid" => order'[o] = "paid"
             /\ UNCHANGED <<charge, notices>>
  <2>1. Saved(w) \in Payment
    BY <1>4, SavedType DEF Write, CommitSettlement
  <2>2. Saved(w) # NoRow
    BY <2>1, PaymentsAssumption
  <2>3. CASE Write(w)
    BY <2>3, <2>2, <1>t, SMT DEF TypeOK, Write
  <2>4. CASE CommitSettlement(w)
    BY <2>4, <2>2, <1>t, SMT DEF TypeOK, CommitSettlement
  <2>5. QED
    BY <1>4, <2>3, <2>4
<1>5. CASE UNCHANGED vars
  BY <1>5 DEF vars
<1>6. QED
  BY <1>1, <1>2, <1>3, <1>4, <1>5 DEF Next, Handle

\* Where handler w is, and what it holds, changes only by a step of w.
LEMMA OwnSteps ==
  ASSUME Inv, [Next]_vars, NEW w \in Workers
  PROVE  \/ /\ pc'[w] = pc[w]
            /\ notice'[w] = notice[w]
            /\ entity'[w] = entity[w]
            /\ reloaded'[w] = reloaded[w]
         \/ \E n \in notices : Deliver(w, n)
         \/ Handle(w)
         \/ Fail(w)
<1> USE DEF gateway, handler
<1> DEFINE Same == /\ pc'[w] = pc[w]
                   /\ notice'[w] = notice[w]
                   /\ entity'[w] = entity[w]
                   /\ reloaded'[w] = reloaded[w]
<1>t. TypeOK
  BY DEF Inv
<1>1. ASSUME NEW o \in Orders,
             \/ CreateTransaction(o) \/ ProviderFails(o) \/ SavePayment(o)
             \/ OpeningFails(o) \/ Settle(o)
             \/ \E result \in Results : Attempt(o, result)
      PROVE  Same
  BY <1>1 DEF CreateTransaction, ProviderFails, SavePayment, OpeningFails,
     Settle, Attempt
<1>2. ASSUME NEW v \in Workers, v # w, NEW n \in notices, Deliver(v, n)
      PROVE  Same
  BY <1>2, <1>t, SMT DEF TypeOK, Deliver, Goto
<1>3. ASSUME NEW v \in Workers, v # w, Finish(v) PROVE Same
  BY <1>3, <1>t, SMT DEF TypeOK, Finish
<1>4. ASSUME NEW v \in Workers, v # w,
             FindPayment(v) \/ Check(v) \/ Reload(v)
      PROVE  Same
  <2>1. CASE Finish(v)
    BY <1>3, <1>4, <2>1
  <2>2. CASE ~Finish(v)
    BY <1>4, <2>2, <1>t, SMT
       DEF TypeOK, FindPayment, Check, Reload, Reply, Goto
  <2>3. QED
    BY <2>1, <2>2
<1>5. ASSUME NEW v \in Workers, v # w,
             Write(v) \/ CommitSettlement(v) \/ Fail(v)
      PROVE  Same
  <2>1. CASE Finish(v)
    BY <1>3, <1>5, <2>1
  <2>2. CASE ~Finish(v)
    BY <1>5, <2>2, <1>t, SMT
       DEF TypeOK, Write, CommitSettlement, Fail, Reply, Goto
  <2>3. QED
    BY <2>1, <2>2
<1>6. CASE UNCHANGED vars
  BY <1>6 DEF vars
<1>7. QED
  BY <1>1, <1>2, <1>4, <1>5, <1>6 DEF Next, Handle

-----------------------------------------------------------------------------
(***************************************************************************)
(* Orders, payments and the gateway.                                       *)
(***************************************************************************)

\* An order becomes paid only when a handler commits a settlement of it.
LEMMA OnlySettlementPays ==
  ASSUME Inv, [Next]_vars, NEW o \in Orders, order'[o] # order[o]
  PROVE  \E w \in Workers : CommitSettlement(w) /\ notice[w].order = o
<1> USE DEF gateway, handler
<1>1. order' # order
  OBVIOUS
<1>2. PICK w \in Workers : CommitSettlement(w)
  BY <1>1 DEF Next, Handle, vars, CreateTransaction, ProviderFails,
     SavePayment, OpeningFails, Settle, Attempt, Deliver, FindPayment, Check,
     Reload, Write, Fail
<1>3. notice[w].order = o
  BY <1>2, SMT DEF Inv, TypeOK, CommitSettlement
<1>4. QED
  BY <1>2, <1>3

LEMMA PaidMeansSettledStep ==
  Inv /\ [Next]_vars => PaidMeansSettled'
<1> SUFFICES ASSUME Inv, [Next]_vars, NEW o \in Orders, order'[o] = "paid"
             PROVE  charge'[o] = "settled"
  BY DEF PaidMeansSettled
<1>1. CASE order'[o] = order[o]
  BY <1>1, Monotone DEF Inv, PaidMeansSettled
<1>2. CASE order'[o] # order[o]
  <2>1. PICK w \in Workers : CommitSettlement(w) /\ notice[w].order = o
    BY <1>2, OnlySettlementPays
  <2>2. notice[w] \in notices /\ notice[w].result = "paid"
    BY <2>1, SMT DEF Inv, Handlers, Genuine, Saving, CommitSettlement
  <2>3. charge[o] = "settled"
    BY <2>1, <2>2 DEF Inv, Honest
  <2>4. QED
    BY <2>3, Monotone
<1>3. QED
  BY <1>1, <1>2

LEMMA HonestStep == Inv /\ [Next]_vars => Honest'
<1> SUFFICES ASSUME Inv, [Next]_vars, NEW n \in notices', n.result = "paid"
             PROVE  charge'[n.order] = "settled"
  BY DEF Honest
<1> USE DEF gateway, handler
<1>t. TypeOK
  BY DEF Inv
<1>1. CASE n \in notices
  <2>1. n.order \in Orders /\ charge[n.order] = "settled"
    BY <1>1, <1>t, SMT DEF Inv, Honest, TypeOK, Notice
  <2>2. QED
    BY <2>1, Monotone
<1>2. CASE n \notin notices
  <2>1. PICK o \in Orders :
          Settle(o) \/ \E result \in Results : Attempt(o, result)
    BY <1>2 DEF Next, Handle, vars, CreateTransaction, ProviderFails,
       SavePayment, OpeningFails, Deliver, FindPayment, Check, Reload, Write,
       CommitSettlement, Fail
  <2>2. CASE Settle(o)
    BY <2>2, <1>2, <1>t, SMT DEF Settle, TypeOK
  <2>3. CASE \E result \in Results : Attempt(o, result)
    BY <2>3, <1>2, SMT DEF Attempt
  <2>4. QED
    BY <2>1, <2>2, <2>3
<1>3. QED
  BY <1>1, <1>2

LEMMA UnopenedStep == Inv /\ [Next]_vars => Unopened'
<1> SUFFICES ASSUME Inv, [Next]_vars, NEW o \in Orders
             PROVE  /\ payment'[o] # NoRow => opening'[o] = "done"
                    /\ opening'[o] = "charge" => charge'[o] = "none"
  BY DEF Unopened
<1> USE DEF gateway, handler
<1>t. TypeOK
  BY DEF Inv
<1>u. /\ payment[o] # NoRow => opening[o] = "done"
      /\ opening[o] = "charge" => charge[o] = "none"
  BY DEF Inv, Unopened
<1>1. ASSUME NEW p \in Orders, CreateTransaction(p) \/ SavePayment(p)
      PROVE  /\ payment'[o] # NoRow => opening'[o] = "done"
             /\ opening'[o] = "charge" => charge'[o] = "none"
  BY <1>1, <1>t, <1>u, SMT DEF TypeOK, CreateTransaction, SavePayment
<1>2. ASSUME NEW p \in Orders, ProviderFails(p) \/ OpeningFails(p)
      PROVE  /\ payment'[o] # NoRow => opening'[o] = "done"
             /\ opening'[o] = "charge" => charge'[o] = "none"
  <2>1. /\ payment' = payment
        /\ opening' = [opening EXCEPT ![p] = "done"]
        /\ charge' = charge \/ charge' = [charge EXCEPT ![p] = "open"]
    BY <1>2 DEF ProviderFails, OpeningFails
  <2>2. QED
    BY <2>1, <1>t, <1>u, SMT DEF TypeOK
<1>3. ASSUME NEW p \in Orders, Settle(p)
      PROVE  /\ payment'[o] # NoRow => opening'[o] = "done"
             /\ opening'[o] = "charge" => charge'[o] = "none"
  BY <1>3, <1>t, <1>u, SMT DEF TypeOK, Settle
<1>4. ASSUME NEW w \in Workers, Write(w) \/ CommitSettlement(w)
      PROVE  /\ payment'[o] # NoRow => payment[o] # NoRow
             /\ UNCHANGED <<opening, charge>>
  <2>1. payment[notice[w].order] # NoRow
    BY <1>4 DEF Inv, Handlers, Checking, Write, CommitSettlement
  <2>2. /\ \/ payment' = payment
           \/ payment' = [payment EXCEPT ![notice[w].order] = Saved(w)]
        /\ UNCHANGED <<opening, charge>>
    BY <1>4 DEF Write, CommitSettlement
  <2>3. QED
    BY <2>1, <2>2, <1>t, SMT DEF TypeOK
<1>5. CASE UNCHANGED <<payment, opening, charge>>
  BY <1>5, <1>u
<1>6. QED
  BY <1>1, <1>2, <1>3, <1>4, <1>5, <1>u
     DEF Next, Handle, vars, Attempt, Deliver, FindPayment, Check, Reload, Fail

LEMMA SettledTogetherStep == Inv /\ [Next]_vars => SettledTogether'
<1> SUFFICES ASSUME Inv, [Next]_vars, NEW o \in Orders,
                    payment'[o] # NoRow, payment'[o].status = "paid"
             PROVE  order'[o] = "paid"
  BY DEF SettledTogether
<1> USE DEF gateway, handler
<1>t. TypeOK
  BY DEF Inv
<1>1. CASE payment'[o] = payment[o]
  BY <1>1, Monotone DEF Inv, SettledTogether
<1>2. ASSUME NEW p \in Orders, SavePayment(p), payment'[o] # payment[o]
      PROVE  FALSE
  BY <1>2, <1>t, SMT DEF TypeOK, SavePayment
<1>3. ASSUME NEW w \in Workers, Write(w), payment'[o] # payment[o]
      PROVE  order'[o] = "paid"
  <2>1. /\ notice[w].order = o
        /\ payment'[o] = Saved(w)
        /\ entity[w].status = "failed"
    BY <1>3, <1>t, SMT DEF TypeOK, Write
  <2>2. payment[o].status = "paid" /\ payment[o] # NoRow
    <3>1. Saved(w).status \in {entity[w].status, payment[o].status}
      BY <2>1, SMT DEF Saved
    <3>2. payment[o] # NoRow
      BY <1>3, <2>1 DEF Inv, Handlers, Checking, Write
    <3>3. QED
      BY <2>1, <3>1, <3>2, SMT
  <2>3. QED
    BY <2>2, Monotone DEF Inv, SettledTogether
<1>4. ASSUME NEW w \in Workers, CommitSettlement(w), payment'[o] # payment[o]
      PROVE  order'[o] = "paid"
  <2>1. notice[w].order = o
    BY <1>4, <1>t, SMT DEF TypeOK, CommitSettlement
  <2>2. order'[o] = IF order[o] = "pending" THEN "paid" ELSE order[o]
    BY <1>4, <2>1, <1>t, SMT DEF TypeOK, CommitSettlement
  <2>3. order[o] \in {"pending", "paid"}
    BY <1>t DEF TypeOK, OrderStatus
  <2>4. QED
    BY <2>2, <2>3
<1>5. QED
  BY <1>1, <1>2, <1>3, <1>4
     DEF Next, Handle, vars, CreateTransaction, ProviderFails, OpeningFails,
     Settle, Attempt, Deliver, FindPayment, Check, Reload, Fail

LEMMA AcknowledgedMeansAppliedStep ==
  Inv /\ [Next]_vars => AcknowledgedMeansApplied'
<1> SUFFICES ASSUME Inv, [Next]_vars, NEW n \in acked', n.result = "paid"
             PROVE  order'[n.order] = "paid"
  BY DEF AcknowledgedMeansApplied
<1> USE DEF gateway, handler
<1>t. TypeOK
  BY DEF Inv
<1>1. CASE n \in acked
  <2>1. n.order \in Orders /\ order[n.order] = "paid"
    BY <1>1, <1>t, SMT DEF Inv, AcknowledgedMeansApplied, TypeOK, Notice
  <2>2. QED
    BY <2>1, Monotone
<1>2. CASE n \notin acked
  <2>1. PICK w \in Workers : Check(w) \/ Write(w) \/ CommitSettlement(w)
    BY <1>2 DEF Next, Handle, vars, CreateTransaction, ProviderFails,
       SavePayment, OpeningFails, Settle, Attempt, Deliver, FindPayment,
       Reload, Fail
  <2>2. Reply(w)
    BY <1>2, <2>1 DEF Check, Write, CommitSettlement
  <2>3. n = notice[w]
    BY <1>2, <2>2 DEF Reply
  <2>4. n.order \in Orders
    BY <2>3, <1>t, SMT DEF TypeOK, Notice
  <2>5. CASE Check(w)
    <3>1. pc[w] = "check"
      BY <2>5 DEF Check
    <3>2. CASE NothingToDo(w)
      <4>1. entity[w].status = "paid"
        BY <2>3, <3>2, SMT DEF NothingToDo
      <4>2. order[n.order] = "paid"
        BY <2>3, <3>1, <4>1 DEF Inv, Handlers, Checking
      <4>3. QED
        BY <2>4, <4>2, Monotone
    <3>3. CASE ~NothingToDo(w)
      <4>1. acked' = acked
        BY <2>5, <3>3 DEF Check
      <4>2. QED
        BY <1>2, <4>1
    <3>4. QED
      BY <3>2, <3>3
  <2>6. CASE Write(w)
    <3>1. entity[w].status = "paid" /\ pc[w] = "write"
      BY <2>3, <2>6, SMT DEF Inv, Handlers, Saving, Write
    <3>2. acked' = acked
      BY <2>6, <3>1, SMT DEF Write
    <3>3. QED
      BY <1>2, <3>2
  <2>7. CASE CommitSettlement(w)
    <3>1. order'[n.order] = IF order[n.order] = "pending" THEN "paid"
                            ELSE order[n.order]
      BY <2>3, <2>4, <2>7, <1>t DEF TypeOK, CommitSettlement
    <3>2. order[n.order] \in {"pending", "paid"}
      BY <2>4, <1>t DEF TypeOK, OrderStatus
    <3>3. QED
      BY <3>1, <3>2
  <2>8. QED
    BY <2>1, <2>5, <2>6, <2>7
<1>3. QED
  BY <1>1, <1>2

-----------------------------------------------------------------------------
(***************************************************************************)
(* The handlers.                                                           *)
(***************************************************************************)

\* An idle handler is held to nothing.
LEMMA FinishHandler ==
  ASSUME TypeOK, NEW w \in Workers, Finish(w)
  PROVE  (Genuine(w) /\ Checking(w) /\ Saving(w))'
<1>1. pc'[w] = "idle"
  BY DEF TypeOK, Finish
<1>2. QED
  BY <1>1, SMT DEF Genuine, Checking, Saving

\* A handler that stays where it is keeps what it has relied on.
LEMMA IdleHandler ==
  ASSUME Inv, [Next]_vars, NEW w \in Workers,
         pc'[w] = pc[w], notice'[w] = notice[w],
         entity'[w] = entity[w], reloaded'[w] = reloaded[w]
  PROVE  (Genuine(w) /\ Checking(w) /\ Saving(w))'
<1>1. Genuine(w) /\ Checking(w) /\ Saving(w)
  BY DEF Inv, Handlers
<1>2. notice[w].order \in Orders
  BY SMT DEF Inv, TypeOK, Notice
<1>3. Genuine(w)'
  BY <1>1, <1>2, Monotone DEF Genuine
<1>4. Checking(w)'
  BY <1>1, <1>2, Monotone DEF Checking
<1>5. Saving(w)'
  BY <1>1 DEF Saving
<1>6. QED
  BY <1>3, <1>4, <1>5

LEMMA HandlersStep == Inv /\ [Next]_vars => Handlers'
<1> SUFFICES ASSUME Inv, [Next]_vars, NEW w \in Workers
             PROVE  (Genuine(w) /\ Checking(w) /\ Saving(w))'
  BY DEF Handlers
<1> USE DEF gateway, handler, Goto
<1>t. TypeOK
  BY DEF Inv
<1>w. Genuine(w) /\ Checking(w) /\ Saving(w)
  BY DEF Inv, Handlers
<1>0. CASE Finish(w)
  BY <1>0, <1>t, FinishHandler
<1>1. ASSUME NEW n \in notices, Deliver(w, n)
      PROVE  (Genuine(w) /\ Checking(w) /\ Saving(w))'
  <2>1. pc'[w] = "find" /\ notice'[w] = n /\ notices' = notices
    BY <1>1, <1>t DEF TypeOK, Deliver
  <2>2. QED
    BY <2>1, SMT DEF Genuine, Checking, Saving
<1>2. CASE FindPayment(w) /\ ~Finish(w)
  <2>1. /\ payment[notice[w].order] # NoRow
        /\ pc[w] = "find"
        /\ entity' = [entity EXCEPT ![w] = payment[notice[w].order]]
        /\ pc' = [pc EXCEPT ![w] = "check"]
        /\ UNCHANGED <<notice, reloaded, order, payment, notices>>
    BY <1>2 DEF FindPayment
  <2>2. /\ pc'[w] = "check" /\ notice'[w] = notice[w]
        /\ entity'[w] = payment[notice[w].order]
    BY <2>1, <1>t DEF TypeOK
  <2>3. notice[w].order \in Orders
    BY <1>t, SMT DEF TypeOK, Notice
  <2>4. payment[notice[w].order] \in Payment
    BY <2>1, <2>3, <1>t DEF TypeOK
  <2>5. payment[notice[w].order].status = "paid"
          => order[notice[w].order] = "paid"
    BY <2>1, <2>3 DEF Inv, SettledTogether
  <2>6. Genuine(w)'
    BY <1>w, <2>1, <2>2, SMT DEF Genuine
  <2>7. Checking(w)'
    BY <2>1, <2>2, <2>4, <2>5 DEF Checking
  <2>8. Saving(w)'
    BY <2>2, SMT DEF Saving
  <2>9. QED
    BY <2>6, <2>7, <2>8
<1>3. CASE Check(w) /\ ~Finish(w)
  <2> DEFINE applied == [status |-> notice[w].result, raw |-> notice[w].result]
  <2>1. /\ ~NothingToDo(w)
        /\ pc[w] = "check"
        /\ entity' = [entity EXCEPT ![w] = applied]
        /\ pc' = [pc EXCEPT ![w] = "reload"]
        /\ UNCHANGED <<notice, reloaded, order, payment, notices>>
    BY <1>3 DEF Check, Reply
  <2>2. notice[w].result \in {"paid", "failed"}
    BY <2>1, <1>t, SMT DEF TypeOK, NothingToDo, Notice, Results
  <2>3. applied \in Payment /\ applied.status = notice[w].result
    BY <2>2, SMT DEF Payment, PaymentStatus, Results
  <2>4. /\ pc'[w] = "reload" /\ notice'[w] = notice[w]
        /\ entity'[w] = applied
    BY <2>1, <1>t DEF TypeOK
  <2> HIDE DEF applied
  <2>5. Genuine(w)'
    BY <1>w, <2>1, <2>4, SMT DEF Genuine
  <2>6. Checking(w)'
    BY <1>w, <2>1, <2>3, <2>4, SMT DEF Checking
  <2>7. Saving(w)'
    BY <2>3, <2>4, SMT DEF Saving
  <2>8. QED
    BY <2>5, <2>6, <2>7
<1>4. CASE Reload(w)
  <2>1. payment[notice[w].order] \in Payment
    BY <1>4, <1>w, <1>t, SMT DEF Reload, Checking, TypeOK, Notice
  <2>2. /\ pc[w] = "reload" /\ pc'[w] = "write"
        /\ reloaded'[w] = payment[notice[w].order]
        /\ UNCHANGED <<notice, entity, order, payment, notices>>
    BY <1>4, <1>t DEF TypeOK, Reload
  <2>3. Genuine(w)'
    BY <1>w, <2>2, SMT DEF Genuine
  <2>4. Checking(w)'
    BY <1>w, <2>2, SMT DEF Checking
  <2>5. Saving(w)'
    BY <1>w, <2>1, <2>2, SMT DEF Saving
  <2>6. QED
    BY <2>3, <2>4, <2>5
<1>5. CASE Write(w) /\ ~Finish(w)
  <2>1. /\ pc[w] = "write" /\ entity[w].status = "paid"
        /\ pc' = [pc EXCEPT ![w] = "commit"]
        /\ UNCHANGED <<payment, notice, entity, reloaded, order, notices>>
    BY <1>5 DEF Write, Reply
  <2>2. pc'[w] = "commit"
    BY <2>1, <1>t DEF TypeOK
  <2>3. Genuine(w)'
    BY <1>w, <2>1, <2>2, SMT DEF Genuine
  <2>4. Checking(w)'
    BY <1>w, <2>1, <2>2, SMT DEF Checking
  <2>5. Saving(w)'
    BY <1>w, <2>1, <2>2, SMT DEF Saving
  <2>6. QED
    BY <2>3, <2>4, <2>5
<1>6. CASE CommitSettlement(w) \/ Fail(w)
  BY <1>0, <1>6 DEF CommitSettlement, Fail, Reply
<1>7. QED
  BY <1>0, <1>1, <1>2, <1>3, <1>4, <1>5, <1>6, OwnSteps, IdleHandler DEF Handle

-----------------------------------------------------------------------------
(***************************************************************************)
(* The theorems.                                                           *)
(***************************************************************************)

LEMMA InvInit == Init => Inv
<1> SUFFICES ASSUME Init PROVE Inv
  OBVIOUS
<1>1. TypeOK
  BY TypeInit
<1>2. /\ PaidMeansSettled /\ SettledTogether /\ Unopened
      /\ AcknowledgedMeansApplied /\ Honest
  BY SMT DEF Init, PaidMeansSettled, SettledTogether, Unopened,
     AcknowledgedMeansApplied, Honest
<1>3. Handlers
  BY SMT DEF Init, Handlers, Genuine, Checking, Saving
<1>4. QED
  BY <1>1, <1>2, <1>3 DEF Inv

LEMMA InvStep == Inv /\ [Next]_vars => Inv'
  BY TypeStep, PaidMeansSettledStep, SettledTogetherStep,
     AcknowledgedMeansAppliedStep, HandlersStep, UnopenedStep, HonestStep
     DEF Inv

\* Whatever the orders and however many webhooks are handled at once, the
\* state of the payment code satisfies Inv.
THEOREM Invariance == Spec => []Inv
  BY InvInit, InvStep, PTL DEF Spec

\* Every variable holds values of its kind.
THEOREM TypeCorrect == Spec => []TypeOK
<1>1. Inv => TypeOK
  BY DEF Inv
<1>2. QED
  BY Invariance, <1>1, PTL

\* No order is paid that the gateway has not settled.
THEOREM PaidOrdersAreSettled == Spec => []PaidMeansSettled
<1>1. Inv => PaidMeansSettled
  BY DEF Inv
<1>2. QED
  BY Invariance, <1>1, PTL

\* No payment is paid before its order, not even for a moment.
THEOREM PaymentAndOrderSettleTogether == Spec => []SettledTogether
<1>1. Inv => SettledTogether
  BY DEF Inv
<1>2. QED
  BY Invariance, <1>1, PTL

\* No settlement is acknowledged and lost.
THEOREM NoSettlementIsLost == Spec => []AcknowledgedMeansApplied
<1>1. Inv => AcknowledgedMeansApplied
  BY DEF Inv
<1>2. QED
  BY Invariance, <1>1, PTL


-----------------------------------------------------------------------------
(***************************************************************************)
(* Payments implements Billing.  Between findOne and COMMIT a handler      *)
(* works on copies; what keeps its last step in line with the atomic one   *)
(* is that what it has seen of the row can only have moved on to paid.     *)
(***************************************************************************)

\* What save read again still says something about the row of now.
Outdated(w) ==
  pc[w] \in {"write", "commit"} =>
    /\ reloaded[w].status = "paid" => order[notice[w].order] = "paid"
    /\ reloaded[w].status = "failed" =>
         payment[notice[w].order].status \in {"failed", "paid"}

Rereads == \A w \in Workers : Outdated(w)

\* A row that has left "pending" never returns to it.
LEMMA NeverPendingAgain ==
  ASSUME Inv, [Next]_vars, NEW o \in Orders, payment[o] # NoRow,
         payment[o].status \in {"failed", "paid"}
  PROVE  payment'[o].status \in {"failed", "paid"}
<1> USE DEF gateway, handler
<1>t. TypeOK
  BY DEF Inv
<1>1. ASSUME NEW w \in Workers,
             (Write(w) /\ payment' # payment) \/ CommitSettlement(w)
      PROVE  payment'[o].status \in {"failed", "paid"}
  <2>1. /\ payment' = [payment EXCEPT ![notice[w].order] = Saved(w)]
        /\ entity[w].status \in {"failed", "paid"}
        /\ pc[w] \in {"write", "commit"}
    <3>1. CASE Write(w) /\ payment' # payment
      BY <3>1 DEF Write
    <3>2. CASE CommitSettlement(w)
      <4>1. entity[w].status = "paid"
        BY <3>2 DEF CommitSettlement, Inv, Handlers, Saving
      <4>2. QED
        BY <3>2, <4>1 DEF CommitSettlement
    <3>3. QED
      BY <1>1, <3>1, <3>2
  <2>2. CASE o = notice[w].order
    <3>1. payment'[o] = Saved(w)
      BY <1>t, <2>1, <2>2, SMT DEF TypeOK
    <3>2. Saved(w).status \in {entity[w].status, payment[o].status}
      BY <2>2 DEF Saved
    <3>3. QED
      BY <2>1, <3>1, <3>2
  <2>3. CASE o # notice[w].order
    BY <1>t, <2>1, <2>3 DEF TypeOK
  <2>4. QED
    BY <2>2, <2>3
<1>2. ASSUME NEW q \in Orders, SavePayment(q)
      PROVE  payment'[o].status \in {"failed", "paid"}
  <2>1. o # q
    BY <1>2 DEF SavePayment, Inv, Unopened
  <2>2. QED
    BY <1>2, <1>t, <2>1 DEF SavePayment, TypeOK
<1>3. payment' = payment => payment'[o].status \in {"failed", "paid"}
  OBVIOUS
<1>4. QED
  BY <1>1, <1>2, <1>3
     DEF Next, vars, Handle, CreateTransaction, ProviderFails, OpeningFails,
         Settle, Attempt, Deliver, FindPayment, Check, Reload, Fail

LEMMA RereadsInit == Init => Rereads
  BY DEF Init, Rereads, Outdated

LEMMA RereadsStep == Inv /\ Rereads /\ [Next]_vars => Rereads'
<1> SUFFICES ASSUME Inv, Rereads, [Next]_vars, NEW w \in Workers
             PROVE  Outdated(w)'
  BY DEF Rereads
<1>t. TypeOK
  BY DEF Inv
<1>1. CASE /\ pc[w] \in {"write", "commit"}
           /\ notice'[w] = notice[w] /\ reloaded'[w] = reloaded[w]
  <2> DEFINE o == notice[w].order
  <2>1. o \in Orders /\ payment[o] # NoRow
    BY <1>1, <1>t, SMT DEF TypeOK, Notice, Inv, Handlers, Checking
  <2>2. order[o] = "paid" => order'[o] = "paid"
    BY <2>1, Monotone
  <2>3. payment[o].status \in {"failed", "paid"} =>
          payment'[o].status \in {"failed", "paid"}
    BY <2>1, NeverPendingAgain
  <2>4. Outdated(w)
    BY DEF Rereads
  <2>5. QED
    BY <1>1, <2>2, <2>3, <2>4 DEF Outdated
<1>2. CASE Reload(w)
  <2> DEFINE o == notice[w].order
  <2>1. o \in Orders /\ payment[o] # NoRow
    BY <1>2, <1>t, SMT DEF TypeOK, Notice, Inv, Handlers, Checking, Reload
  <2>2. /\ reloaded'[w] = payment[o] /\ payment' = payment /\ order' = order
        /\ notice' = notice
    BY <1>2, <1>t DEF Reload, TypeOK
  <2>3. payment[o].status = "paid" => order[o] = "paid"
    BY <2>1 DEF Inv, SettledTogether
  <2>4. QED
    BY <2>2, <2>3 DEF Outdated
<1>3. CASE pc'[w] \notin {"write", "commit"}
  BY <1>3 DEF Outdated
<1>4. ASSUME Finish(w) PROVE pc'[w] \notin {"write", "commit"}
  BY <1>4, <1>t DEF Finish, TypeOK
<1>5. CASE FindPayment(w) \/ Check(w) \/ Fail(w)
           \/ CommitSettlement(w)
           \/ \E n \in notices : Deliver(w, n)
  <2>1. pc'[w] \notin {"write", "commit"}
    BY <1>4, <1>5, <1>t
       DEF Deliver, FindPayment, Check, Fail, CommitSettlement, Reply, Goto,
           TypeOK
  <2>2. QED
    BY <1>3, <2>1
<1>6. CASE Write(w)
  <2>1. CASE Finish(w)
    BY <1>3, <1>4, <2>1
  <2>2. CASE ~Finish(w)
    BY <1>1, <1>6, <2>2 DEF Write, Reply
  <2>3. QED
    BY <2>1, <2>2
<1>7. QED
  BY <1>1, <1>2, <1>3, <1>5, <1>6, OwnSteps DEF Handle

\* Writing a row is an entry in the account.
LEMMA RowIsEntered ==
  ASSUME TypeOK, NEW o \in Orders, NEW row \in Payment,
         payment' = [payment EXCEPT ![o] = row]
  PROVE  Account' = [Account EXCEPT ![o] = row.status]
<1>1. row # NoRow
  BY PaymentsAssumption
<1>2. payment' \in [Orders -> Payment \cup {NoRow}]
  BY DEF TypeOK
<1>3. \A q \in Orders : payment'[q] = IF q = o THEN row ELSE payment[q]
  BY DEF TypeOK
<1>4. \A q \in Orders :
        Account'[q] = IF q = o THEN row.status ELSE Account[q]
  BY <1>1, <1>3 DEF Account
<1>5. Account' = [q \in Orders |-> Account'[q]]
  BY DEF Account
<1>6. [Account EXCEPT ![o] = row.status]
        = [q \in Orders |-> IF q = o THEN row.status ELSE Account[q]]
  BY DEF Account
<1>7. QED
  BY <1>4, <1>5, <1>6

LEMMA BillingInit == Init => Abstract!Init
<1> SUFFICES ASSUME Init PROVE Abstract!Init
  OBVIOUS
<1>1. Account = [o \in Orders |-> "none"]
  BY DEF Init, Account
<1>2. QED
  BY <1>1 DEF Init, Abstract!Init

\* Where a handler past findOne stands.
LEMMA AtWork ==
  ASSUME Inv, NEW w \in Workers, pc[w] \notin {"idle", "find"}
  PROVE  /\ notice[w] \in Notice /\ notice[w] \in notices
         /\ notice[w].order \in Orders
         /\ payment[notice[w].order] \in Payment
         /\ Account[notice[w].order] = payment[notice[w].order].status
         /\ Account[notice[w].order] # "none"
<1>1. notice[w] \in Notice /\ notice[w] \in notices
  BY DEF Inv, TypeOK, Handlers, Genuine
<1>2. notice[w].order \in Orders
  BY <1>1 DEF Notice
<1>3. payment[notice[w].order] \in Payment
      /\ payment[notice[w].order] # NoRow
  BY <1>2 DEF Inv, TypeOK, Handlers, Checking
<1>4. payment[notice[w].order].status \in PaymentStatus
  BY <1>3 DEF Payment
<1>5. QED
  BY <1>1, <1>2, <1>3, <1>4 DEF Account, PaymentStatus

\* A handler that only answers has nothing to apply.
LEMMA AnswerDismisses ==
  ASSUME Inv, NEW w \in Workers, pc[w] \notin {"idle", "find"},
         notice[w].result = "neither" \/ order[notice[w].order] = "paid",
         acked' \in {acked, acked \cup {notice[w]}},
         UNCHANGED <<order, Account, notices>>
  PROVE  Abstract!Next
<1>1. Abstract!Answer(notice[w])
  BY AtWork DEF Abstract!Answer
<1>2. Abstract!Dismiss(notice[w])
  BY <1>1 DEF Abstract!Dismiss
<1>3. notice[w] \in Abstract!Notice
  BY AtWork DEF Abstract!Notice, Notice, Results
<1>4. QED
  BY <1>2, <1>3 DEF Abstract!Next

\* COMMIT of a settlement: entered now, or by another handler before.
LEMMA CommitPays ==
  ASSUME Inv, Rereads, NEW w \in Workers, CommitSettlement(w)
  PROVE  Abstract!Next
<1> DEFINE n == notice[w]
           o == notice[w].order
<1>t. TypeOK
  BY DEF Inv
<1>1. /\ pc[w] = "commit" /\ UNCHANGED notices
      /\ payment' = [payment EXCEPT ![o] = Saved(w)]
      /\ acked' \in {acked, acked \cup {n}}
      /\ order' = [order EXCEPT ![o] = IF @ = "pending" THEN "paid" ELSE @]
  BY DEF CommitSettlement, Reply, gateway
<1>2. /\ n \in Notice /\ n \in notices /\ o \in Orders
      /\ payment[o] \in Payment
      /\ Account[o] = payment[o].status /\ Account[o] # "none"
  BY <1>1, AtWork
<1>3. n.result = "paid" /\ entity[w].status = "paid"
  BY <1>1 DEF Inv, Handlers, Saving
<1>4. order[o] \in {"pending", "paid"}
  BY <1>2, <1>t DEF TypeOK, OrderStatus
<1>5. order' = [order EXCEPT ![o] = "paid"]
  BY <1>1, <1>4
<1>6. Account' = [Account EXCEPT ![o] = Saved(w).status]
  BY <1>1, <1>2, <1>t, SavedType, RowIsEntered
<1>7. CASE reloaded[w].status # "paid"
  <2>1. Saved(w).status = "paid"
    BY <1>3, <1>7 DEF Saved
  <2>2. Abstract!Answer(n)
    BY <1>1, <1>2 DEF Abstract!Answer
  <2>3. Abstract!Pay(n)
    BY <1>1, <1>3, <1>5, <1>6, <2>1, <2>2 DEF Abstract!Pay
  <2>4. n \in Abstract!Notice
    BY <1>2 DEF Abstract!Notice, Notice, Results
  <2>5. QED
    BY <2>3, <2>4 DEF Abstract!Next
<1>8. CASE reloaded[w].status = "paid"
  <2>1. order[o] = "paid"
    BY <1>1, <1>8 DEF Rereads, Outdated
  <2>2. Saved(w).status = payment[o].status
    BY <1>3, <1>8 DEF Saved
  <2>3. Account' = Account
    BY <1>2, <1>6, <2>2 DEF Account
  <2>4. order' = order
    BY <1>5, <2>1, <1>t, <1>2 DEF TypeOK
  <2>5. QED
    BY <1>1, <2>1, <2>3, <2>4, AnswerDismisses
<1>9. QED
  BY <1>7, <1>8

\* Saving a failed result: entered now, or overtaken by what came before.
LEMMA WriteDeclines ==
  ASSUME Inv, Rereads, NEW w \in Workers, Write(w),
         entity[w].status = "failed"
  PROVE  Abstract!Next
<1> DEFINE n == notice[w]
           o == notice[w].order
<1>t. TypeOK
  BY DEF Inv
<1>1. /\ pc[w] = "write" /\ UNCHANGED <<order, notices>>
      /\ payment' = [payment EXCEPT ![o] = Saved(w)]
      /\ acked' \in {acked, acked \cup {n}}
  BY DEF Write, Reply, gateway
<1>2. /\ n \in Notice /\ n \in notices /\ o \in Orders
      /\ payment[o] \in Payment /\ payment[o] # NoRow
      /\ Account[o] = payment[o].status /\ Account[o] # "none"
  BY <1>1, AtWork, PaymentsAssumption
<1>3. n.result = "failed"
  BY <1>1 DEF Inv, Handlers, Saving
<1>4. Account' = [Account EXCEPT ![o] = Saved(w).status]
  BY <1>1, <1>2, <1>t, SavedType, RowIsEntered
<1>5. CASE Saved(w).status = "failed"
  <2>1. Abstract!Answer(n)
    BY <1>1, <1>2 DEF Abstract!Answer
  <2>2. Abstract!Decline(n)
    BY <1>1, <1>3, <1>4, <1>5, <2>1 DEF Abstract!Decline
  <2>3. n \in Abstract!Notice
    BY <1>2 DEF Abstract!Notice, Notice, Results
  <2>4. QED
    BY <2>2, <2>3 DEF Abstract!Next
<1>6. CASE Saved(w).status # "failed"
  <2>1. reloaded[w].status = "failed" /\ Saved(w).status = payment[o].status
    BY <1>6 DEF Saved
  <2>2. payment[o].status = "paid"
    BY <1>1, <1>6, <2>1 DEF Rereads, Outdated
  <2>3. order[o] = "paid"
    BY <1>2, <2>2 DEF Inv, SettledTogether
  <2>4. Account' = Account
    BY <1>2, <1>4, <2>1 DEF Account
  <2>5. QED
    BY <1>1, <2>3, <2>4, AnswerDismisses
<1>7. QED
  BY <1>5, <1>6

LEMMA BillingStep ==
  Inv /\ Rereads /\ [Next]_vars => [Abstract!Next]_(Abstract!vars)
<1> SUFFICES ASSUME Inv, Rereads, [Next]_vars
             PROVE  Abstract!Next \/ UNCHANGED Abstract!vars
  OBVIOUS
<1> USE DEF gateway, handler
<1>t. TypeOK
  BY DEF Inv
<1>u. UNCHANGED <<order, payment, notices, acked>> => UNCHANGED Abstract!vars
  BY DEF Abstract!vars, Account
<1>1. ASSUME NEW o \in Orders, SavePayment(o) PROVE Abstract!Next
  <2> DEFINE row == [status |-> "pending", raw |-> "created"]
  <2>1. row \in Payment /\ row.status = "pending"
    BY DEF Payment, PaymentStatus
  <2>2. payment[o] = NoRow
    BY <1>1 DEF SavePayment, Inv, Unopened
  <2>3. Account[o] = "none"
    BY <2>2 DEF Account
  <2>4. Account' = [Account EXCEPT ![o] = "pending"]
    BY <1>1, <1>t, <2>1, RowIsEntered DEF SavePayment
  <2>5. Abstract!Bill(o)
    BY <1>1, <2>3, <2>4 DEF SavePayment, Abstract!Bill
  <2>6. QED
    BY <2>5 DEF Abstract!Next
<1>2. ASSUME NEW o \in Orders, NEW result \in Results,
             notices' = notices \cup {[order |-> o, result |-> result]},
             UNCHANGED <<order, payment, acked>>
      PROVE  Abstract!Next
  <2> DEFINE n == [order |-> o, result |-> result]
  <2>1. n \in Abstract!Notice
    BY DEF Abstract!Notice, Results
  <2>2. Abstract!Notify(n)
    BY <1>2 DEF Abstract!Notify, Account
  <2>3. QED
    BY <2>1, <2>2 DEF Abstract!Next
<1>3. ASSUME NEW o \in Orders, Settle(o) \/ \E r \in Results : Attempt(o, r)
      PROVE  Abstract!Next
  BY <1>2, <1>3 DEF Settle, Attempt, Results
<1>4. ASSUME NEW w \in Workers, Check(w)
      PROVE  Abstract!Next \/ UNCHANGED Abstract!vars
  <2>1. CASE NothingToDo(w)
    <3>1. /\ pc[w] = "check" /\ acked' \in {acked, acked \cup {notice[w]}}
          /\ UNCHANGED <<order, payment, notices>>
      BY <1>4, <2>1 DEF Check, Reply
    <3>2. notice[w].result = "neither" \/ order[notice[w].order] = "paid"
      BY <2>1, <3>1 DEF NothingToDo, Inv, Handlers, Checking
    <3>3. UNCHANGED Account
      BY <3>1 DEF Account
    <3>4. QED
      BY <3>1, <3>2, <3>3, AnswerDismisses
  <2>2. CASE ~NothingToDo(w)
    BY <1>4, <1>u, <2>2 DEF Check
  <2>3. QED
    BY <2>1, <2>2
<1>5. ASSUME NEW w \in Workers, Write(w)
      PROVE  Abstract!Next \/ UNCHANGED Abstract!vars
  <2>1. CASE entity[w].status = "failed"
    BY <1>5, <2>1, WriteDeclines
  <2>2. CASE entity[w].status # "failed"
    BY <1>5, <1>u, <2>2 DEF Write
  <2>3. QED
    BY <2>1, <2>2
<1>6. ASSUME NEW w \in Workers, CommitSettlement(w) PROVE Abstract!Next
  BY <1>6, CommitPays
<1>7. QED
  BY <1>u, <1>1, <1>3, <1>4, <1>5, <1>6
     DEF Next, Handle, vars, CreateTransaction, ProviderFails, OpeningFails,
         Deliver, FindPayment, Reload, Fail

\* Notices handled concurrently, repeated, reordered and retried amount to
\* notices applied one at a time: order and payment are settled in one step,
\* and no notice is answered with 2xx that has not been applied or has not
\* ceased to matter.
THEOREM BillingRefinement == Spec => ImplementsBilling
<1>1. Inv /\ Rereads /\ [Next]_vars => Rereads'
  BY RereadsStep
<1>2. QED
  BY <1>1, RereadsInit, BillingInit, BillingStep, Invariance, PTL
     DEF Spec, ImplementsBilling, Abstract!Spec

=============================================================================
