------------------------------- MODULE Payments -------------------------------
(***************************************************************************)
(* PaymentService (payments/payment.service.ts): opening the payment of a  *)
(* committed order, and applying the gateway's webhooks.                   *)
(*                                                                         *)
(* Webhooks are handled concurrently and may be duplicated, reordered, and *)
(* repeated until they are answered with 2xx.  handleWebhook reads the     *)
(* payment outside any transaction, mutates that entity and saves it, so   *)
(* everything between the read and the save can interleave.                *)
(*                                                                         *)
(* External, modelled from how the code uses them: the gateway (a charge   *)
(* may have failed attempts before it settles, and each outcome is         *)
(* notified), and TypeORM's save, which reads the row again and then       *)
(* UPDATEs only the columns in which the entity differs from that row.     *)
(* Signature checks are left out: a notice here is one that verified.      *)
(*                                                                         *)
(* Operators introduced by "Fault" are not part of the model: each is the  *)
(* definition after it with a mistake in it, kept to show that some        *)
(* property notices that mistake.                                          *)
(***************************************************************************)
EXTENDS Naturals, FiniteSets

CONSTANTS
  Orders,   \* orders that place has committed and not yet opened a payment for
  Workers,  \* webhook requests being handled at the same time
  NoRow     \* no payment row

OrderStatus == {"pending", "paid"}
PaymentStatus == {"pending", "paid", "failed"}

\* What verifyWebhook makes of a payload: WebhookResult.paid, .failed, neither.
Results == {"paid", "failed", "neither"}

\* A payment row, or an entity read from it.  "raw" is the payload it carries:
\* that of createTransaction or that of the notice applied last.
Payment == [status : PaymentStatus, raw : {"created"} \cup Results]

Notice == [order : Orders, result : Results]

ASSUME PaymentsAssumption == Orders # {} /\ NoRow \notin Payment

VARIABLES
  order,     \* order.status
  payment,   \* the payment row of each order
  opening,   \* where createForOrder is for each order
  charge,    \* the gateway's side of each order
  notices,   \* what the gateway has notified
  acked,     \* the notices it got a 2xx for
  pc,        \* where each webhook handler is
  notice,    \* the notice it handles
  entity,    \* its payment entity
  reloaded,  \* the row as save read it again
  late       \* history: was the order paid when the notice came in?

gateway == <<charge, notices>>
handler == <<pc, notice, entity, reloaded, late>>
vars == <<order, payment, opening, gateway, acked, handler>>

Stages == {"idle", "find", "check", "reload", "write", "commit"}

AnyNotice == CHOOSE n \in Notice : TRUE

Init ==
  /\ order = [o \in Orders |-> "pending"]
  /\ payment = [o \in Orders |-> NoRow]
  /\ opening = [o \in Orders |-> "charge"]
  /\ charge = [o \in Orders |-> "none"]
  /\ notices = {}
  /\ acked = {}
  /\ pc = [w \in Workers |-> "idle"]
  /\ notice = [w \in Workers |-> AnyNotice]
  /\ entity = [w \in Workers |-> NoRow]
  /\ reloaded = [w \in Workers |-> NoRow]
  /\ late = [w \in Workers |-> FALSE]

(***************************************************************************)
(* createForOrder                                                          *)
(***************************************************************************)

\* provider.createTransaction succeeds.
CreateTransaction(o) ==
  /\ opening[o] = "charge"
  /\ charge' = [charge EXCEPT ![o] = "open"]
  /\ opening' = [opening EXCEPT ![o] = "save"]
  /\ UNCHANGED <<order, payment, notices, acked, handler>>

\* It throws, perhaps after the gateway has opened the charge: the catch
\* returns null, and nothing calls createForOrder for this order again.
ProviderFails(o) ==
  /\ opening[o] = "charge"
  /\ charge' \in {charge, [charge EXCEPT ![o] = "open"]}
  /\ opening' = [opening EXCEPT ![o] = "done"]
  /\ UNCHANGED <<order, payment, notices, acked, handler>>

SavePayment(o) ==
  /\ opening[o] = "save"
  /\ payment' = [payment EXCEPT ![o] = [status |-> "pending", raw |-> "created"]]
  /\ opening' = [opening EXCEPT ![o] = "done"]
  /\ UNCHANGED <<order, gateway, acked, handler>>

\* The save throws (caught, null), or the process dies in either stage.
OpeningFails(o) ==
  /\ opening[o] \in {"charge", "save"}
  /\ opening' = [opening EXCEPT ![o] = "done"]
  /\ UNCHANGED <<order, payment, gateway, acked, handler>>

(***************************************************************************)
(* The gateway                                                             *)
(***************************************************************************)

\* An attempt is pending, challenged, denied, cancelled or expired; the buyer
\* may try again on the same charge.
Attempt(o, result) ==
  /\ charge[o] = "open"
  /\ result \in {"failed", "neither"}
  /\ notices' = notices \cup {[order |-> o, result |-> result]}
  /\ UNCHANGED <<order, payment, opening, charge, acked, handler>>

Settle(o) ==
  /\ charge[o] = "open"
  /\ charge' = [charge EXCEPT ![o] = "settled"]
  /\ notices' = notices \cup {[order |-> o, result |-> "paid"]}
  /\ UNCHANGED <<order, payment, opening, acked, handler>>

(***************************************************************************)
(* handleWebhook                                                           *)
(***************************************************************************)

Goto(w, stage) == pc' = [pc EXCEPT ![w] = stage]

\* A notice arrives, for the first time or again.
Deliver(w, n) ==
  /\ pc[w] = "idle"
  /\ n \in notices
  /\ notice' = [notice EXCEPT ![w] = n]
  /\ late' = [late EXCEPT ![w] = order[n.order] = "paid"]
  /\ Goto(w, "find")
  /\ UNCHANGED <<order, payment, opening, gateway, acked, entity, reloaded>>

\* The handler is done with its request.
Finish(w) ==
  /\ pc' = [pc EXCEPT ![w] = "idle"]
  /\ entity' = [entity EXCEPT ![w] = NoRow]
  /\ reloaded' = [reloaded EXCEPT ![w] = NoRow]
  /\ late' = [late EXCEPT ![w] = FALSE]
  /\ notice' = [notice EXCEPT ![w] = AnyNotice]

\* The response is 200; unless it gets lost, the gateway need not repeat the
\* notice.
Reply(w) ==
  /\ acked' \in {acked, acked \cup {notice[w]}}
  /\ Finish(w)

\* Fault: a notice for which there is no payment row is answered with 200.
FindPaymentLenient(w) ==
  LET row == payment[notice[w].order] IN
    /\ pc[w] = "find"
    /\ \/ /\ row = NoRow
          /\ Reply(w)
       \/ /\ row # NoRow
          /\ entity' = [entity EXCEPT ![w] = row]
          /\ Goto(w, "check")
          /\ UNCHANGED <<acked, notice, reloaded, late>>
    /\ UNCHANGED <<order, payment, opening, gateway>>

\* paymentRepository.findOne: 404 if there is no row.
FindPayment(w) ==
  LET row == payment[notice[w].order] IN
    /\ pc[w] = "find"
    /\ \/ /\ row = NoRow
          /\ Finish(w)
       \/ /\ row # NoRow
          /\ entity' = [entity EXCEPT ![w] = row]
          /\ Goto(w, "check")
          /\ UNCHANGED <<notice, reloaded, late>>
    /\ UNCHANGED <<order, payment, opening, gateway, acked>>

\* Fault: the last branch is "else", not "else if (result.failed)".
NothingToDoUnlessPaid(w) == entity[w].status = "paid"

\* Fault: a failed payment is taken to be final.
NothingToDoOnceFailed(w) ==
  entity[w].status \in {"paid", "failed"} \/ notice[w].result = "neither"

\* Fault: there is no "else if (result.failed)" at all.
NothingToDoOnFailure(w) ==
  entity[w].status = "paid" \/ notice[w].result # "paid"

\* Nothing to apply: the entity is paid already, or the result says nothing.
NothingToDo(w) ==
  entity[w].status = "paid" \/ notice[w].result = "neither"

\* Fault: result.paid is not looked at.
CheckAnyResult(w) ==
  /\ pc[w] = "check"
  /\ \/ /\ NothingToDo(w)
        /\ Reply(w)
     \/ /\ ~NothingToDo(w)
        /\ entity' = [entity EXCEPT ![w] =
             [status |-> "paid", raw |-> notice[w].result]]
        /\ Goto(w, "reload")
        /\ UNCHANGED <<acked, notice, reloaded, late>>
  /\ UNCHANGED <<order, payment, opening, gateway>>

Check(w) ==
  /\ pc[w] = "check"
  /\ \/ /\ NothingToDo(w)
        /\ Reply(w)
     \/ /\ ~NothingToDo(w)
        /\ entity' = [entity EXCEPT ![w] =
             [status |-> notice[w].result, raw |-> notice[w].result]]
        /\ Goto(w, "reload")
        /\ UNCHANGED <<acked, notice, reloaded, late>>
  /\ UNCHANGED <<order, payment, opening, gateway>>

\* save: the SELECT.
Reload(w) ==
  /\ pc[w] = "reload"
  /\ reloaded' = [reloaded EXCEPT ![w] = payment[notice[w].order]]
  /\ Goto(w, "write")
  /\ UNCHANGED <<order, payment, opening, gateway, acked, notice, entity, late>>

\* A settling transaction that has updated the payment row holds it locked
\* until it commits.
RowLocked(o) == \E w \in Workers : /\ pc[w] = "commit"
                                   /\ notice[w].order = o
                                   /\ reloaded[w] # entity[w]

\* save: the row with the columns the entity differs in overwritten.
Saved(w) ==
  LET row == payment[notice[w].order]
      Column(new, read, old) == IF new # read THEN new ELSE old
  IN [status |-> Column(entity[w].status, reloaded[w].status, row.status),
      raw |-> Column(entity[w].raw, reloaded[w].raw, row.raw)]

\* Fault: the payment is saved outside the transaction that updates the order.
WriteOutsideTransaction(w) ==
  LET o == notice[w].order IN
    /\ pc[w] = "write"
    /\ payment' = [payment EXCEPT ![o] = Saved(w)]
    /\ \/ /\ entity[w].status = "failed"
          /\ Reply(w)
       \/ /\ entity[w].status = "paid"
          /\ Goto(w, "commit")
          /\ UNCHANGED <<acked, notice, entity, reloaded, late>>
    /\ UNCHANGED <<order, opening, gateway>>

\* save: the UPDATE, if there is anything to update.  A failed result is saved
\* in a transaction of its own and answered; a paid one goes on to the order.
\* What its transaction has written shows when it commits.
Write(w) ==
  LET o == notice[w].order IN
    /\ pc[w] = "write"
    /\ entity[w] # reloaded[w] => ~RowLocked(o)
    /\ \/ /\ entity[w].status = "failed"
          /\ payment' = [payment EXCEPT ![o] = Saved(w)]
          /\ Reply(w)
       \/ /\ entity[w].status = "paid"
          /\ Goto(w, "commit")
          /\ UNCHANGED <<payment, acked, notice, entity, reloaded, late>>
    /\ UNCHANGED <<order, opening, gateway>>

\* UPDATE order SET status = paid WHERE id AND status = pending, and COMMIT.
CommitSettlement(w) ==
  LET o == notice[w].order IN
    /\ pc[w] = "commit"
    /\ payment' = [payment EXCEPT ![o] = Saved(w)]
    /\ order' = [order EXCEPT ![o] = IF @ = "pending" THEN "paid" ELSE @]
    /\ Reply(w)
    /\ UNCHANGED <<opening, gateway>>

\* A statement fails or the process dies: no 2xx, and an open transaction is
\* rolled back.
Fail(w) ==
  /\ pc[w] # "idle"
  /\ Finish(w)
  /\ UNCHANGED <<order, payment, opening, gateway, acked>>

Handle(w) ==
  FindPayment(w) \/ Check(w) \/ Reload(w) \/ Write(w) \/ CommitSettlement(w)

Next ==
  \/ \E o \in Orders :
       \/ CreateTransaction(o) \/ ProviderFails(o)
       \/ SavePayment(o) \/ OpeningFails(o)
       \/ Settle(o)
       \/ \E result \in Results : Attempt(o, result)
  \/ \E w \in Workers :
       \/ \E n \in notices : Deliver(w, n)
       \/ Handle(w)
       \/ Fail(w)

Spec == Init /\ [][Next]_vars

\* The gateway repeats what was not acknowledged.
Redeliver(n) == n \notin acked /\ \E w \in Workers : Deliver(w, n)

\* A handler runs on unless it fails, the gateway repeats, and outages end.
Fairness ==
  /\ \A w \in Workers : WF_vars(Handle(w))
  /\ \A n \in Notice : SF_vars(Redeliver(n))
  /\ <>[][~ \E w \in Workers : Fail(w)]_vars

FairSpec == Spec /\ Fairness

(***************************************************************************)
(* Properties                                                              *)
(***************************************************************************)

\* Every variable holds values of its kind.
TypeOK ==
  /\ order \in [Orders -> OrderStatus]
  /\ payment \in [Orders -> Payment \cup {NoRow}]
  /\ opening \in [Orders -> {"charge", "save", "done"}]
  /\ charge \in [Orders -> {"none", "open", "settled"}]
  /\ notices \subseteq Notice
  /\ acked \subseteq notices
  /\ pc \in [Workers -> Stages]
  /\ notice \in [Workers -> Notice]
  /\ entity \in [Workers -> Payment \cup {NoRow}]
  /\ reloaded \in [Workers -> Payment \cup {NoRow}]
  /\ late \in [Workers -> BOOLEAN]

\* Nothing but a settlement makes an order paid, whatever is duplicated or
\* reordered.
PaidMeansSettled ==
  \A o \in Orders : order[o] = "paid" => charge[o] = "settled"

\* Payment and order are settled together: there is no moment, and no failure,
\* in which the payment is paid and its order is not.
SettledTogether ==
  \A o \in Orders :
    payment[o] # NoRow => (payment[o].status = "paid" => order[o] = "paid")

\* A settlement answered with 2xx has reached the order, so the gateway may
\* stop repeating it: none is acknowledged and lost.
AcknowledgedMeansApplied ==
  \A n \in acked : n.result = "paid" => order[n.order] = "paid"

\* If the buyer has paid and the order has a payment row, the order gets paid.
SettlementArrives ==
  \A o \in Orders :
    charge[o] = "settled" /\ payment[o] # NoRow ~> order[o] = "paid"

\* Payments implements Billing: the steps of all handlers, however they overlap
\* or fail, amount to notices applied whole, in one step and in some order, and
\* to answers that are due at that moment.
Account ==
  [o \in Orders |-> IF payment[o] = NoRow THEN "none" ELSE payment[o].status]

Abstract == INSTANCE Billing WITH account <- Account

ImplementsBilling == Abstract!Spec

\* "Re-delivering a webhook for an already-paid order is a no-op" (README.md):
\* a notice that comes in when its order is paid changes no payment row.
AlreadyPaidIsNoOp ==
  [][\A w \in Workers : late[w] /\ Handle(w) => UNCHANGED <<payment, order>>]_vars
=============================================================================
