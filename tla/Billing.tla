------------------------------- MODULE Billing -------------------------------
(***************************************************************************)
(* What the payment code promises, with no handlers, entities or           *)
(* transactions: a notice of the gateway is applied in ONE step, together  *)
(* with the answer to it, or is answered without effect because it does    *)
(* not matter any more.                                                    *)
(*                                                                         *)
(* It promises no more than the code keeps: a failed attempt that was      *)
(* notified may be entered over a settlement (Decline has no such guard),  *)
(* but the order stays paid.                                               *)
(***************************************************************************)
CONSTANT Orders

VARIABLES
  order,    \* is it paid?
  account,  \* what the shop has entered for it, "none" before there is a bill
  notices,  \* what the gateway has notified
  acked     \* the notices answered with 2xx

vars == <<order, account, notices, acked>>

Notice == [order : Orders, result : {"paid", "failed", "neither"}]

Init ==
  /\ order = [o \in Orders |-> "pending"]
  /\ account = [o \in Orders |-> "none"]
  /\ notices = {}
  /\ acked = {}

Bill(o) ==
  /\ account[o] = "none"
  /\ account' = [account EXCEPT ![o] = "pending"]
  /\ UNCHANGED <<order, notices, acked>>

Notify(n) ==
  /\ notices' = notices \cup {n}
  /\ UNCHANGED <<order, account, acked>>

\* Only a notice of an order that has a bill is answered, and the answer may
\* get lost.
Answer(n) ==
  /\ n \in notices
  /\ account[n.order] # "none"
  /\ acked' \in {acked, acked \cup {n}}

\* Order and account are settled in one step.
Pay(n) ==
  /\ n.result = "paid"
  /\ Answer(n)
  /\ order' = [order EXCEPT ![n.order] = "paid"]
  /\ account' = [account EXCEPT ![n.order] = "paid"]
  /\ UNCHANGED notices

Decline(n) ==
  /\ n.result = "failed"
  /\ Answer(n)
  /\ account' = [account EXCEPT ![n.order] = "failed"]
  /\ UNCHANGED <<order, notices>>

\* The notice says nothing, or nothing that matters to an order that is paid.
Dismiss(n) ==
  /\ n.result = "neither" \/ order[n.order] = "paid"
  /\ Answer(n)
  /\ UNCHANGED <<order, account, notices>>

Next ==
  \/ \E o \in Orders : Bill(o)
  \/ \E n \in Notice : Notify(n) \/ Pay(n) \/ Decline(n) \/ Dismiss(n)

Spec == Init /\ [][Next]_vars
=============================================================================
