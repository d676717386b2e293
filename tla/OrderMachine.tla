---------------------------- MODULE OrderMachine ----------------------------
(***************************************************************************)
(* What the order service promises about one order row, with every request *)
(* handler taken as one atomic step: a status only moves along the         *)
(* transition table, a move to cancelled or refunded settles the payment   *)
(* in the same step, and otherwise the payment changes only by itself.     *)
(* OrderLifecycle is shown to implement this module.                       *)
(***************************************************************************)

CONSTANT Orders         \* rows of the orders table

VARIABLES
  status,               \* orders.status, per order
  payment               \* orders.payment_status, per order

vars == <<status, payment>>

OrderStatus == {"pending", "confirmed", "preparing", "ready",
                "out_for_delivery", "delivered", "cancelled", "refunded"}

PaymentStatus == {"pending", "paid", "failed", "refunded",
                  "partially_refunded", "cancelled"}

CustomerCancelable == {"pending", "confirmed"}

AllowedTransitions ==
  [pending          |-> {"confirmed", "preparing", "cancelled"},
   confirmed        |-> {"preparing", "cancelled"},
   preparing        |-> {"ready", "cancelled"},
   ready            |-> {"out_for_delivery", "delivered", "cancelled"},
   out_for_delivery |-> {"delivered", "cancelled"},
   delivered        |-> {"refunded"},
   cancelled        |-> {"refunded"},
   refunded         |-> {}]

(* The payment status a row has after its status moved to s. *)
SettledPayment(s, p) ==
  IF s = "refunded" THEN "refunded"
  ELSE IF s = "cancelled" /\ p = "pending" THEN "cancelled"
  ELSE p

TypeOK ==
  /\ status \in [Orders -> OrderStatus]
  /\ payment \in [Orders -> PaymentStatus]

(* place_order inserts rows as pending, cash on delivery still to be paid. *)
Init ==
  /\ status = [o \in Orders |-> "pending"]
  /\ payment = [o \in Orders |-> "pending"]

Move(o, s) ==
  /\ s \in AllowedTransitions[status[o]]
  /\ status' = [status EXCEPT ![o] = s]
  /\ payment' = [payment EXCEPT ![o] = SettledPayment(s, @)]

SetPayment(o, p) ==
  /\ payment' = [payment EXCEPT ![o] = p]
  /\ UNCHANGED status

Next ==
  \E o \in Orders :
    \/ \E s \in OrderStatus : Move(o, s)
    \/ \E p \in PaymentStatus : SetPayment(o, p)

Spec == Init /\ [][Next]_vars

=============================================================================
