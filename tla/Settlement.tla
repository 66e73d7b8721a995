----------------------------- MODULE Settlement -----------------------------
(***************************************************************************)
(* What the order service promises about an order and its money when its   *)
(* handlers run one at a time: the money of an order takes one way, from   *)
(* the buyer through the escrow to the seller or back, and the status of   *)
(* the order never claims more than the money has done.                    *)
(*                                                                         *)
(* Module Orders implements it.                                            *)
(***************************************************************************)

CONSTANT Orders

VARIABLES
  status,   \* the status of the order
  money     \* where its money is; "void" once the escrow is closed unpaid

Money == {"none", "held", "seller", "buyer", "void"}

Init ==
  /\ status = [o \in Orders |-> "Created"]
  /\ money = [o \in Orders |-> "none"]

MoneyMoves(o, from, to) ==
  /\ money[o] = from
  /\ money' = [money EXCEPT ![o] = to]
  /\ UNCHANGED status

\* The buyer pays for an order that was accepted.
Hold(o) == status[o] = "Accepted" /\ MoneyMoves(o, "none", "held")

\* The seller is paid after delivery or at the end of a dispute.
PayOut(o) == status[o] \in {"Delivered", "Disputed"} /\ MoneyMoves(o, "held", "seller")

\* The buyer is paid back before shipment or at the end of a dispute.
PayBack(o) == status[o] \in {"Paid", "Disputed"} /\ MoneyMoves(o, "held", "buyer")

\* Nobody can pay any more.
Void(o) == status[o] = "Accepted" /\ MoneyMoves(o, "none", "void")

StatusMoves(o, from, to) ==
  /\ status[o] \in from
  /\ status' = [status EXCEPT ![o] = to]
  /\ UNCHANGED money

Accept(o)   == StatusMoves(o, {"Created"}, "Accepted")
Pay(o)      == money[o] = "held" /\ StatusMoves(o, {"Accepted"}, "Paid")
Ship(o)     == StatusMoves(o, {"Paid"}, "Shipped")
Deliver(o)  == StatusMoves(o, {"Shipped"}, "Delivered")
Dispute(o)  == StatusMoves(o, {"Paid", "Shipped", "Delivered"}, "Disputed")
Complete(o) == money[o] = "seller" /\ StatusMoves(o, {"Delivered", "Disputed"}, "Completed")
Refund(o)   == money[o] = "buyer" /\ StatusMoves(o, {"Paid", "Disputed"}, "Refunded")
Fail(o)     == StatusMoves(o, {"Paid", "Delivered", "Disputed"}, "EscrowPaymentFailed")

\* An order is closed before anybody has paid, and then nobody can.
Close(o) ==
  \/ StatusMoves(o, {"Created"}, "Closed")
  \/ money[o] = "void" /\ StatusMoves(o, {"Accepted"}, "Closed")

Next ==
  \E o \in Orders :
    \/ Hold(o) \/ PayOut(o) \/ PayBack(o) \/ Void(o)
    \/ Accept(o) \/ Pay(o) \/ Ship(o) \/ Deliver(o) \/ Dispute(o)
    \/ Complete(o) \/ Refund(o) \/ Fail(o) \/ Close(o)

Spec == Init /\ [][Next]_<<status, money>>
=============================================================================
