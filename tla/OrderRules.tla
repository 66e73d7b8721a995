----------------------------- MODULE OrderRules -----------------------------
(***************************************************************************)
(* The rules of the order life cycle, translated from OrderValidator       *)
(* (src/src/orders/orders.validator.ts): which status may follow which,    *)
(* and which updates a buyer or a seller may ask for.  Pure definitions;   *)
(* module Orders uses them in its handlers.                                *)
(***************************************************************************)

CONSTANT NoEscrow          \* the null of Order.escrowId

Status == {"Created", "Accepted", "Paid", "Shipped", "Delivered", "Disputed",
           "Refunded", "Closed", "Completed", "EscrowPaymentFailed"}

\* The statuses an update can ask for: the cases of the switch in
\* OrderService.update.  Any other one is answered with an error.
Targets == Status \ {"Created", "EscrowPaymentFailed"}

Party == {"buyer", "seller"}

activeStatusList == {"Created", "Accepted", "Paid", "Shipped", "Delivered",
                     "Disputed", "EscrowPaymentFailed"}

completedStatusList == {"Closed", "Refunded", "Completed"}

disputableStatusList == {"Paid", "Shipped", "Delivered"}

closeableStatusList == {"Created", "Accepted", "Paid"}

\* Mutant of validFrom: an accepted order may be shipped before it is paid
\* and accepted a second time.
validFrom_Lax == [Created   |-> {"Accepted", "Closed"},
                  Accepted  |-> {"Accepted", "Paid", "Shipped", "Closed"},
                  Paid      |-> {"Shipped", "Disputed", "Closed"},
                  Shipped   |-> {"Delivered", "Disputed"},
                  Delivered |-> {"Disputed", "Completed"},
                  Disputed  |-> {"Refunded", "Completed"}]

\* A status outside the domain has no successor: indexing validFrom with it
\* yields undefined and the call on it throws.
validFrom == [Created   |-> {"Accepted", "Closed"},
              Accepted  |-> {"Paid", "Closed"},
              Paid      |-> {"Shipped", "Disputed", "Closed"},
              Shipped   |-> {"Delivered", "Disputed"},
              Delivered |-> {"Disputed", "Completed"},
              Disputed  |-> {"Refunded", "Completed"}]

\* Mutant of CanMove: update does not check the target.
CanMove_Unchecked(from, to) == from \in DOMAIN validFrom

CanMove(from, to) == from \in DOMAIN validFrom /\ to \in validFrom[from]

\* Mutant of validateUpdate: validateForbiddenStatus is not called.
validateUpdate_NoForbidden(u, s, e, to) ==
  /\ s \in {"Created", "Accepted", "Paid", "Shipped", "Disputed"} => CanMove(s, to)
  /\ s = "Created" /\ u = "buyer" => to = "Closed"

\* The update guard of the public API lets party u ask an order that has
\* status s and escrow e for status `to'.  A Delivered order has no rule of
\* its own, and neither do the final statuses.  (A request to ship is taken
\* to carry its tracking number.)
validateUpdate(u, s, e, to) ==
  /\ to \notin {"Paid", "Refunded"}
  /\ to = "Closed" => s \in closeableStatusList
  /\ to = "Disputed" => s \in disputableStatusList
  /\ s \in {"Created", "Accepted", "Paid", "Shipped", "Disputed"} => CanMove(s, to)
  /\ s = "Created" /\ u = "buyer" => to = "Closed"
  /\ s = "Shipped" => e # NoEscrow /\ u # "seller"
  /\ s = "Disputed" => e # NoEscrow

\* What OrderService.update does in the end to an order it moves from s to
\* `to': a Paid order is never closed, handleOrderClosed refunds it instead.
Effective(s, to) == IF s = "Paid" /\ to = "Closed" THEN "Refunded" ELSE to

=============================================================================
