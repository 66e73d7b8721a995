------------------------------- MODULE Orders -------------------------------
(***************************************************************************)
(* The life of an order after it was created: OrderService.update with its *)
(* handlers (src/src/orders/orders.service.ts), the callers of update (the *)
(* public API behind its guard, the admin API, the ERBN webhook, the two   *)
(* jobs of CheckDeliveredOrdersTask) and what they drive in ERBN, the      *)
(* external escrow service.                                                *)
(*                                                                         *)
(* The back end is one Node process: a handler runs alone between two      *)
(* awaits and anything may happen at an await.  A handler is therefore a   *)
(* record, job[a], that remembers what it has read and where it waits, and *)
(* each action below is the code from one await to the next.  No write is  *)
(* conditional on what was read: prisma.order.update has only the id in    *)
(* its where clause.                                                       *)
(***************************************************************************)
EXTENDS Integers, FiniteSets, OrderRules

CONSTANTS
  Orders,        \* the ids of the orders
  Products,      \* the ids of the products
  ProductOf,     \* ProductOf[o], the product that o buys
  Quantity,      \* Quantity[o], how many of it
  EscrowIds,     \* the ids ERBN gives to escrows: bounds createEscrow
  Requests,      \* HTTP requests being served at the same time
  Tasks,         \* the cron jobs that are scheduled
  InitialStock,  \* the stock of a product once its orders are placed
  MaxMishaps,    \* bounds the crashes and the failing calls of the database
  Env            \* what else may happen, a subset of EnvEvents

EnvEvents ==
  {"overlap",      \* a request or a job starts while another one waits
   "lostReply",    \* ERBN does what it is asked for, the answer is lost
   "adminPaid",    \* an admin marks an order as Paid by hand
   "adminDelete"}  \* an admin deletes a product that still has orders

AllTasks == {"deliver", "complete"}

ASSUME OrdersAssumption ==
  /\ NoEscrow \notin EscrowIds
  /\ ProductOf \in [Orders -> Products]
  /\ Quantity \in [Orders -> Nat \ {0}]
  /\ Tasks \subseteq AllTasks
  /\ Requests \cap Tasks = {}
  /\ InitialStock \in Nat
  /\ MaxMishaps \in Nat
  /\ Env \subseteq EnvEvents

VARIABLES
  status,      \* Order.status
  escrowId,    \* Order.escrowId
  stamps,      \* which of acceptedAt, paidAt, ... are set, named by status
  stock,       \* Product.stock
  deleted,     \* the products with Product.deleted
  escrow,      \* the state of each escrow in ERBN
  escrowFor,   \* the order each escrow was created for
  acked,       \* the escrows whose payment ERBN has reported and had acknowledged
  job,         \* what each request and each cron job is doing
  batch,       \* the snapshots a cron job has still to work through
  mishaps      \* how often the process has crashed or the database failed it

orderRow == <<status, escrowId, stamps>>
productRow == <<stock, deleted>>
erbn == <<escrow, escrowFor, acked>>
vars == <<orderRow, productRow, erbn, job, batch, mishaps>>

-----------------------------------------------------------------------------
(***************************************************************************)
(* Data                                                                    *)
(***************************************************************************)

MaybeEscrow == EscrowIds \cup {NoEscrow}

EscrowState == {"none", "Open", "Funded", "Released", "Refunded", "Closed"}

Actors == Requests \cup Tasks

\* Where a handler waits: before it reads the order, for ERBN, for the
\* product it restocks, for the write of the stock, for the write of the order.
Waiting == {"read", "erbn", "product", "stock", "order"}

\* esc is the escrowId of the snapshot (of the answer, once createEscrow has
\* answered), paid tells whether the answer had a payoutHash, seen is the
\* stock that was read.
Job == [pc : Waiting, order : Orders, to : Targets, esc : MaybeEscrow,
        paid : BOOLEAN, seen : Int]

Idle == [pc |-> "idle"]

Busy(a) == job[a] # Idle

Request(o, to) == [pc |-> "read", order |-> o, to |-> to, esc |-> NoEscrow,
                   paid |-> FALSE, seen |-> 0]

\* Mutant of FirstAwait: handleOrderClosed does not close the escrow.
FirstAwait_NoClose(s, e, to) ==
  IF to \in {"Accepted", "Completed", "Refunded"} \/ (to = "Closed" /\ s = "Paid")
  THEN "erbn"
  ELSE IF to = "Closed" THEN "product" ELSE "order"

\* The first await of the handler that update dispatches to, for a snapshot
\* with status s and escrow e.
FirstAwait(s, e, to) ==
  IF \/ to \in {"Accepted", "Completed", "Refunded"}
     \/ to = "Closed" /\ (s = "Paid" \/ e # NoEscrow)
  THEN "erbn"
  ELSE IF to = "Closed" THEN "product" ELSE "order"

Dispatched(o, s, e, to) ==
  [pc |-> FirstAwait(s, e, to), order |-> o, to |-> Effective(s, to), esc |-> e,
   paid |-> FALSE, seen |-> 0]

\* Mutant of To: the first cron job asks for the status the order already has.
To_Same(t) == IF t = "deliver" THEN "Shipped" ELSE "Completed"

\* The cron jobs: the statuses they look for and the status they set.
From(t) == IF t = "deliver" THEN "Shipped" ELSE "Delivered"
To(t)   == IF t = "deliver" THEN "Delivered" ELSE "Completed"

TypeOK ==
  /\ status \in [Orders -> Status]
  /\ escrowId \in [Orders -> MaybeEscrow]
  /\ stamps \in [Orders -> SUBSET Status]
  /\ stock \in [Products -> Int]
  /\ deleted \in SUBSET Products
  /\ escrow \in [EscrowIds -> EscrowState]
  /\ escrowFor \in [EscrowIds -> SUBSET Orders]
  /\ acked \in SUBSET EscrowIds
  /\ job \in [Actors -> Job \cup {Idle}]
  /\ batch \in [Tasks -> SUBSET (Orders \X MaybeEscrow)]
  /\ mishaps \in Nat

\* The orders were created by createFromProduct or createFromOffer and the
\* products have given their quantities.
Init ==
  /\ status = [o \in Orders |-> "Created"]
  /\ escrowId = [o \in Orders |-> NoEscrow]
  /\ stamps = [o \in Orders |-> {}]
  /\ stock = [p \in Products |-> InitialStock]
  /\ deleted = {}
  /\ escrow = [e \in EscrowIds |-> "none"]
  /\ escrowFor = [e \in EscrowIds |-> {}]
  /\ acked = {}
  /\ job = [a \in Actors |-> Idle]
  /\ batch = [t \in Tasks |-> {}]
  /\ mishaps = 0

-----------------------------------------------------------------------------
(***************************************************************************)
(* Requests and cron jobs start                                            *)
(***************************************************************************)

Quiet == (\A a \in Actors : ~Busy(a)) /\ (\A t \in Tasks : batch[t] = {})

MayStart(a) == ~Busy(a) /\ ("overlap" \in Env \/ Quiet)

\* PATCH /orders/:id by a party: the guard reads the order and validates the
\* update; the handler reads it again.
PartyPatch(r, o, u, to) ==
  /\ MayStart(r)
  /\ validateUpdate(u, status[o], escrowId[o], to)
  /\ job' = [job EXCEPT ![r] = Request(o, to)]
  /\ UNCHANGED <<orderRow, productRow, erbn, batch, mishaps>>

\* PATCH /admin/orders/:id: no validator stands before update.
AdminPatch(r, o, to) ==
  /\ MayStart(r)
  /\ to = "Paid" => "adminPaid" \in Env
  /\ job' = [job EXCEPT ![r] = Request(o, to)]
  /\ UNCHANGED <<orderRow, productRow, erbn, batch, mishaps>>

\* Mutant of EscrowPaid: the event handler asks for the wrong status.
EscrowPaid_Accepted(r, o, e) ==
  /\ MayStart(r)
  /\ escrow[e] \in {"Funded", "Released", "Refunded"}
  /\ escrowId[o] = e
  /\ job' = [job EXCEPT ![r] = Request(o, "Accepted")]
  /\ acked' = acked \cup {e}
  /\ UNCHANGED <<orderRow, productRow, escrow, escrowFor, batch, mishaps>>

\* ERBN reports that e was paid, late or repeatedly.  The controller emits an
\* event and acknowledges the call at once; handleEscrowPaidEvent then looks
\* the order up by its escrow and calls update with its id.  (A report of an
\* escrow that no order shows is logged and changes nothing.)
EscrowPaid(r, o, e) ==
  /\ MayStart(r)
  /\ escrow[e] \in {"Funded", "Released", "Refunded"}
  /\ escrowId[o] = e
  /\ job' = [job EXCEPT ![r] = Request(o, "Paid")]
  /\ acked' = acked \cup {e}
  /\ UNCHANGED <<orderRow, productRow, escrow, escrowFor, batch, mishaps>>

\* Mutant of ReadOrder: update does not check validFrom.
ReadOrder_Unchecked(r) ==
  /\ job[r].pc = "read"
  /\ LET o == job[r].order
     IN job' = [job EXCEPT ![r] = Dispatched(o, status[o], escrowId[o], job[r].to)]
  /\ UNCHANGED <<orderRow, productRow, erbn, batch, mishaps>>

\* update reads the order, checks validFrom and calls the handler.
ReadOrder(r) ==
  /\ job[r].pc = "read"
  /\ LET o == job[r].order
         to == job[r].to
     IN job' = [job EXCEPT ![r] =
                  IF CanMove(status[o], to)
                  THEN Dispatched(o, status[o], escrowId[o], to)
                  ELSE Idle]
  /\ UNCHANGED <<orderRow, productRow, erbn, batch, mishaps>>

\* Mutant of CronScan: the filter on the escrow is inverted.
CronScan_NoEscrow(t, due) ==
  /\ MayStart(t)
  /\ batch[t] = {}
  /\ due # {}
  /\ \A o \in due : status[o] = From(t) /\ (t = "complete" => escrowId[o] = NoEscrow)
  /\ batch' = [batch EXCEPT ![t] = {<<o, escrowId[o]>> : o \in due}]
  /\ UNCHANGED <<orderRow, productRow, erbn, job, mishaps>>

\* A cron job reads the orders in its status and keeps those whose period is
\* over: any nonempty subset, since only time decides.
CronScan(t, due) ==
  /\ MayStart(t)
  /\ batch[t] = {}
  /\ due # {}
  /\ \A o \in due : status[o] = From(t) /\ (t = "complete" => escrowId[o] # NoEscrow)
  /\ batch' = [batch EXCEPT ![t] = {<<o, escrowId[o]>> : o \in due}]
  /\ UNCHANGED <<orderRow, productRow, erbn, job, mishaps>>

\* It then hands one snapshot after the other to update, which reads nothing
\* again when it is given an Order: validFrom is checked on the snapshot.
CronUpdate(t, o, e) ==
  /\ ~Busy(t)
  /\ <<o, e>> \in batch[t]
  /\ batch' = [batch EXCEPT ![t] = @ \ {<<o, e>>}]
  /\ job' = [job EXCEPT ![t] =
               IF CanMove(From(t), To(t)) THEN Dispatched(o, From(t), e, To(t)) ELSE Idle]
  /\ UNCHANGED <<orderRow, productRow, erbn, mishaps>>

-----------------------------------------------------------------------------
(***************************************************************************)
(* Handlers at ERBN.  A call that is answered continues; one that throws   *)
(* (no connection, an error status) ends the handler with nothing written. *)
(***************************************************************************)

\* The answer reaches the handler, or, with a lost reply, the handler fails.
Answered(a, j) ==
  \/ job' = [job EXCEPT ![a] = j]
  \/ "lostReply" \in Env /\ job' = [job EXCEPT ![a] = Idle]

AtErbn(a, to) == job[a].pc = "erbn" /\ job[a].to = to

\* handleOrderAccepted: the product, the price, then a new escrow.
CreateEscrow(a, e) ==
  /\ AtErbn(a, "Accepted")
  /\ ProductOf[job[a].order] \notin deleted
  /\ escrow[e] = "none"
  /\ escrow' = [escrow EXCEPT ![e] = "Open"]
  /\ escrowFor' = [escrowFor EXCEPT ![e] = {job[a].order}]
  /\ Answered(a, [job[a] EXCEPT !.pc = "order", !.esc = e])
  /\ UNCHANGED <<orderRow, productRow, acked, batch, mishaps>>

\* handleOrderCompleted: ERBN pays the seller out of a funded escrow ...
ReleaseEscrow(a) ==
  /\ AtErbn(a, "Completed")
  /\ LET e == job[a].esc
     IN  /\ e \in EscrowIds
         /\ escrow[e] = "Funded"
         /\ escrow' = [escrow EXCEPT ![e] = "Released"]
  /\ Answered(a, [job[a] EXCEPT !.pc = "order", !.paid = TRUE])
  /\ UNCHANGED <<orderRow, productRow, escrowFor, acked, batch, mishaps>>

\* Mutant of RefundEscrow: handleOrderRefunded does not restock.
RefundEscrow_NoRestock(a) ==
  /\ AtErbn(a, "Refunded")
  /\ LET e == job[a].esc
     IN  /\ e \in EscrowIds
         /\ escrow[e] = "Funded"
         /\ escrow' = [escrow EXCEPT ![e] = "Refunded"]
  /\ Answered(a, [job[a] EXCEPT !.pc = "order", !.paid = TRUE])
  /\ UNCHANGED <<orderRow, productRow, escrowFor, acked, batch, mishaps>>

\* handleOrderRefunded: ... or the buyer.
RefundEscrow(a) ==
  /\ AtErbn(a, "Refunded")
  /\ LET e == job[a].esc
     IN  /\ e \in EscrowIds
         /\ escrow[e] = "Funded"
         /\ escrow' = [escrow EXCEPT ![e] = "Refunded"]
  /\ Answered(a, [job[a] EXCEPT !.pc = "product", !.paid = TRUE])
  /\ UNCHANGED <<orderRow, productRow, escrowFor, acked, batch, mishaps>>

\* ERBN answers without a payoutHash: nothing was paid.
NoPayout(a) ==
  /\ AtErbn(a, "Completed") \/ AtErbn(a, "Refunded")
  /\ job' = [job EXCEPT ![a].pc = IF job[a].to = "Completed" THEN "order" ELSE "product"]
  /\ UNCHANGED <<orderRow, productRow, erbn, batch, mishaps>>

\* handleOrderClosed: ERBN closes an escrow nobody has paid into; closing it
\* again does no harm.
CloseEscrow(a) ==
  /\ AtErbn(a, "Closed")
  /\ LET e == job[a].esc
     IN  /\ e \in EscrowIds
         /\ escrow[e] \in {"Open", "Closed"}
         /\ escrow' = [escrow EXCEPT ![e] = "Closed"]
  /\ Answered(a, [job[a] EXCEPT !.pc = "product"])
  /\ UNCHANGED <<orderRow, productRow, escrowFor, acked, batch, mishaps>>

\* A call throws and takes its handler with it: ERBN may do so at any time,
\* the database a bounded number of times.
Throws(a) ==
  /\ Busy(a)
  /\ \/ job[a].pc = "erbn" /\ UNCHANGED mishaps
     \/ job[a].pc # "erbn" /\ mishaps < MaxMishaps /\ mishaps' = mishaps + 1
  /\ job' = [job EXCEPT ![a] = Idle]
  /\ UNCHANGED <<orderRow, productRow, erbn, batch>>

-----------------------------------------------------------------------------
(***************************************************************************)
(* Handlers at the database                                                *)
(***************************************************************************)

\* restockOrder reads the product; one that was deleted is not found ...
ReadProduct(a) ==
  /\ job[a].pc = "product"
  /\ LET p == ProductOf[job[a].order]
     IN job' = [job EXCEPT ![a] =
                  IF p \in deleted THEN Idle
                  ELSE [@ EXCEPT !.pc = "stock", !.seen = stock[p]]]
  /\ UNCHANGED <<orderRow, productRow, erbn, batch, mishaps>>

\* ... and sets the stock to what it read plus the quantity.
Restock(a) ==
  /\ job[a].pc = "stock"
  /\ LET o == job[a].order
     IN stock' = [stock EXCEPT ![ProductOf[o]] = job[a].seen + Quantity[o]]
  /\ job' = [job EXCEPT ![a] = [@ EXCEPT !.pc = "order", !.seen = 0]]
  /\ UNCHANGED <<orderRow, deleted, erbn, batch, mishaps>>

\* Mutants of Written: the payoutHash is not looked at, or the test on it is
\* inverted.
Written_Trusting(j) == j.to

Written_Inverted(j) ==
  IF j.to \in {"Completed", "Refunded"} /\ j.paid THEN "EscrowPaymentFailed" ELSE j.to

\* The status a handler writes: without a payoutHash the payment has failed.
Written(j) ==
  IF j.to \in {"Completed", "Refunded"} /\ ~j.paid
  THEN "EscrowPaymentFailed"
  ELSE j.to

\* A second nested create of the order's dispute breaks Dispute.orderId's
\* uniqueness and takes the whole update with it.
DisputeExists(o) == "Disputed" \in stamps[o]

\* Mutant of WriteOrder: the escrow of an accepted order is not stored.
WriteOrder_NoEscrow(a) ==
  /\ job[a].pc = "order"
  /\ job' = [job EXCEPT ![a] = Idle]
  /\ LET o == job[a].order
         s == Written(job[a])
     IN IF s = "Disputed" /\ DisputeExists(o)
        THEN UNCHANGED orderRow
        ELSE /\ status' = [status EXCEPT ![o] = s]
             /\ stamps' = [stamps EXCEPT ![o] = @ \cup {s}]
             /\ UNCHANGED escrowId
  /\ UNCHANGED <<productRow, erbn, batch, mishaps>>

\* The update of the order that ends every handler: the status, its
\* timestamp and, for Accepted, the escrow.  What follows the write (notify,
\* the exception after a failed payment) changes no state of this module.
WriteOrder(a) ==
  /\ job[a].pc = "order"
  /\ job' = [job EXCEPT ![a] = Idle]
  /\ LET j == job[a]
         o == j.order
         s == Written(j)
     IN IF s = "Disputed" /\ DisputeExists(o)
        THEN UNCHANGED orderRow
        ELSE /\ status' = [status EXCEPT ![o] = s]
             /\ stamps' = [stamps EXCEPT ![o] = @ \cup {s}]
             /\ escrowId' = IF s = "Accepted" THEN [escrowId EXCEPT ![o] = j.esc]
                                              ELSE escrowId
  /\ UNCHANGED <<productRow, erbn, batch, mishaps>>

-----------------------------------------------------------------------------
(***************************************************************************)
(* The world outside the handlers                                          *)
(***************************************************************************)

\* The buyer pays to the escrow address the order shows.
BuyerPays(o, e) ==
  /\ escrowId[o] = e
  /\ escrow[e] = "Open"
  /\ escrow' = [escrow EXCEPT ![e] = "Funded"]
  /\ UNCHANGED <<orderRow, productRow, escrowFor, acked, job, batch, mishaps>>

\* DELETE /admin/products/:id does not look for orders.
AdminDeletesProduct(p) ==
  /\ "adminDelete" \in Env
  /\ deleted' = deleted \cup {p}
  /\ UNCHANGED <<orderRow, stock, erbn, job, batch, mishaps>>

\* The process dies and is restarted: everything in memory is lost.
Crash ==
  /\ mishaps < MaxMishaps
  /\ ~Quiet
  /\ mishaps' = mishaps + 1
  /\ job' = [a \in Actors |-> Idle]
  /\ batch' = [t \in Tasks |-> {}]
  /\ UNCHANGED <<orderRow, productRow, erbn>>

-----------------------------------------------------------------------------
(***************************************************************************)
(* The specification                                                       *)
(***************************************************************************)

Start ==
  \/ \E r \in Requests, o \in Orders, to \in Targets :
        \/ \E u \in Party : PartyPatch(r, o, u, to)
        \/ AdminPatch(r, o, to)
  \/ \E r \in Requests, o \in Orders, e \in EscrowIds : EscrowPaid(r, o, e)
  \/ \E t \in Tasks, due \in SUBSET Orders : CronScan(t, due)
  \/ \E t \in Tasks, o \in Orders, e \in MaybeEscrow : CronUpdate(t, o, e)

Continue(a) ==
  \/ ReadOrder(a)
  \/ \E e \in EscrowIds : CreateEscrow(a, e)
  \/ ReleaseEscrow(a)
  \/ RefundEscrow(a)
  \/ NoPayout(a)
  \/ CloseEscrow(a)
  \/ Throws(a)
  \/ ReadProduct(a)
  \/ Restock(a)
  \/ WriteOrder(a)

Outside ==
  \/ \E o \in Orders, e \in EscrowIds : BuyerPays(o, e)
  \/ \E p \in Products : AdminDeletesProduct(p)
  \/ Crash

Next == Start \/ (\E a \in Actors : Continue(a)) \/ Outside

Spec == Init /\ [][Next]_vars
-----------------------------------------------------------------------------
(***************************************************************************)
(* Fairness.  Node runs every continuation and a cron job works through    *)
(* its batch.  A job is started again after every run and every period     *)
(* ends, so an order that keeps its status is found due; ERBN's outages    *)
(* end, so a job that keeps asking is answered.  ERBN reports a payment    *)
(* until the report is acknowledged, and no longer: what becomes of the    *)
(* event after that is this code's affair.  Users and admins may do        *)
(* nothing at all.                                                         *)
(***************************************************************************)

ErbnAnswers(a) == (ReleaseEscrow(a) \/ NoPayout(a)) /\ job'[a] # Idle

Fairness ==
  /\ \A a \in Actors : WF_vars(Continue(a))
  /\ \A t \in Tasks :
       /\ WF_vars(\E o \in Orders, e \in MaybeEscrow : CronUpdate(t, o, e))
       /\ SF_vars(ErbnAnswers(t))
       /\ \A o \in Orders :
            SF_vars(\E due \in SUBSET Orders : o \in due /\ CronScan(t, due))
  /\ \A o \in Orders, e \in EscrowIds :
       SF_vars(e \notin acked /\ \E r \in Requests : EscrowPaid(r, o, e))

FairSpec == Spec /\ Fairness

-----------------------------------------------------------------------------
(***************************************************************************)
(* Properties that hold whatever overlaps, crashes or is lost              *)
(***************************************************************************)

\* The timestamps an order in status s must have: those of the statuses it
\* cannot have got around.
Milestones ==
  [Created   |-> {},
   Accepted  |-> {"Accepted"},
   Paid      |-> {"Accepted", "Paid"},
   Shipped   |-> {"Accepted", "Paid", "Shipped"},
   Delivered |-> {"Accepted", "Paid", "Shipped", "Delivered"},
   Disputed  |-> {"Accepted", "Paid", "Disputed"},
   Refunded  |-> {"Accepted", "Paid", "Refunded"},
   Closed    |-> {"Closed"},
   Completed |-> {"Accepted", "Paid", "Completed"},
   EscrowPaymentFailed |-> {"Accepted", "Paid", "EscrowPaymentFailed"}]

\* No interleaving of stale handlers lets an order skip a stage: whatever its
\* status, the timestamps of the stages on the way to it are set.  The cron
\* filters rely on it (shippedAt, deliveredAt), and so does the monthly total
\* (acceptedAt).
MilestonesReached == \A o \in Orders : Milestones[status[o]] \subseteq stamps[o]

Owns(o, e) == e \in EscrowIds /\ o \in escrowFor[e]

\* An order past acceptance has an escrow and it was created for this very
\* order; the handlers never release or refund a null or a foreign escrow.
EscrowKnown ==
  /\ \A o \in Orders : status[o] \notin {"Created", "Closed"} => Owns(o, escrowId[o])
  /\ \A a \in Actors :
       job[a].pc = "erbn" /\ job[a].to \in {"Completed", "Refunded"}
         => Owns(job[a].order, job[a].esc)

\* Money leaves an escrow only for a reason: the seller gets it when the
\* order was delivered or disputed, the buyer gets it back when it was paid.
PayoutsEarned ==
  \A o \in Orders, e \in EscrowIds : Owns(o, e) =>
    /\ escrow[e] = "Released" =>
         {"Accepted", "Paid"} \subseteq stamps[o] /\ {"Delivered", "Disputed"} \cap stamps[o] # {}
    /\ escrow[e] = "Refunded" => {"Accepted", "Paid"} \subseteq stamps[o]

\* An order says Completed, or Refunded, only when ERBN has paid the seller,
\* or the buyer, out of an escrow of that order.
SettlementBacked ==
  \A o \in Orders :
    /\ status[o] = "Completed" => \E e \in EscrowIds : Owns(o, e) /\ escrow[e] = "Released"
    /\ status[o] = "Refunded" => \E e \in EscrowIds : Owns(o, e) /\ escrow[e] = "Refunded"

\* The buyer has paid into an escrow of the order, whatever became of it.
PaidInto == {"Funded", "Released", "Refunded"}

BuyerPaid(o) == \E e \in EscrowIds : Owns(o, e) /\ escrow[e] \in PaidInto

\* Unless an admin says so by hand, an order has a payment date only when the
\* buyer has paid into one of its escrows.
PaidByBuyer ==
  "adminPaid" \notin Env => \A o \in Orders : "Paid" \in stamps[o] => BuyerPaid(o)

-----------------------------------------------------------------------------
(***************************************************************************)
(* Properties that need the handlers to run one at a time                  *)
(***************************************************************************)

\* Some update may still be asked for.
Movable(o) == \E to \in Targets : CanMove(status[o], to)

\* The buyer's money gets stranded in one way only: ERBN has answered a payout
\* without a hash, and update refuses the order from then on, its status being
\* none that validFrom knows.  Any other funded escrow is the current one of
\* an order that somebody can still move on.
StrandedOnlyByFailedPayout ==
  \A o \in Orders, e \in EscrowIds : Owns(o, e) /\ escrow[e] = "Funded" =>
    escrowId[o] = e /\ (Movable(o) \/ status[o] = "EscrowPaymentFailed")

\* The buyer never pays twice for an order.
PaidOnce ==
  \A o \in Orders : \A e, f \in EscrowIds :
    /\ Owns(o, e) /\ escrow[e] \in PaidInto
    /\ Owns(o, f) /\ escrow[f] \in PaidInto
    => e = f

\* Between handlers the order tells what became of the money: a payout that
\* happened is recorded.
PayoutRecorded ==
  Quiet => \A o \in Orders, e \in EscrowIds : Owns(o, e) =>
    /\ escrow[e] = "Released" => status[o] = "Completed"
    /\ escrow[e] = "Refunded" => status[o] = "Refunded"

\* The cron job that delivers orders leaves a disputed order alone.
CronSparesDisputed ==
  [][\A o \in Orders : status[o] = "Disputed" => status'[o] # "Delivered"]_vars

-----------------------------------------------------------------------------
(***************************************************************************)
(* Liveness                                                                *)
(***************************************************************************)

\* An order does not stay Shipped for ever, even if nobody does anything:
\* the first cron job delivers it.
ShippedMovesOn == \A o \in Orders : status[o] = "Shipped" ~> status[o] # "Shipped"

\* Nor does it stay Delivered: the second cron job asks ERBN to pay the
\* seller, and writes that it did or that it did not.
DeliveredSettles == \A o \in Orders : status[o] = "Delivered" ~> status[o] # "Delivered"

\* The event of escrow e was acknowledged, its listener has died, and nobody
\* else is about to mark order o as Paid.
EventLost(o, e) ==
  /\ mishaps > 0
  /\ e \in acked
  /\ ~ \E a \in Actors : Busy(a) /\ job[a].order = o /\ job[a].to = "Paid"

\* A payment into the escrow of an accepted order is noticed, and the order
\* moves on, unless it gets another escrow meanwhile (by an acceptance that
\* overlaps).  What can come between is the early acknowledgement alone: an
\* event whose listener dies is gone.
PaymentNoticed ==
  \A o \in Orders, e \in EscrowIds :
    status[o] = "Accepted" /\ escrowId[o] = e /\ escrow[e] = "Funded"
      ~> status[o] # "Accepted" \/ escrowId[o] # e \/ EventLost(o, e)
-----------------------------------------------------------------------------
(***************************************************************************)
(* The inductive invariant behind the first group of properties.  A stale  *)
(* handler is harmless as far as they go because what made its update      *)
(* legal when it read the order can only have become more true: timestamps *)
(* are never taken back, an escrow keeps its order, and ERBN never takes   *)
(* a payout back.                                                          *)
(***************************************************************************)

\* The timestamps that allow an update to status s.
Prior(s) == Milestones[s] \ {s}

DeliveredOrDisputed(o) == {"Delivered", "Disputed"} \cap stamps[o] # {}

\* What a row of the order table says about itself and about ERBN.
RowInv ==
  \A o \in Orders :
    /\ Milestones[status[o]] \subseteq stamps[o]
    /\ "Accepted" \in stamps[o] => escrowId[o] # NoEscrow
    /\ escrowId[o] # NoEscrow => Owns(o, escrowId[o])
    /\ status[o] = "Completed" => \E e \in EscrowIds : Owns(o, e) /\ escrow[e] = "Released"
    /\ status[o] = "Refunded" => \E e \in EscrowIds : Owns(o, e) /\ escrow[e] = "Refunded"

\* What a handler past its read may rely on.
HandlerInv(j) ==
  /\ Prior(j.to) \subseteq stamps[j.order]
  /\ j.to = "Completed" => DeliveredOrDisputed(j.order)
  /\ j.to \in {"Completed", "Refunded"} => Owns(j.order, j.esc)
  /\ j.to = "Accepted" /\ j.pc # "erbn" => Owns(j.order, j.esc)
  /\ j.to = "Completed" /\ j.paid => escrow[j.esc] = "Released"
  /\ j.to = "Refunded" /\ j.paid => escrow[j.esc] = "Refunded"

JobInv == \A a \in Actors : Busy(a) /\ job[a].pc # "read" => HandlerInv(job[a])

BatchInv ==
  \A t \in Tasks, o \in Orders, e \in MaybeEscrow : <<o, e>> \in batch[t] =>
    /\ Milestones[From(t)] \subseteq stamps[o]
    /\ t = "complete" => Owns(o, e)

\* An escrow belongs to at most one order, and to none before it exists.
EscrowInv ==
  \A e \in EscrowIds :
    /\ escrow[e] = "none" => escrowFor[e] = {}
    /\ \A o, q \in escrowFor[e] : o = q

IInv == TypeOK /\ RowInv /\ JobInv /\ BatchInv /\ EscrowInv /\ PayoutsEarned

\* Beside it, for PaidByBuyer: an update to Paid was asked for by ERBN, which
\* reports what it has seen.
NoticesBacked ==
  "adminPaid" \notin Env =>
    \A a \in Actors : Busy(a) /\ job[a].to = "Paid" => BuyerPaid(job[a].order)
=============================================================================
