---------------------------- MODULE OrdersSerial ----------------------------
(***************************************************************************)
(* Orders with handlers that run one at a time ("overlap" is not in Env):  *)
(* why nothing a handler has read is stale then, what that makes of the    *)
(* money and of the stock, and how Orders implements Settlement.           *)
(***************************************************************************)
EXTENDS Orders, Functions

\* A table has finitely many rows.
ASSUME FiniteOrders == IsFiniteSet(Orders)

-----------------------------------------------------------------------------
(***************************************************************************)
(* The stock                                                               *)
(***************************************************************************)

Ordered(p, set) == SumFunctionOnSet(Quantity, {o \in set : ProductOf[o] = p})

Returned == {"Closed", "Refunded"}

\* The pieces of a closed or refunded order go back to the stock once: the
\* stock is what is left after the orders were placed plus what came back.
\* (A failed payment comes from a refund, which restocks, or from a release,
\* which does not; a handler may stand between the stock and the order.)
StockConserved ==
  LET back == {o \in Orders : status[o] \in Returned}
      maybe == back \cup {o \in Orders : status[o] = "EscrowPaymentFailed"}
                    \cup {job[a].order : a \in {b \in Actors : Busy(b)}}
  IN \A p \in Products :
       /\ stock[p] >= InitialStock + Ordered(p, back)
       /\ stock[p] <= InitialStock + Ordered(p, maybe)

-----------------------------------------------------------------------------
(***************************************************************************)
(* The refinement                                                          *)
(***************************************************************************)

\* Where the money of an order is, seen from its current escrow.
MoneyIn(state) ==
  CASE state = "Funded"   -> "held"
    [] state = "Released" -> "seller"
    [] state = "Refunded" -> "buyer"
    [] state = "Closed"   -> "void"
    [] OTHER              -> "none"

MoneyOf(o) == IF escrowId[o] = NoEscrow THEN "none" ELSE MoneyIn(escrow[escrowId[o]])

Promise == INSTANCE Settlement WITH money <- [o \in Orders |-> MoneyOf(o)]

\* Run one at a time, the handlers implement Settlement, even when ERBN's
\* answers are lost, the process crashes between two awaits, or the product
\* of an open order is deleted.
ImplementsSettlement == Promise!Spec

-----------------------------------------------------------------------------
(***************************************************************************)
(* The inductive invariant of handlers that run one at a time.  It holds   *)
(* beside IInv, and says more: what made an update legal when the order    *)
(* was read is not only true of the timestamps, it is still the status.    *)
(***************************************************************************)

\* One request, or one cron job with its batch, is at work.
OneAtATime ==
  /\ \A a, b \in Actors : Busy(a) /\ Busy(b) => a = b
  /\ \A t \in Tasks, a \in Actors : batch[t] # {} /\ Busy(a) => a = t
  /\ \A t, u \in Tasks : batch[t] # {} /\ batch[u] # {} => t = u

\* The statuses from which validFrom, and handleOrderClosed for a paid order,
\* lead to each status.
Before ==
  [Accepted  |-> {"Created"},
   Paid      |-> {"Accepted"},
   Shipped   |-> {"Paid"},
   Delivered |-> {"Shipped"},
   Disputed  |-> {"Paid", "Shipped", "Delivered"},
   Refunded  |-> {"Paid", "Disputed"},
   Closed    |-> {"Created", "Accepted"},
   Completed |-> {"Delivered", "Disputed"}]

\* What a handler past its read has read is so: the status, the escrow
\* (unless it has just created a new one) and the stock.
FreshJob(j) ==
  /\ status[j.order] \in Before[j.to]
  /\ j.to # "Accepted" => j.esc = escrowId[j.order]
  /\ j.to = "Accepted" /\ j.pc # "erbn" => escrow[j.esc] = "Open"
  /\ j.to = "Closed" /\ j.pc # "erbn" /\ j.esc # NoEscrow => escrow[j.esc] = "Closed"
  /\ j.pc = "erbn" => ~j.paid
  /\ j.pc \in {"product", "stock"} => j.to \in Returned
  /\ j.pc = "stock" => j.seen = stock[ProductOf[j.order]]

JobFresh == \A a \in Actors : Busy(a) /\ job[a].pc # "read" => FreshJob(job[a])

\* So are the snapshots of a cron job, except the one it is working on.
BatchFresh ==
  \A t \in Tasks, o \in Orders, e \in MaybeEscrow : <<o, e>> \in batch[t] =>
    /\ status[o] = From(t)
    /\ escrowId[o] = e
    /\ Busy(t) => job[t].order # o

\* An order is accepted once, and what it closes nobody can pay into.
RowFresh ==
  \A o \in Orders :
    /\ status[o] = "Created" => stamps[o] = {} /\ escrowId[o] = NoEscrow
    /\ status[o] = "Accepted" => stamps[o] = {"Accepted"}
    /\ status[o] = "Closed" /\ escrowId[o] # NoEscrow => escrow[escrowId[o]] = "Closed"

\* Money is only ever in, or was in, the escrow the order shows.
MoneyFollows ==
  \A o \in Orders, e \in EscrowIds : Owns(o, e) /\ escrow[e] \in PaidInto => escrowId[o] = e

SerialInv == OneAtATime /\ JobFresh /\ BatchFresh /\ RowFresh /\ MoneyFollows

-----------------------------------------------------------------------------
(***************************************************************************)
(* Two invariants of runs without failures on top of it                    *)
(***************************************************************************)

\* Handler a has ERBN's word that it paid order o out, as status s.
PaysOut(a, o, s) ==
  Busy(a) /\ job[a].order = o /\ job[a].to = s /\ job[a].paid /\ job[a].pc # "read"

\* The status that records what became of an escrow.
Record(state) == IF state = "Released" THEN "Completed" ELSE "Refunded"

\* A payout is recorded, or the handler that asked for it is about to.
PayoutInv ==
  /\ deleted = {}
  /\ \A o \in Orders, e \in EscrowIds : Owns(o, e) /\ escrow[e] \in {"Released", "Refunded"} =>
       \/ status[o] = Record(escrow[e])
       \/ \E a \in Actors : PaysOut(a, o, Record(escrow[e]))

\* Handler a has put the pieces of order o back.
Restocked(a, o) ==
  Busy(a) /\ job[a].order = o /\ job[a].pc = "order" /\ job[a].to \in Returned

\* Some orders gave their pieces back: every closed or refunded one did, and
\* nothing else but a failed payment may have.
StockInv ==
  \E R \in SUBSET Orders :
    /\ \A p \in Products : stock[p] = InitialStock + Ordered(p, R)
    /\ \A o \in Orders :
         /\ status[o] \in Returned \/ (\E a \in Actors : Restocked(a, o)) => o \in R
         /\ o \in R => \/ status[o] \in Returned \cup {"EscrowPaymentFailed"}
                       \/ \E a \in Actors : Restocked(a, o)
=============================================================================
