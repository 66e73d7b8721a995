----------------------------- MODULE Inventory -----------------------------
(***************************************************************************)
(* The stock of products, the offers made on them and the orders that take *)
(* from both: the creation of orders from a product or from an offer       *)
(* (src/src/orders/orders.service.ts), the life of an offer                *)
(* (src/src/offer/offers.service.ts), the changes of a product by its      *)
(* seller and by admins (src/src/products) and the return of the pieces of *)
(* an order that is closed or refunded.  What happens to an order while it *)
(* is active is the subject of module Orders.                              *)
(*                                                                         *)
(* As in Orders, a request is a record, job[r], that remembers what it has *)
(* read, and an action is the code from one await to the next.  The stock  *)
(* and the quantities are always written as absolute numbers computed from *)
(* what was read.                                                          *)
(***************************************************************************)
EXTENDS Integers, FiniteSets, Functions

CONSTANTS
  Products,      \* the ids of the products
  Offers,        \* the ids offers may get: bounds OffersService.create
  ProductOf,     \* ProductOf[f], the product that offer f is made on
  OrderIds,      \* the ids orders may get: bounds createOrderDb
  Requests,      \* HTTP requests being served at the same time
  Quantities,    \* how many pieces an order may be about
  OfferQuantities, \* how many pieces a seller may ask an offer for: any integer
  StockValues,   \* what a seller may set the stock to
  InitialStock,  \* the stock a product starts with
  Env,           \* what else may happen, a subset of EnvEvents
  Nothing        \* the value of a field that a job does not use

EnvEvents ==
  {"overlap",      \* a request starts while another one waits
   "patch",        \* sellers and admins change the stock of a product
   "adminDelete"}  \* an admin deletes a product that still has orders

ASSUME InventoryAssumption ==
  /\ ProductOf \in [Offers -> Products]
  /\ Quantities \subseteq Nat \ {0}
  /\ OfferQuantities \subseteq Int
  /\ StockValues \subseteq Int
  /\ InitialStock \in Nat
  /\ Env \subseteq EnvEvents
  /\ Nothing \notin Products \cup Offers \cup OrderIds

VARIABLES
  stock,        \* Product.stock
  deleted,      \* the products with Product.deleted
  offerStatus,  \* Offer.status, "none" before the offer exists
  offerQty,     \* Offer.quantity
  order,        \* the orders: what they take and whether they are over
  job           \* what each request is doing

productRows == <<stock, deleted>>
offerRows == <<offerStatus, offerQty>>
vars == <<productRows, offerRows, order, job>>

-----------------------------------------------------------------------------
(***************************************************************************)
(* Data                                                                    *)
(***************************************************************************)

OfferStatus == {"none", "Active", "Expired", "Closed"}

\* An order is on its way, or its pieces are gone (Completed), or they went
\* back to the stock (Closed, Refunded).  An order whose payout failed has its
\* pieces where the attempt has left them, and stays that way.
OrderState == {"active", "completed", "returned", "releaseFailed", "refundFailed"}

NoOrder == [state |-> "none", product |-> Nothing, qty |-> 0]

Order == [state : OrderState, product : Products, qty : Quantities]

\* Where a request waits: for the product an offer is about, for the chat of
\* the order, for the transaction, for the write of an offer, of the stock,
\* of a deletion, of a returned stock, of the order whose stock returned.
Waiting == {"product", "chat", "commit", "offer", "patch", "delete", "restock", "over"}

\* left is what will be left of the offer, new what will be left of the
\* product, lower are the offers to be lowered to new.
Job == [pc : Waiting, product : Products, qty : Int,
        offer : Offers \cup {Nothing}, left : Int, new : Int,
        lower : SUBSET Offers, order : OrderIds \cup {Nothing}]

Idle == [pc |-> "idle"]

Busy(r) == job[r] # Idle

OrderJob(at, p, q, f, left, new, lower) ==
  [pc |-> at, product |-> p, qty |-> q, offer |-> f, left |-> left,
   new |-> new, lower |-> lower, order |-> Nothing]

NewJob(at, p, q, new, o) ==
  [pc |-> at, product |-> p, qty |-> q, offer |-> Nothing, left |-> 0,
   new |-> new, lower |-> {}, order |-> o]

OffersOn(p) == {f \in Offers : ProductOf[f] = p /\ offerStatus[f] # "none"}

\* The offers that promise at least as much as will be left.
ToLower(p, left) == {f \in OffersOn(p) : left <= offerQty[f]}

\* The orders of a product in activeStatusList: a failed payout is in it.
ActiveOrders(p) ==
  {o \in OrderIds : /\ order[o].product = p
                    /\ order[o].state \in {"active", "releaseFailed", "refundFailed"}}

TypeOK ==
  /\ stock \in [Products -> Int]
  /\ deleted \in SUBSET Products
  /\ offerStatus \in [Offers -> OfferStatus]
  /\ offerQty \in [Offers -> Int]
  /\ order \in [OrderIds -> Order \cup {NoOrder}]
  /\ job \in [Requests -> Job \cup {Idle}]

Init ==
  /\ stock = [p \in Products |-> InitialStock]
  /\ deleted = {}
  /\ offerStatus = [f \in Offers |-> "none"]
  /\ offerQty = [f \in Offers |-> 0]
  /\ order = [o \in OrderIds |-> NoOrder]
  /\ job = [r \in Requests |-> Idle]

-----------------------------------------------------------------------------
(***************************************************************************)
(* Orders are created                                                      *)
(***************************************************************************)

Quiet == \A r \in Requests : ~Busy(r)

\* A request that is done in one step, or the first step of one.
MayAct == "overlap" \in Env \/ Quiet

MayStart(r) == ~Busy(r) /\ MayAct

\* Mutant of ReadForOrder: the stock is not checked.
ReadForOrder_Unchecked(r, p, q) ==
  /\ MayStart(r)
  /\ p \notin deleted
  /\ LET left == stock[p] - q
     IN job' = [job EXCEPT ![r] = OrderJob("chat", p, q, Nothing, 0, left, ToLower(p, left))]
  /\ UNCHANGED <<productRows, offerRows, order>>

\* createFromProduct reads the product with its offers, whatever their
\* status, and refuses more than the stock.
ReadForOrder(r, p, q) ==
  /\ MayStart(r)
  /\ p \notin deleted
  /\ q <= stock[p]
  /\ LET left == stock[p] - q
     IN job' = [job EXCEPT ![r] = OrderJob("chat", p, q, Nothing, 0, left, ToLower(p, left))]
  /\ UNCHANGED <<productRows, offerRows, order>>

\* createFromOffer reads the offer with its product, deleted or not, and
\* looks at both quantities; the status of the offer is not looked at.
ReadOffer(r, f, q) ==
  /\ MayStart(r)
  /\ offerStatus[f] # "none"
  /\ q <= stock[ProductOf[f]]
  /\ q <= offerQty[f]
  /\ job' = [job EXCEPT ![r] =
                OrderJob("product", ProductOf[f], q, f, offerQty[f] - q, 0, {})]
  /\ UNCHANGED <<productRows, offerRows, order>>

\* It then reads the product again, with all its offers.
ReadProduct(r) ==
  /\ job[r].pc = "product"
  /\ LET j == job[r]
         left == stock[j.product] - j.qty
     IN /\ j.product \notin deleted
        /\ job' = [job EXCEPT ![r] = OrderJob("chat", j.product, j.qty, j.offer, j.left,
                                             left, ToLower(j.product, left) \ {j.offer})]
  /\ UNCHANGED <<productRows, offerRows, order>>

\* getOrCreateChat reads the product that the request names, to no other end.
\* With an offer, nobody compares that product to the offer's.
GetChat(r) ==
  /\ job[r].pc = "chat"
  /\ \E p \in Products \ deleted : job[r].offer = Nothing => p = job[r].product
  /\ job' = [job EXCEPT ![r].pc = "commit"]
  /\ UNCHANGED <<productRows, offerRows, order>>

\* Mutants of updateOfferStock: an offer with nothing left stays as it is, or
\* one with something left is made active.
updateOfferStock_NoExpiry(status, left) == [status |-> status, qty |-> left]

updateOfferStock_Revive(status, left) ==
  IF left <= 0 THEN [status |-> "Expired", qty |-> 0]
               ELSE [status |-> "Active", qty |-> left]

\* What an offer becomes when `left' pieces are left for it.
updateOfferStock(status, left) ==
  IF left <= 0 THEN [status |-> "Expired", qty |-> 0]
               ELSE [status |-> status, qty |-> left]

\* What the offers become with the transaction of job j.
Lowered(j, f) ==
  IF f = j.offer THEN updateOfferStock(offerStatus[f], j.left)
  ELSE IF f \in j.lower THEN updateOfferStock(offerStatus[f], j.new)
  ELSE [status |-> offerStatus[f], qty |-> offerQty[f]]

\* Mutants of PlaceOrder: the other offers, or the stock, are left alone.
PlaceOrder_OffersKept(r, o) ==
  /\ job[r].pc = "commit"
  /\ order[o] = NoOrder
  /\ LET j == job[r]
     IN /\ order' = [order EXCEPT ![o] = [state |-> "active", product |-> j.product, qty |-> j.qty]]
        /\ stock' = [stock EXCEPT ![j.product] = j.new]
  /\ job' = [job EXCEPT ![r] = Idle]
  /\ UNCHANGED <<deleted, offerRows>>

PlaceOrder_StockKept(r, o) ==
  /\ job[r].pc = "commit"
  /\ order[o] = NoOrder
  /\ LET j == job[r]
     IN /\ order' = [order EXCEPT ![o] = [state |-> "active", product |-> j.product, qty |-> j.qty]]
        /\ offerStatus' = [f \in Offers |-> Lowered(j, f).status]
        /\ offerQty' = [f \in Offers |-> Lowered(j, f).qty]
  /\ job' = [job EXCEPT ![r] = Idle]
  /\ UNCHANGED productRows

\* One transaction creates the order and writes the stock and the offers.
PlaceOrder(r, o) ==
  /\ job[r].pc = "commit"
  /\ order[o] = NoOrder
  /\ LET j == job[r]
     IN /\ order' = [order EXCEPT ![o] = [state |-> "active", product |-> j.product, qty |-> j.qty]]
        /\ stock' = [stock EXCEPT ![j.product] = j.new]
        /\ offerStatus' = [f \in Offers |-> Lowered(j, f).status]
        /\ offerQty' = [f \in Offers |-> Lowered(j, f).qty]
  /\ job' = [job EXCEPT ![r] = Idle]
  /\ UNCHANGED deleted

-----------------------------------------------------------------------------
(***************************************************************************)
(* Offers                                                                  *)
(***************************************************************************)

\* Mutant of ReadForNewOffer: the quantity is not compared with the stock.
ReadForNewOffer_Unchecked(r, p, q) ==
  /\ MayStart(r)
  /\ p \notin deleted
  /\ job' = [job EXCEPT ![r] = NewJob("offer", p, q, 0, Nothing)]
  /\ UNCHANGED <<productRows, offerRows, order>>

\* What Offer.quantity becomes when the seller does not say.
DefaultQuantity == 1

\* OffersService.create reads the product and refuses more than its stock, but
\* neither nothing nor less; a quantity that is left out passes the comparison
\* and is filled in by the database ...
ReadForNewOffer(r, p, q) ==
  /\ MayStart(r)
  /\ p \notin deleted
  /\ q <= stock[p] \/ q = DefaultQuantity
  /\ job' = [job EXCEPT ![r] = NewJob("offer", p, q, 0, Nothing)]
  /\ UNCHANGED <<productRows, offerRows, order>>

\* ... and, once it knows the account, creates the offer.
WriteOffer(r, f) ==
  /\ job[r].pc = "offer"
  /\ ProductOf[f] = job[r].product
  /\ offerStatus[f] = "none"
  /\ offerStatus' = [offerStatus EXCEPT ![f] = "Active"]
  /\ offerQty' = [offerQty EXCEPT ![f] = job[r].qty]
  /\ job' = [job EXCEPT ![r] = Idle]
  /\ UNCHANGED <<productRows, order>>

\* The nightly job reads every offer and expires those whose date is past,
\* one write after the other, whatever their status (an offer without a date
\* counts as past).  Dates never change, so each write stands alone.
ExpireOffer(f) ==
  /\ MayAct
  /\ offerStatus[f] # "none"
  /\ offerStatus' = [offerStatus EXCEPT ![f] = "Expired"]
  /\ UNCHANGED <<productRows, offerQty, order, job>>

\* PATCH /offers/:id knows the status Closed only.
CloseOffer(f) ==
  /\ MayAct
  /\ offerStatus[f] # "none"
  /\ offerStatus' = [offerStatus EXCEPT ![f] = "Closed"]
  /\ UNCHANGED <<productRows, offerQty, order, job>>

-----------------------------------------------------------------------------
(***************************************************************************)
(* Products                                                                *)
(***************************************************************************)

\* PATCH /products/:id: refused while the product has active orders ...
ReadForPatch(r, p, n) ==
  /\ "patch" \in Env
  /\ MayStart(r)
  /\ p \notin deleted
  /\ ActiveOrders(p) = {}
  /\ job' = [job EXCEPT ![r] = NewJob("patch", p, 0, n, Nothing)]
  /\ UNCHANGED <<productRows, offerRows, order>>

\* ... and then written; the offers are not looked at.
WritePatch(r) ==
  /\ job[r].pc = "patch"
  /\ stock' = [stock EXCEPT ![job[r].product] = job[r].new]
  /\ job' = [job EXCEPT ![r] = Idle]
  /\ UNCHANGED <<deleted, offerRows, order>>

\* PATCH /admin/products/:id writes at once.
AdminPatch(p, n) ==
  /\ "patch" \in Env
  /\ MayAct
  /\ stock' = [stock EXCEPT ![p] = n]
  /\ UNCHANGED <<deleted, offerRows, order, job>>

\* Mutant of ReadForDelete: active orders are not looked for.
ReadForDelete_Unchecked(r, p) ==
  /\ MayStart(r)
  /\ p \notin deleted
  /\ job' = [job EXCEPT ![r] = NewJob("delete", p, 0, 0, Nothing)]
  /\ UNCHANGED <<productRows, offerRows, order>>

\* DELETE /products/:id: refused while the product has active orders ...
ReadForDelete(r, p) ==
  /\ MayStart(r)
  /\ p \notin deleted
  /\ ActiveOrders(p) = {}
  /\ job' = [job EXCEPT ![r] = NewJob("delete", p, 0, 0, Nothing)]
  /\ UNCHANGED <<productRows, offerRows, order>>

\* ProductsService.delete closes the offers with the same statement.
Delete(p) ==
  /\ deleted' = deleted \cup {p}
  /\ offerStatus' = [f \in Offers |-> IF f \in OffersOn(p) THEN "Closed" ELSE offerStatus[f]]
  /\ UNCHANGED <<stock, offerQty, order>>

WriteDelete(r) ==
  /\ job[r].pc = "delete"
  /\ Delete(job[r].product)
  /\ job' = [job EXCEPT ![r] = Idle]

AdminDelete(p) ==
  /\ "adminDelete" \in Env
  /\ MayAct
  /\ Delete(p)
  /\ UNCHANGED job

-----------------------------------------------------------------------------
(***************************************************************************)
(* Orders end                                                              *)
(***************************************************************************)

\* handleOrderClosed or handleOrderRefunded has come to restockOrder, which
\* reads the product ...
ReadForRestock(r, o) ==
  /\ MayStart(r)
  /\ order[o].state = "active"
  /\ order[o].product \notin deleted
  /\ LET p == order[o].product
         q == order[o].qty
     IN job' = [job EXCEPT ![r] = NewJob("restock", p, q, stock[p] + q, o)]
  /\ UNCHANGED <<productRows, offerRows, order>>

\* Mutant of WriteRestock: the stock is written from the quantity alone.
WriteRestock_Forgetful(r) ==
  /\ job[r].pc = "restock"
  /\ stock' = [stock EXCEPT ![job[r].product] = job[r].qty]
  /\ job' = [job EXCEPT ![r].pc = "over"]
  /\ UNCHANGED <<deleted, offerRows, order>>

\* ... writes the stock, but no offer, ...
WriteRestock(r) ==
  /\ job[r].pc = "restock"
  /\ stock' = [stock EXCEPT ![job[r].product] = job[r].new]
  /\ job' = [job EXCEPT ![r].pc = "over"]
  /\ UNCHANGED <<deleted, offerRows, order>>

\* ... and the handler writes the order, as a failure if ERBN has refunded
\* nothing.
WriteOver(r) ==
  /\ job[r].pc = "over"
  /\ \E s \in {"returned", "refundFailed"} :
       order' = [order EXCEPT ![job[r].order].state = s]
  /\ job' = [job EXCEPT ![r] = Idle]
  /\ UNCHANGED <<productRows, offerRows>>

\* handleOrderCompleted touches neither the product nor its offers, whether
\* ERBN has paid the seller or not.
CompleteOrder(o) ==
  /\ MayAct
  /\ order[o].state = "active"
  /\ \E s \in {"completed", "releaseFailed"} : order' = [order EXCEPT ![o].state = s]
  /\ UNCHANGED <<productRows, offerRows, job>>

-----------------------------------------------------------------------------
(***************************************************************************)
(* The specification                                                       *)
(***************************************************************************)

\* A request that has written nothing yet fails: the address, the price or
\* the chat cannot be had, the product is gone, the transaction is refused,
\* the process dies.  (Module Orders covers the crash after a restock.)
Throws(r) ==
  /\ Busy(r)
  /\ job[r].pc # "over"
  /\ job' = [job EXCEPT ![r] = Idle]
  /\ UNCHANGED <<productRows, offerRows, order>>

Start(r) ==
  \/ \E p \in Products, q \in Quantities : ReadForOrder(r, p, q)
  \/ \E p \in Products, q \in OfferQuantities \cup {DefaultQuantity} : ReadForNewOffer(r, p, q)
  \/ \E f \in Offers, q \in Quantities : ReadOffer(r, f, q)
  \/ \E p \in Products, n \in StockValues : ReadForPatch(r, p, n)
  \/ \E p \in Products : ReadForDelete(r, p)
  \/ \E o \in OrderIds : ReadForRestock(r, o)

Continue(r) ==
  \/ ReadProduct(r) \/ GetChat(r) \/ (\E o \in OrderIds : PlaceOrder(r, o))
  \/ \E f \in Offers : WriteOffer(r, f)
  \/ WritePatch(r) \/ WriteDelete(r) \/ WriteRestock(r) \/ WriteOver(r) \/ Throws(r)

AtOnce ==
  \/ \E f \in Offers : ExpireOffer(f) \/ CloseOffer(f)
  \/ \E p \in Products, n \in StockValues : AdminPatch(p, n)
  \/ \E p \in Products : AdminDelete(p)
  \/ \E o \in OrderIds : CompleteOrder(o)

Next == (\E r \in Requests : Start(r) \/ Continue(r)) \/ AtOnce

Spec == Init /\ [][Next]_vars
-----------------------------------------------------------------------------
(***************************************************************************)
(* Properties that hold whatever overlaps                                  *)
(***************************************************************************)

\* An order that takes from an offer leaves it active only with something to
\* sell, however stale the numbers are that are written into it.  (A seller
\* may well offer nothing: create has no minimum, and no schema is in force.)
ActiveOffersSell ==
  [][\A f \in Offers : offerStatus[f] # "none" /\ offerStatus'[f] = "Active"
       => offerQty'[f] = offerQty[f] \/ offerQty'[f] > 0]_vars

\* An offer that has expired or was closed is never active again, although
\* orders go on lowering it and its status is written by four handlers.
RetiredForGood ==
  [][\A f \in Offers : offerStatus[f] \in {"Expired", "Closed"}
                         => offerStatus'[f] \in {"Expired", "Closed"}]_vars

-----------------------------------------------------------------------------
(***************************************************************************)
(* Properties that need the requests to run one at a time                  *)
(***************************************************************************)

\* No order is created for more pieces than the product has.
NoOversell ==
  [][\A o \in OrderIds : order[o] = NoOrder /\ order'[o] # NoOrder
       => order'[o].qty <= stock[order'[o].product]]_vars

\* Offer f is active and promises more than its product has.
Overpromises(f) == offerStatus[f] = "Active" /\ offerQty[f] > stock[ProductOf[f]]

\* Orders, returns and expiries never make an active offer promise more than
\* its product has, and neither does an offer that is made for a stated number
\* of pieces: it takes one that is made without (or a stock set by hand).
OffersHonest ==
  [][\A f \in Offers : "patch" \notin Env /\ Overpromises(f)' =>
       \/ offerStatus[f] = "none" /\ offerQty'[f] = DefaultQuantity
       \/ Overpromises(f)]_vars

\* A product goes only when no order on it is active (unless an admin deletes
\* it).
NoDeleteWithOrders ==
  "adminDelete" \notin Env => \A p \in deleted : ActiveOrders(p) = {}

\* The pieces that the orders of a product hold: those of orders that are
\* closed or refunded went back.
Qty == [o \in OrderIds |-> order[o].qty]

Holding(p) ==
  {o \in OrderIds : /\ order[o].product = p
                    /\ order[o].state \in {"active", "completed", "releaseFailed"}}

Held(p) == SumFunctionOnSet(Qty, Holding(p))

\* No piece is lost or made up: between requests, what the orders of a product
\* hold and what is in stock add up to what the product started with.
StockAccounted ==
  Quiet /\ "patch" \notin Env => \A p \in Products : stock[p] + Held(p) = InitialStock
-----------------------------------------------------------------------------
(***************************************************************************)
(* The inductive invariant behind these properties.  JobInv holds whatever *)
(* overlaps.  When nothing does, what a request has read is still true     *)
(* when it writes: that is CurrentInv.                                     *)
(***************************************************************************)

\* The product, the quantity, the offer and the order of a job fit together.
JobFits(j) ==
  /\ j.pc \notin {"offer", "patch", "delete"} => j.qty \in Quantities
  /\ j.pc = "product" => j.offer \in Offers
  /\ j.offer # Nothing => ProductOf[j.offer] = j.product
  /\ j.pc \in {"restock", "over"} => j.order \in OrderIds /\ order[j.order] # NoOrder
  /\ j.pc = "patch" => "patch" \in Env

JobInv == \A r \in Requests : Busy(r) => JobFits(job[r])

Alone == \A r, s \in Requests : Busy(r) /\ Busy(s) => r = s

\* What was read is what is there.
Current(j) ==
  /\ j.pc \in {"product", "chat", "commit"} => j.qty <= stock[j.product]
  /\ j.pc \in {"product", "chat", "commit"} /\ j.offer # Nothing
       => j.left = offerQty[j.offer] - j.qty
  /\ j.pc \in {"chat", "commit"} =>
       /\ j.new = stock[j.product] - j.qty
       /\ ToLower(j.product, j.new) \subseteq j.lower \cup {j.offer}
       /\ j.lower \subseteq OffersOn(j.product)
  /\ j.pc \in {"chat", "commit"} => j.product \notin deleted
  /\ j.pc = "offer" => j.qty <= stock[j.product] \/ j.qty = DefaultQuantity
  /\ j.pc = "delete" => ActiveOrders(j.product) = {}
  /\ j.pc = "restock" => j.new = stock[j.product] + j.qty
  /\ j.pc \in {"restock", "over"} => order[j.order].state = "active"

CurrentInv == "overlap" \notin Env => Alone /\ \A r \in Requests : Busy(r) => Current(job[r])

\* What OffersHonest leaves of an offer that promises too much.
OffersNearlyHonest ==
  "patch" \notin Env => \A f \in Offers : Overpromises(f) => offerQty[f] = DefaultQuantity

SerialInv == "overlap" \notin Env => OffersNearlyHonest /\ NoDeleteWithOrders

IInv == TypeOK /\ JobInv /\ CurrentInv /\ SerialInv

\* Beside it, for StockAccounted: the same balance while a request is at work,
\* between the write of the stock and that of the order as well.
GaveBack(o) == \E r \in Requests : Busy(r) /\ job[r].pc = "over" /\ job[r].order = o

Kept(p) == {o \in Holding(p) : ~GaveBack(o)}

\* The order whose pieces go back is still the one that was read.
RestockFits ==
  \A r \in Requests : Busy(r) /\ job[r].pc \in {"restock", "over"} =>
    order[job[r].order] = [state |-> "active", product |-> job[r].product, qty |-> job[r].qty]

Placed == {o \in OrderIds : order[o] # NoOrder}

Balanced == \A p \in Products : stock[p] + SumFunctionOnSet(Qty, Kept(p)) = InitialStock

BalanceInv == IsFiniteSet(Placed) /\ RestockFits /\ Balanced
=============================================================================
