-------------------------- MODULE InventoryProofs --------------------------
(***************************************************************************)
(* Proofs about Inventory, for any number of products, offers, orders and  *)
(* requests: whatever overlaps, orders leave no empty offer active and no  *)
(* offer comes back; when requests run one at a time nothing is oversold,  *)
(* no offer comes to promise more than the stock (but one that is made     *)
(* without a quantity), no product goes while an order on it is active,    *)
(* and every piece is in stock or with an order.                           *)
(***************************************************************************)
EXTENDS Inventory, SumsProofs, TLAPS

\* The part of the inductive invariant that needs no order among requests.
Base == TypeOK /\ JobInv

-----------------------------------------------------------------------------
(***************************************************************************)
(* Jobs                                                                    *)
(***************************************************************************)

LEMMA BusyIsJob ==
  ASSUME TypeOK, NEW r \in Requests, job[r].pc \in Waiting
  PROVE  Busy(r) /\ job[r] \in Job
<1>1. job[r] \in Job \cup {Idle}
  BY DEF TypeOK
<1>2. job[r] # Idle
  BY DEF Idle, Waiting
<1>. QED
  BY <1>1, <1>2 DEF Busy

\* The records a request starts with, or goes on with.
LEMMA OrderJobType ==
  ASSUME NEW at \in {"product", "chat"}, NEW p \in Products, NEW q \in Quantities,
         NEW f \in Offers \cup {Nothing}, NEW left \in Int, NEW new \in Int,
         NEW lower \in SUBSET Offers
  PROVE  OrderJob(at, p, q, f, left, new, lower) \in Job
<1>. at \in Waiting /\ q \in Int
  BY InventoryAssumption DEF Waiting
<1>. QED
  BY DEF OrderJob, Job

LEMMA NewJobType ==
  ASSUME NEW at \in {"offer", "patch", "delete", "restock"}, NEW p \in Products,
         NEW q \in Int, NEW new \in Int, NEW o \in OrderIds \cup {Nothing}
  PROVE  NewJob(at, p, q, new, o) \in Job
<1>. at \in Waiting
  BY DEF Waiting
<1>. QED
  BY DEF NewJob, Job

\* No job is the idle record.
LEMMA JobIsNotIdle == ASSUME NEW j \in Job PROVE j # Idle
BY DEF Job, Idle, Waiting

\* A step that takes no order away leaves every job as good as it was.
LEMMA JobFitsStable ==
  ASSUME NEW j, JobFits(j), \A o \in OrderIds : order[o] # NoOrder => order'[o] # NoOrder
  PROVE  JobFits(j)'
BY DEF JobFits

\* A step that gives one request another record, ...
LEMMA JobInvStep ==
  ASSUME Base, NEW r \in Requests, NEW j \in Job \cup {Idle}, j # Idle => JobFits(j),
         job' = [job EXCEPT ![r] = j],
         \A o \in OrderIds : order[o] # NoOrder => order'[o] # NoOrder
  PROVE  /\ JobInv'
         /\ job' \in [Requests -> Job \cup {Idle}]
<1>1. job' \in [Requests -> Job \cup {Idle}]
  BY DEF Base, TypeOK
<1>2. ASSUME NEW s \in Requests, job'[s] # Idle PROVE JobFits(job[s])'
  <2>1. PICK k : k = job'[s]
    OBVIOUS
  <2>2. JobFits(k)
    BY <1>2, <2>1 DEF Base, TypeOK, JobInv, Busy
  <2>3. JobFits(k)'
    BY <2>2, JobFitsStable
  <2>. QED
    BY <2>1, <2>3 DEF JobFits
<1>. QED
  BY <1>1, <1>2 DEF JobInv, Busy

\* ... or none.
LEMMA JobInvSame ==
  ASSUME Base, job' = job, \A o \in OrderIds : order[o] # NoOrder => order'[o] # NoOrder
  PROVE  JobInv'
<1> SUFFICES ASSUME NEW s \in Requests, job'[s] # Idle PROVE JobFits(job[s])'
  BY DEF JobInv, Busy
<1>1. PICK k : k = job'[s]
  OBVIOUS
<1>2. JobFits(k)
  BY <1>1 DEF Base, JobInv, Busy
<1>3. JobFits(k)'
  BY <1>2, JobFitsStable
<1>. QED
  BY <1>1, <1>3 DEF JobFits

\* A step that changes nothing but the record of one request.
LEMMA BaseJobStep ==
  ASSUME Base, NEW r \in Requests, NEW j \in Job \cup {Idle}, j # Idle => JobFits(j),
         job' = [job EXCEPT ![r] = j], UNCHANGED <<productRows, offerRows, order>>
  PROVE  Base'
<1>1. JobInv' /\ job' \in [Requests -> Job \cup {Idle}]
  BY JobInvStep
<1>2. TypeOK'
  BY <1>1 DEF Base, TypeOK, productRows, offerRows
<1>. QED
  BY <1>1, <1>2 DEF Base
-----------------------------------------------------------------------------
(***************************************************************************)
(* Whatever overlaps                                                       *)
(***************************************************************************)

LEMMA BaseInit == Init => Base
<1> SUFFICES ASSUME Init PROVE Base
  OBVIOUS
<1>1. TypeOK
  BY InventoryAssumption DEF Init, TypeOK, OfferStatus
<1>2. JobInv
  BY DEF Init, JobInv, Busy
<1>. QED
  BY <1>1, <1>2 DEF Base

LEMMA BaseStart ==
  ASSUME Base, NEW r \in Requests, Start(r)
  PROVE  Base'
<1>1. /\ Quantities \subseteq Int
      /\ OfferQuantities \subseteq Int
      /\ StockValues \subseteq Int
      /\ 0 \in Int
  BY InventoryAssumption
<1>2. \A p \in Products, n \in Int : ToLower(p, n) \in SUBSET Offers
  BY DEF ToLower, OffersOn
<1>3. \A p \in Products, q \in Quantities : stock[p] - q \in Int /\ stock[p] + q \in Int
  <2>1. \A p \in Products : stock[p] \in Int
    BY DEF Base, TypeOK
  <2>. QED
    BY <2>1, <1>1
<1>4. ASSUME NEW p \in Products, NEW q \in Quantities, ReadForOrder(r, p, q)
      PROVE  Base'
  <2> DEFINE left == stock[p] - q
  <2> DEFINE j == OrderJob("chat", p, q, Nothing, 0, left, ToLower(p, left))
  <2>1. left \in Int
    BY <1>3
  <2>2. j \in Job
    BY <2>1, <1>1, <1>2, OrderJobType
  <2>3. JobFits(j)
    BY DEF JobFits, OrderJob
  <2>4. job' = [job EXCEPT ![r] = j] /\ UNCHANGED <<productRows, offerRows, order>>
    BY <1>4 DEF ReadForOrder
  <2>. QED
    BY <2>2, <2>3, <2>4, BaseJobStep
<1>5. ASSUME NEW p \in Products, NEW q \in OfferQuantities \cup {DefaultQuantity},
             ReadForNewOffer(r, p, q)
      PROVE  Base'
  <2> DEFINE j == NewJob("offer", p, q, 0, Nothing)
  <2>1. j \in Job
    BY <1>1, NewJobType DEF DefaultQuantity
  <2>2. JobFits(j)
    BY DEF JobFits, NewJob
  <2>3. job' = [job EXCEPT ![r] = j] /\ UNCHANGED <<productRows, offerRows, order>>
    BY <1>5 DEF ReadForNewOffer
  <2>. QED
    BY <2>1, <2>2, <2>3, BaseJobStep
<1>6. ASSUME NEW f \in Offers, NEW q \in Quantities, ReadOffer(r, f, q)
      PROVE  Base'
  <2> DEFINE left == offerQty[f] - q
  <2> DEFINE j == OrderJob("product", ProductOf[f], q, f, left, 0, {})
  <2>1. left \in Int /\ ProductOf[f] \in Products
    BY <1>1, InventoryAssumption DEF Base, TypeOK
  <2>2. j \in Job
    BY <2>1, <1>1, OrderJobType
  <2>3. JobFits(j)
    BY DEF JobFits, OrderJob
  <2>4. job' = [job EXCEPT ![r] = j] /\ UNCHANGED <<productRows, offerRows, order>>
    BY <1>6 DEF ReadOffer
  <2>. QED
    BY <2>2, <2>3, <2>4, BaseJobStep
<1>7. ASSUME NEW p \in Products, NEW n \in StockValues, ReadForPatch(r, p, n)
      PROVE  Base'
  <2> DEFINE j == NewJob("patch", p, 0, n, Nothing)
  <2>1. j \in Job
    BY <1>1, NewJobType
  <2>2. JobFits(j)
    BY <1>7 DEF JobFits, NewJob, ReadForPatch
  <2>3. job' = [job EXCEPT ![r] = j] /\ UNCHANGED <<productRows, offerRows, order>>
    BY <1>7 DEF ReadForPatch
  <2>. QED
    BY <2>1, <2>2, <2>3, BaseJobStep
<1>8. ASSUME NEW p \in Products, ReadForDelete(r, p)
      PROVE  Base'
  <2> DEFINE j == NewJob("delete", p, 0, 0, Nothing)
  <2>1. j \in Job
    BY <1>1, NewJobType
  <2>2. JobFits(j)
    BY DEF JobFits, NewJob
  <2>3. job' = [job EXCEPT ![r] = j] /\ UNCHANGED <<productRows, offerRows, order>>
    BY <1>8 DEF ReadForDelete
  <2>. QED
    BY <2>1, <2>2, <2>3, BaseJobStep
<1>9. ASSUME NEW o \in OrderIds, ReadForRestock(r, o)
      PROVE  Base'
  <2> DEFINE p == order[o].product
  <2> DEFINE q == order[o].qty
  <2> DEFINE j == NewJob("restock", p, q, stock[p] + q, o)
  <2>1. order[o] \in Order /\ order[o] # NoOrder
    BY <1>9 DEF Base, TypeOK, ReadForRestock, NoOrder
  <2>2. p \in Products /\ q \in Quantities
    BY <2>1 DEF Order
  <2>3. stock[p] + q \in Int
    BY <2>2, <1>3
  <2>4. j \in Job
    BY <2>2, <2>3, <1>1, NewJobType
  <2>5. JobFits(j)
    BY <2>1, <2>2 DEF JobFits, NewJob
  <2>6. job' = [job EXCEPT ![r] = j] /\ UNCHANGED <<productRows, offerRows, order>>
    BY <1>9 DEF ReadForRestock
  <2>. QED
    BY <2>4, <2>5, <2>6, BaseJobStep
<1>. QED
  BY <1>4, <1>5, <1>6, <1>7, <1>8, <1>9 DEF Start

LEMMA BaseContinue ==
  ASSUME Base, NEW r \in Requests, Continue(r)
  PROVE  Base'
<1> DEFINE j == job[r]
<1>0. \A q \in Quantities : q \in Int /\ q > 0
  BY InventoryAssumption
<1>1. ASSUME j.pc \in Waiting
      PROVE  j \in Job /\ JobFits(j)
  BY <1>1, BusyIsJob DEF Base, JobInv
<1>2. Idle \in Job \cup {Idle}
  OBVIOUS
<1>3. /\ stock \in [Products -> Int] /\ deleted \in SUBSET Products
      /\ offerStatus \in [Offers -> OfferStatus] /\ offerQty \in [Offers -> Int]
      /\ order \in [OrderIds -> Order \cup {NoOrder}]
  BY DEF Base, TypeOK
<1>4. CASE ReadProduct(r)
  <2> DEFINE left == stock[j.product] - j.qty
  <2> DEFINE k == OrderJob("chat", j.product, j.qty, j.offer, j.left, left,
                           ToLower(j.product, left) \ {j.offer})
  <2>1. j.pc = "product" /\ "product" \in Waiting
    BY <1>4 DEF ReadProduct, Waiting
  <2>2. j \in Job /\ JobFits(j)
    BY <1>1, <2>1
  <2>3. /\ j.product \in Products /\ j.qty \in Quantities /\ j.offer \in Offers
        /\ j.left \in Int /\ ProductOf[j.offer] = j.product
    BY <2>1, <2>2, InventoryAssumption DEF Job, JobFits
  <2>4. left \in Int
    <3>1. stock[j.product] \in Int /\ j.qty \in Int
      BY <1>0, <1>3, <2>3
    <3>. QED
      BY <3>1
  <2>5. ToLower(j.product, left) \ {j.offer} \in SUBSET Offers
    BY DEF ToLower, OffersOn
  <2>6. k \in Job
    BY <2>3, <2>4, <2>5, OrderJobType
  <2>7. JobFits(k)
    BY <2>3 DEF JobFits, OrderJob
  <2>8. job' = [job EXCEPT ![r] = k] /\ UNCHANGED <<productRows, offerRows, order>>
    BY <1>4 DEF ReadProduct
  <2>. QED
    BY <2>6, <2>7, <2>8, BaseJobStep
<1>5. CASE GetChat(r)
  <2> DEFINE k == [j EXCEPT !.pc = "commit"]
  <2>1. j.pc = "chat" /\ "chat" \in Waiting /\ "commit" \in Waiting
    BY <1>5 DEF GetChat, Waiting
  <2>2. j \in Job /\ JobFits(j)
    BY <1>1, <2>1
  <2>3. k \in Job
    BY <2>1, <2>2 DEF Job
  <2>4. JobFits(k)
    BY <2>1, <2>2 DEF JobFits, Job
  <2>5. job' = [job EXCEPT ![r] = k] /\ UNCHANGED <<productRows, offerRows, order>>
    BY <1>5 DEF GetChat
  <2>. QED
    BY <2>3, <2>4, <2>5, BaseJobStep
<1>6. ASSUME NEW o \in OrderIds, PlaceOrder(r, o)
      PROVE  Base'
  <2>1. j.pc = "commit" /\ "commit" \in Waiting
    BY <1>6 DEF PlaceOrder, Waiting
  <2>2. j \in Job /\ JobFits(j)
    BY <1>1, <2>1
  <2>3. /\ j.product \in Products /\ j.qty \in Quantities
        /\ j.left \in Int /\ j.new \in Int
    BY <2>1, <2>2 DEF Job, JobFits
  <2> DEFINE new == [state |-> "active", product |-> j.product, qty |-> j.qty]
  <2>4. new \in Order /\ new # NoOrder
    BY <2>3 DEF Order, OrderState, NoOrder
  <2>5. order' = [order EXCEPT ![o] = new]
    BY <1>6 DEF PlaceOrder
  <2>6. order' \in [OrderIds -> Order \cup {NoOrder}]
    BY <1>3, <2>4, <2>5
  <2>7. JobInv' /\ job' \in [Requests -> Job \cup {Idle}]
    <3>1. job' = [job EXCEPT ![r] = Idle]
      BY <1>6 DEF PlaceOrder
    <3>2. \A oo \in OrderIds : order[oo] # NoOrder => order'[oo] # NoOrder
      BY <1>3, <2>4, <2>5
    <3>. QED
      BY <1>2, <3>1, <3>2, JobInvStep
  <2>8. stock' \in [Products -> Int] /\ deleted' \in SUBSET Products
    BY <1>3, <1>6, <2>3 DEF PlaceOrder
  <2>9. ASSUME NEW f \in Offers
        PROVE  Lowered(j, f).status \in OfferStatus /\ Lowered(j, f).qty \in Int
    <3>1. offerStatus[f] \in OfferStatus /\ offerQty[f] \in Int
      BY <1>3
    <3>. QED
      BY <2>3, <3>1 DEF Lowered, updateOfferStock, OfferStatus
  <2>10. /\ offerStatus' = [f \in Offers |-> Lowered(j, f).status]
         /\ offerQty' = [f \in Offers |-> Lowered(j, f).qty]
    BY <1>6 DEF PlaceOrder
  <2>11. offerStatus' \in [Offers -> OfferStatus] /\ offerQty' \in [Offers -> Int]
    BY <2>9, <2>10
  <2>. QED
    BY <2>6, <2>7, <2>8, <2>11 DEF Base, TypeOK
<1>7. ASSUME NEW f \in Offers, WriteOffer(r, f)
      PROVE  Base'
  <2>1. j.pc = "offer" /\ "offer" \in Waiting
    BY <1>7 DEF WriteOffer, Waiting
  <2>2. j \in Job /\ JobFits(j)
    BY <1>1, <2>1
  <2>3. j.qty \in Int
    BY <2>2 DEF Job
  <2>4. JobInv' /\ job' \in [Requests -> Job \cup {Idle}]
    BY <1>2, <1>7, JobInvStep DEF WriteOffer
  <2>5. /\ offerStatus' = [offerStatus EXCEPT ![f] = "Active"]
        /\ offerQty' = [offerQty EXCEPT ![f] = j.qty]
        /\ UNCHANGED <<stock, deleted, order>>
    BY <1>7 DEF WriteOffer, productRows
  <2>6. offerStatus' \in [Offers -> OfferStatus] /\ offerQty' \in [Offers -> Int]
    BY <1>3, <2>3, <2>5 DEF OfferStatus
  <2>. QED
    BY <1>3, <2>4, <2>5, <2>6 DEF Base, TypeOK
<1>8. CASE WritePatch(r)
  <2>1. j.pc = "patch" /\ "patch" \in Waiting
    BY <1>8 DEF WritePatch, Waiting
  <2>2. j.new \in Int
    BY <1>1, <2>1 DEF Job
  <2>3. JobInv' /\ job' \in [Requests -> Job \cup {Idle}]
    BY <1>2, <1>8, JobInvStep DEF WritePatch
  <2>4. stock' \in [Products -> Int] /\ UNCHANGED <<deleted, offerStatus, offerQty, order>>
    BY <1>3, <1>8, <2>2 DEF WritePatch, offerRows
  <2>. QED
    BY <2>3, <2>4 DEF Base, TypeOK
<1>9. CASE WriteDelete(r)
  <2>1. j.pc = "delete" /\ "delete" \in Waiting
    BY <1>9 DEF WriteDelete, Waiting
  <2>2. j.product \in Products
    BY <1>1, <2>1 DEF Job
  <2>3. JobInv' /\ job' \in [Requests -> Job \cup {Idle}]
    BY <1>2, <1>9, JobInvStep DEF WriteDelete, Delete
  <2>4. deleted' \in SUBSET Products /\ UNCHANGED <<stock, offerQty, order>>
    BY <1>3, <1>9, <2>2 DEF WriteDelete, Delete
  <2>5. offerStatus' \in [Offers -> OfferStatus]
    BY <1>3, <1>9 DEF WriteDelete, Delete, OfferStatus
  <2>. QED
    BY <2>3, <2>4, <2>5 DEF Base, TypeOK
<1>10. CASE WriteRestock(r)
  <2> DEFINE k == [j EXCEPT !.pc = "over"]
  <2>1. j.pc = "restock" /\ "restock" \in Waiting /\ "over" \in Waiting
    BY <1>10 DEF WriteRestock, Waiting
  <2>2. j \in Job /\ JobFits(j)
    BY <1>1, <2>1
  <2>3. k \in Job /\ JobFits(k)
    BY <2>1, <2>2 DEF Job, JobFits
  <2>4. job' = [job EXCEPT ![r] = k] /\ UNCHANGED <<deleted, offerStatus, offerQty, order>>
    BY <1>10 DEF WriteRestock, offerRows
  <2>5. JobInv' /\ job' \in [Requests -> Job \cup {Idle}]
    BY <2>3, <2>4, JobInvStep
  <2>6. stock' \in [Products -> Int]
    BY <1>3, <1>10, <2>2 DEF WriteRestock, Job
  <2>. QED
    BY <2>4, <2>5, <2>6 DEF Base, TypeOK
<1>11. CASE WriteOver(r)
  <2>1. j.pc = "over" /\ "over" \in Waiting
    BY <1>11 DEF WriteOver, Waiting
  <2>2. j.order \in OrderIds /\ order[j.order] \in Order
    BY <1>1, <1>3, <2>1 DEF JobFits
  <2>0. PICK s \in {"returned", "refundFailed"} :
             order' = [order EXCEPT ![j.order].state = s]
    BY <1>11 DEF WriteOver
  <2>3. /\ order' = [order EXCEPT ![j.order] = [@ EXCEPT !.state = s]]
        /\ job' = [job EXCEPT ![r] = Idle]
        /\ UNCHANGED <<stock, deleted, offerStatus, offerQty>>
    BY <1>11, <2>0 DEF WriteOver, productRows, offerRows
  <2>4. [order[j.order] EXCEPT !.state = s] \in Order
    BY <2>2 DEF Order, OrderState
  <2>5. order' \in [OrderIds -> Order \cup {NoOrder}]
    BY <1>3, <2>3, <2>4
  <2>6. \A o \in OrderIds : order[o] # NoOrder => order'[o] # NoOrder
    BY <1>3, <2>2, <2>3, <2>4 DEF NoOrder, Order
  <2>7. JobInv' /\ job' \in [Requests -> Job \cup {Idle}]
    BY <1>2, <2>3, <2>6, JobInvStep
  <2>. QED
    BY <2>3, <2>5, <2>7 DEF Base, TypeOK
<1>12. CASE Throws(r)
  BY <1>2, <1>12, BaseJobStep DEF Throws
<1>. QED
  BY <1>4, <1>5, <1>6, <1>7, <1>8, <1>9, <1>10, <1>11, <1>12 DEF Continue

LEMMA BaseAtOnce ==
  ASSUME Base, AtOnce
  PROVE  Base'
<1>1. /\ stock \in [Products -> Int] /\ deleted \in SUBSET Products
      /\ offerStatus \in [Offers -> OfferStatus] /\ offerQty \in [Offers -> Int]
      /\ order \in [OrderIds -> Order \cup {NoOrder}]
      /\ job \in [Requests -> Job \cup {Idle}]
  BY DEF Base, TypeOK
<1>2. ASSUME NEW f \in Offers, ExpireOffer(f) \/ CloseOffer(f)
      PROVE  Base'
  <2>1. UNCHANGED <<stock, deleted, offerQty, order, job>>
    BY <1>2 DEF ExpireOffer, CloseOffer, productRows
  <2>2. offerStatus' \in [Offers -> OfferStatus]
    BY <1>1, <1>2 DEF ExpireOffer, CloseOffer, OfferStatus
  <2>3. JobInv'
    BY <2>1, JobInvSame
  <2>. QED
    BY <2>1, <2>2, <2>3 DEF Base, TypeOK
<1>3. ASSUME NEW p \in Products, NEW n \in StockValues, AdminPatch(p, n)
      PROVE  Base'
  <2>1. stock' \in [Products -> Int] /\ UNCHANGED <<deleted, offerStatus, offerQty, order, job>>
    BY <1>1, <1>3, InventoryAssumption DEF AdminPatch, offerRows
  <2>2. JobInv'
    BY <2>1, JobInvSame
  <2>. QED
    BY <2>1, <2>2 DEF Base, TypeOK
<1>4. ASSUME NEW p \in Products, AdminDelete(p)
      PROVE  Base'
  <2>1. deleted' \in SUBSET Products /\ UNCHANGED <<stock, offerQty, order, job>>
    BY <1>1, <1>4 DEF AdminDelete, Delete
  <2>2. offerStatus' \in [Offers -> OfferStatus]
    BY <1>1, <1>4 DEF AdminDelete, Delete, OfferStatus
  <2>3. JobInv'
    BY <2>1, JobInvSame
  <2>. QED
    BY <2>1, <2>2, <2>3 DEF Base, TypeOK
<1>5. ASSUME NEW o \in OrderIds, CompleteOrder(o)
      PROVE  Base'
  <2>0. PICK s \in {"completed", "releaseFailed"} : order' = [order EXCEPT ![o].state = s]
    BY <1>5 DEF CompleteOrder
  <2>1. /\ order' = [order EXCEPT ![o] = [@ EXCEPT !.state = s]]
        /\ UNCHANGED <<stock, deleted, offerStatus, offerQty, job>>
    BY <1>5, <2>0 DEF CompleteOrder, productRows, offerRows
  <2>2. order[o] \in Order
    BY <1>1, <1>5 DEF CompleteOrder, NoOrder
  <2>3. [order[o] EXCEPT !.state = s] \in Order
    BY <2>2 DEF Order, OrderState
  <2>4. order' \in [OrderIds -> Order \cup {NoOrder}]
    BY <1>1, <2>1, <2>3
  <2>5. \A oo \in OrderIds : order[oo] # NoOrder => order'[oo] # NoOrder
    BY <1>1, <2>1, <2>3 DEF NoOrder, Order
  <2>6. JobInv'
    BY <2>1, <2>5, JobInvSame
  <2>. QED
    BY <2>1, <2>4, <2>6 DEF Base, TypeOK
<1>. QED
  BY <1>2, <1>3, <1>4, <1>5 DEF AtOnce

LEMMA BaseStep == Base /\ [Next]_vars => Base'
<1>1. ASSUME Base, UNCHANGED vars PROVE Base'
  <2>1. JobInv'
    BY <1>1, JobInvSame DEF vars
  <2>. QED
    BY <1>1, <2>1 DEF Base, TypeOK, vars, productRows, offerRows
<1>. QED
  BY <1>1, BaseStart, BaseContinue, BaseAtOnce DEF Next

\* Every variable of Inventory keeps its type, and every job the shape that
\* its place in the code gives it.
THEOREM InventoryTypes == Spec => []TypeOK
<1>1. Base => TypeOK
  BY DEF Base
<1>. QED
  BY <1>1, BaseInit, BaseStep, PTL DEF Spec

\* What one step may do to one offer.
LEMMA OfferStep ==
  ASSUME Base, [Next]_vars, NEW f \in Offers, offerStatus[f] # "none"
  PROVE  \/ offerQty'[f] = offerQty[f] /\ offerStatus'[f] \in {offerStatus[f], "Expired", "Closed"}
         \/ offerQty'[f] > 0 /\ offerStatus'[f] = offerStatus[f]
         \/ offerStatus'[f] = "Expired"
<1>1. offerStatus \in [Offers -> OfferStatus] /\ offerQty \in [Offers -> Int]
  BY DEF Base, TypeOK
<1> DEFINE Fine ==
      \/ offerQty'[f] = offerQty[f] /\ offerStatus'[f] \in {offerStatus[f], "Expired", "Closed"}
      \/ offerQty'[f] > 0 /\ offerStatus'[f] = offerStatus[f]
      \/ offerStatus'[f] = "Expired"
<1>2. ASSUME UNCHANGED offerRows PROVE Fine
  BY <1>2 DEF offerRows
<1>3. ASSUME NEW r \in Requests, Start(r) PROVE Fine
  BY <1>2, <1>3 DEF Start, ReadForOrder, ReadForNewOffer, ReadOffer, ReadForPatch,
                    ReadForDelete, ReadForRestock
<1>4. ASSUME NEW r \in Requests, NEW o \in OrderIds, PlaceOrder(r, o) PROVE Fine
  <2> DEFINE j == job[r]
  <2>1. job[r].pc = "commit" /\ "commit" \in Waiting
    BY <1>4 DEF PlaceOrder, Waiting
  <2>2. j.left \in Int /\ j.new \in Int
    BY <2>1, BusyIsJob DEF Base, Job
  <2>3. offerStatus'[f] = Lowered(j, f).status /\ offerQty'[f] = Lowered(j, f).qty
    BY <1>4 DEF PlaceOrder
  <2>. QED
    BY <2>2, <2>3 DEF Lowered, updateOfferStock
<1>5. ASSUME NEW r \in Requests, NEW g \in Offers, WriteOffer(r, g) PROVE Fine
  BY <1>1, <1>5 DEF WriteOffer
<1>6. ASSUME NEW p, Delete(p) PROVE Fine
  BY <1>1, <1>6 DEF Delete
<1>7. ASSUME NEW g \in Offers, ExpireOffer(g) \/ CloseOffer(g) PROVE Fine
  BY <1>1, <1>7 DEF ExpireOffer, CloseOffer
<1>8. ASSUME NEW r \in Requests, Continue(r) PROVE Fine
  BY <1>2, <1>4, <1>5, <1>6, <1>8 DEF Continue, ReadProduct, GetChat, WritePatch, WriteDelete,
                                      WriteRestock, WriteOver, Throws
<1>9. ASSUME AtOnce PROVE Fine
  BY <1>2, <1>6, <1>7, <1>9 DEF AtOnce, AdminPatch, AdminDelete, CompleteOrder
<1>10. ASSUME UNCHANGED vars PROVE Fine
  BY <1>2, <1>10 DEF vars
<1>. QED
  BY <1>3, <1>8, <1>9, <1>10 DEF Next

\* However stale the numbers are that orders write into offers, an offer they
\* leave active has something to sell (updateOfferStock).
THEOREM ActiveOffersKeepSelling == Spec => ActiveOffersSell
<1> DEFINE Sell == \A f \in Offers : offerStatus[f] # "none" /\ offerStatus'[f] = "Active"
                     => offerQty'[f] = offerQty[f] \/ offerQty'[f] > 0
<1>1. Base /\ [Next]_vars => [Sell]_vars
  BY OfferStep
<1>. QED
  BY <1>1, BaseInit, BaseStep, PTL DEF Spec, ActiveOffersSell

\* No handler makes an expired or closed offer active again (updateOfferStock,
\* handleCron, OffersController.update, ProductsService.delete).
THEOREM OffersRetireForGood == Spec => RetiredForGood
<1> DEFINE Retired == \A f \in Offers : offerStatus[f] \in {"Expired", "Closed"}
                        => offerStatus'[f] \in {"Expired", "Closed"}
<1>1. Base /\ [Next]_vars => [Retired]_vars
  BY OfferStep
<1>. QED
  BY <1>1, BaseInit, BaseStep, PTL DEF Spec, RetiredForGood

-----------------------------------------------------------------------------
(***************************************************************************)
(* One request at a time                                                   *)
(***************************************************************************)

\* The part of the invariant that is about the orders, the offers and stock.
Settled == OffersNearlyHonest /\ NoDeleteWithOrders

\* What a step does to the promise of an offer: one that is too much has just
\* been made without a quantity, or is the one it was.
Honestly ==
  \A f \in Offers : "patch" \notin Env /\ Overpromises(f)' =>
    \/ offerStatus[f] = "none" /\ offerQty'[f] = DefaultQuantity
    \/ Overpromises(f) /\ offerQty'[f] = offerQty[f]

LEMMA HonestlySettled ==
  ASSUME Settled, Honestly
  PROVE  OffersNearlyHonest'
BY DEF Settled, Honestly, OffersNearlyHonest

LEMMA IInvParts == ASSUME "overlap" \notin Env
  PROVE IInv <=> Base /\ Alone /\ (\A r \in Requests : Busy(r) => Current(job[r])) /\ Settled
BY DEF IInv, Base, CurrentInv, SerialInv, Settled

\* After a step of r, when all the others are idle, r is still alone.
LEMMA AloneStep ==
  ASSUME Base, NEW r \in Requests, \A s \in Requests : s # r => ~Busy(s),
         NEW j, job' = [job EXCEPT ![r] = j], j # Idle => Current(j)'
  PROVE  /\ Alone'
         /\ \A s \in Requests : Busy(s)' => Current(job[s])'
<1>1. \A s \in Requests : job'[s] = IF s = r THEN j ELSE Idle
  BY DEF Base, TypeOK, Busy
<1>2. Alone'
  BY <1>1 DEF Alone, Busy
<1>3. ASSUME NEW s \in Requests, job'[s] # Idle PROVE Current(job[s])'
  <2>1. s = r /\ job'[s] = j
    BY <1>1, <1>3
  <2>2. Current(j)'
    BY <1>3, <2>1
  <2>. QED
    BY <2>1, <2>2 DEF Current
<1>. QED
  BY <1>2, <1>3 DEF Busy

\* A step that changes no row keeps what is said about the rows.
LEMMA SettledSame ==
  ASSUME Settled, UNCHANGED <<productRows, offerRows, order>>
  PROVE  Settled' /\ Honestly
<1>1. Honestly
  BY DEF Honestly, Overpromises, productRows, offerRows
<1>2. NoDeleteWithOrders'
  BY DEF Settled, NoDeleteWithOrders, ActiveOrders, productRows
<1>. QED
  BY <1>1, <1>2, HonestlySettled DEF Settled

LEMMA CurrentSame ==
  ASSUME NEW j, Current(j), UNCHANGED <<productRows, offerRows, order>>
  PROVE  Current(j)'
BY DEF Current, ToLower, OffersOn, ActiveOrders, productRows, offerRows

LEMMA SerialInit == ASSUME "overlap" \notin Env PROVE Init => IInv
<1> SUFFICES ASSUME Init PROVE IInv
  OBVIOUS
<1>1. Base
  BY BaseInit
<1>2. Alone /\ \A r \in Requests : Busy(r) => Current(job[r])
  BY DEF Init, Alone, Busy
<1>3. Settled
  BY DEF Init, Settled, OffersNearlyHonest, Overpromises, NoDeleteWithOrders
<1>. QED
  BY <1>1, <1>2, <1>3, IInvParts

LEMMA SerialStart ==
  ASSUME "overlap" \notin Env, IInv, NEW r \in Requests, Start(r)
  PROVE  IInv' /\ Honestly
<1>1. Base /\ Settled
  BY IInvParts
<1>2. Base'
  BY <1>1, BaseStart
<1>3. /\ \A p \in Products : stock[p] \in Int
      /\ \A f \in Offers : offerQty[f] \in Int
      /\ \A q \in Quantities : q \in Int
      /\ \A f \in Offers : ProductOf[f] \in Products
  BY <1>1, InventoryAssumption DEF Base, TypeOK
\* It is enough to look at what the request has read.
<1>4. ASSUME MayStart(r), UNCHANGED <<productRows, offerRows, order>>,
             NEW j, job' = [job EXCEPT ![r] = j], Current(j)
      PROVE  IInv' /\ Honestly
  <2>1. \A s \in Requests : ~Busy(s)
    BY <1>4 DEF MayStart, MayAct, Quiet
  <2>2. Current(j)'
    BY <1>4, CurrentSame
  <2>3. Alone' /\ \A s \in Requests : Busy(s)' => Current(job[s])'
    BY <1>1, <1>4, <2>1, <2>2, AloneStep
  <2>4. Settled' /\ Honestly
    BY <1>1, <1>4, SettledSame
  <2>. QED
    BY <1>2, <2>3, <2>4 DEF IInv, Base, CurrentInv, SerialInv, Settled
<1>5. ASSUME NEW p \in Products, NEW q \in Quantities, ReadForOrder(r, p, q)
      PROVE  IInv' /\ Honestly
  <2> DEFINE j == OrderJob("chat", p, q, Nothing, 0, stock[p] - q, ToLower(p, stock[p] - q))
  <2>1. Current(j)
    BY <1>3, <1>5 DEF Current, OrderJob, ReadForOrder, ToLower
  <2>2. /\ MayStart(r) /\ job' = [job EXCEPT ![r] = j]
        /\ UNCHANGED <<productRows, offerRows, order>>
    BY <1>5 DEF ReadForOrder
  <2>. QED
    BY <1>4, <2>1, <2>2
<1>6. ASSUME NEW p \in Products, NEW q \in OfferQuantities \cup {DefaultQuantity},
             ReadForNewOffer(r, p, q)
      PROVE  IInv' /\ Honestly
  <2> DEFINE j == NewJob("offer", p, q, 0, Nothing)
  <2>1. Current(j)
    BY <1>6 DEF Current, NewJob, ReadForNewOffer
  <2>2. /\ MayStart(r) /\ job' = [job EXCEPT ![r] = j]
        /\ UNCHANGED <<productRows, offerRows, order>>
    BY <1>6 DEF ReadForNewOffer
  <2>. QED
    BY <1>4, <2>1, <2>2
<1>7. ASSUME NEW f \in Offers, NEW q \in Quantities, ReadOffer(r, f, q)
      PROVE  IInv' /\ Honestly
  <2> DEFINE j == OrderJob("product", ProductOf[f], q, f, offerQty[f] - q, 0, {})
  <2>1. Current(j)
    BY <1>7 DEF Current, OrderJob, ReadOffer
  <2>2. /\ MayStart(r) /\ job' = [job EXCEPT ![r] = j]
        /\ UNCHANGED <<productRows, offerRows, order>>
    BY <1>7 DEF ReadOffer
  <2>. QED
    BY <1>4, <2>1, <2>2
<1>8. ASSUME NEW p \in Products, NEW n \in StockValues, ReadForPatch(r, p, n)
      PROVE  IInv' /\ Honestly
  <2> DEFINE j == NewJob("patch", p, 0, n, Nothing)
  <2>1. Current(j)
    BY DEF Current, NewJob
  <2>2. /\ MayStart(r) /\ job' = [job EXCEPT ![r] = j]
        /\ UNCHANGED <<productRows, offerRows, order>>
    BY <1>8 DEF ReadForPatch
  <2>. QED
    BY <1>4, <2>1, <2>2
<1>9. ASSUME NEW p \in Products, ReadForDelete(r, p)
      PROVE  IInv' /\ Honestly
  <2> DEFINE j == NewJob("delete", p, 0, 0, Nothing)
  <2>1. Current(j)
    BY <1>9 DEF Current, NewJob, ReadForDelete
  <2>2. /\ MayStart(r) /\ job' = [job EXCEPT ![r] = j]
        /\ UNCHANGED <<productRows, offerRows, order>>
    BY <1>9 DEF ReadForDelete
  <2>. QED
    BY <1>4, <2>1, <2>2
<1>10. ASSUME NEW o \in OrderIds, ReadForRestock(r, o)
      PROVE  IInv' /\ Honestly
  <2> DEFINE p == order[o].product
  <2> DEFINE q == order[o].qty
  <2> DEFINE j == NewJob("restock", p, q, stock[p] + q, o)
  <2>1. Current(j)
    BY <1>10 DEF Current, NewJob, ReadForRestock
  <2>2. /\ MayStart(r) /\ job' = [job EXCEPT ![r] = j]
        /\ UNCHANGED <<productRows, offerRows, order>>
    BY <1>10 DEF ReadForRestock
  <2>. QED
    BY <1>4, <2>1, <2>2
<1>. QED
  BY <1>5, <1>6, <1>7, <1>8, <1>9, <1>10 DEF Start

\* What a transaction leaves in an active offer is no more than it leaves in
\* the stock, if what its request has read is still true.
LEMMA PlaceOrderSettled ==
  ASSUME Base, Settled, NEW r \in Requests, job[r] \in Job, JobFits(job[r]), Current(job[r]),
         NEW o \in OrderIds, PlaceOrder(r, o)
  PROVE  Settled' /\ Honestly /\ job[r].qty <= stock[job[r].product]
<1> DEFINE j == job[r]
<1>1. /\ \A p \in Products : stock[p] \in Int
      /\ \A f \in Offers : offerQty[f] \in Int /\ ProductOf[f] \in Products
      /\ \A q \in Quantities : q \in Int /\ q > 0
      /\ stock \in [Products -> Int] /\ order \in [OrderIds -> Order \cup {NoOrder}]
  BY InventoryAssumption DEF Base, TypeOK
<1>2. /\ j.pc = "commit"
      /\ stock' = [stock EXCEPT ![j.product] = j.new]
      /\ offerStatus' = [f \in Offers |-> Lowered(j, f).status]
      /\ offerQty' = [f \in Offers |-> Lowered(j, f).qty]
      /\ order' = [order EXCEPT ![o] = [state |-> "active", product |-> j.product,
                                       qty |-> j.qty]]
      /\ deleted' = deleted
  BY DEF PlaceOrder
<1>3. /\ j.product \in Products /\ j.qty \in Quantities /\ j.new \in Int
      /\ j.offer \in Offers \cup {Nothing}
  BY <1>2 DEF Job, JobFits
<1>4. /\ j.qty <= stock[j.product]
      /\ j.offer # Nothing => j.left = offerQty[j.offer] - j.qty /\ ProductOf[j.offer] = j.product
      /\ j.new = stock[j.product] - j.qty
      /\ \A f \in ToLower(j.product, j.new) : f = j.offer \/ f \in j.lower
      /\ \A f \in j.lower : ProductOf[f] = j.product
      /\ j.product \notin deleted
  BY <1>2 DEF Current, OffersOn, JobFits
<1>5. Honestly
  <2> SUFFICES ASSUME "patch" \notin Env, NEW f \in Offers, offerStatus'[f] = "Active",
                      offerQty'[f] > stock'[ProductOf[f]]
               PROVE  Overpromises(f) /\ offerQty'[f] = offerQty[f]
    BY DEF Honestly, Overpromises
  <2>1. offerStatus'[f] = Lowered(j, f).status /\ offerQty'[f] = Lowered(j, f).qty
    BY <1>2
  <2>2. offerStatus[f] = "Active"
    BY <2>1 DEF Lowered, updateOfferStock
  <2>3. offerQty[f] > stock[ProductOf[f]] => offerQty[f] = 1
    BY <2>2 DEF Settled, OffersNearlyHonest, Overpromises, DefaultQuantity
  <2>4. stock'[j.product] = stock[j.product] - j.qty
    BY <1>1, <1>2, <1>3, <1>4
  <2>5. CASE f = j.offer
    <3>1. offerQty'[f] = j.left /\ ~(j.left <= 0)
      BY <2>1, <2>5 DEF Lowered, updateOfferStock
    <3>2. j.left = offerQty[f] - j.qty /\ ProductOf[f] = j.product
      BY <1>4, <2>5, InventoryAssumption
    <3>3. stock[j.product] \in Int /\ offerQty[f] \in Int /\ j.qty \in Int
      BY <1>1, <1>3
    <3>. QED
      BY <1>1, <1>3, <2>3, <2>4, <3>1, <3>2, <3>3
  <2>6. CASE f # j.offer /\ f \in j.lower
    <3>1. offerQty'[f] = j.new
      BY <2>1, <2>6 DEF Lowered, updateOfferStock
    <3>2. ProductOf[f] = j.product
      BY <1>4, <2>6
    <3>. QED
      BY <1>3, <1>4, <2>4, <3>1, <3>2
  <2>7. CASE f # j.offer /\ f \notin j.lower
    <3>1. offerQty'[f] = offerQty[f]
      BY <2>1, <2>7 DEF Lowered
    <3>2. CASE ProductOf[f] # j.product
      BY <1>1, <1>2, <2>2, <3>1, <3>2 DEF Overpromises
    <3>3. CASE ProductOf[f] = j.product
      <4>1. f \notin ToLower(j.product, j.new)
        BY <1>4, <2>7
      <4>2. ~(j.new <= offerQty[f])
        BY <2>2, <3>3, <4>1 DEF ToLower, OffersOn
      <4>. QED
        BY <1>1, <1>3, <1>4, <2>4, <3>1, <3>3, <4>2
    <3>. QED
      BY <3>2, <3>3
  <2>. QED
    BY <2>5, <2>6, <2>7
<1>6. NoDeleteWithOrders'
  <2> SUFFICES ASSUME "adminDelete" \notin Env, NEW p \in deleted, NEW oo \in OrderIds,
                      order'[oo].state \in {"active", "releaseFailed", "refundFailed"},
                      order'[oo].product = p
               PROVE  FALSE
    BY <1>2 DEF NoDeleteWithOrders, ActiveOrders
  <2>1. CASE oo = o
    BY <1>1, <1>2, <1>4, <2>1
  <2>2. CASE oo # o
    BY <1>1, <1>2, <2>2 DEF Settled, NoDeleteWithOrders, ActiveOrders
  <2>. QED
    BY <2>1, <2>2
<1>. QED
  BY <1>4, <1>5, <1>6, HonestlySettled DEF Settled

\* Orders whose payout is tried, and offers that stop being active, break
\* nothing.
LEMMA SettledByLess ==
  ASSUME Base, Settled, UNCHANGED <<stock, deleted, offerQty>>,
         \A f \in Offers : offerStatus'[f] = "Active" => offerStatus[f] = "Active",
         \A p \in Products : ActiveOrders(p)' \subseteq ActiveOrders(p)
  PROVE  Settled' /\ Honestly
<1>1. Honestly
  BY DEF Honestly, Overpromises
<1>2. NoDeleteWithOrders'
  BY DEF Settled, NoDeleteWithOrders, Base, TypeOK
<1>. QED
  BY <1>1, <1>2, HonestlySettled DEF Settled

\* An order that was active is of the same product, whatever becomes of it.
LEMMA StillActive ==
  ASSUME Base, NEW o \in OrderIds, order[o].state = "active", NEW s,
         order' = [order EXCEPT ![o] = [@ EXCEPT !.state = s]]
  PROVE  \A p \in Products : ActiveOrders(p)' \subseteq ActiveOrders(p)
<1>1. order \in [OrderIds -> Order \cup {NoOrder}]
  BY DEF Base, TypeOK
<1>2. order[o] \in Order
  BY <1>1 DEF NoOrder
<1>3. order'[o].product = order[o].product
  BY <1>1, <1>2 DEF Order
<1>4. \A oo \in OrderIds : oo # o => order'[oo] = order[oo]
  BY <1>1
<1>. QED
  BY <1>3, <1>4 DEF ActiveOrders

\* A product without active orders may go.
LEMMA DeleteSettled ==
  ASSUME Base, Settled, NEW p \in Products, Delete(p),
         "adminDelete" \notin Env => ActiveOrders(p) = {}
  PROVE  Settled' /\ Honestly
<1>1. Honestly
  BY DEF Honestly, Overpromises, Delete
<1>2. NoDeleteWithOrders'
  BY DEF Settled, NoDeleteWithOrders, ActiveOrders, Delete
<1>. QED
  BY <1>1, <1>2, HonestlySettled DEF Settled

LEMMA SerialContinue ==
  ASSUME "overlap" \notin Env, IInv, NEW r \in Requests, Continue(r)
  PROVE  IInv' /\ Honestly
<1> DEFINE j == job[r]
<1>1. Base /\ Settled /\ Alone
  BY IInvParts
<1>2. Base'
  BY <1>1, BaseContinue
<1>3. ASSUME j.pc \in Waiting
      PROVE  j \in Job /\ JobFits(j) /\ Current(j) /\ Busy(r)
  BY <1>1, <1>3, BusyIsJob, IInvParts DEF Base, JobInv
<1>4. /\ \A p \in Products : stock[p] \in Int
      /\ \A f \in Offers : offerQty[f] \in Int /\ ProductOf[f] \in Products
      /\ \A q \in Quantities : q \in Int /\ q > 0
      /\ stock \in [Products -> Int] /\ order \in [OrderIds -> Order \cup {NoOrder}]
      /\ offerStatus \in [Offers -> OfferStatus] /\ offerQty \in [Offers -> Int]
  BY <1>1, InventoryAssumption DEF Base, TypeOK
\* It is enough to look at what the request goes on with, and at the rows.
<1>5. ASSUME Busy(r), Settled' /\ Honestly, NEW k, job' = [job EXCEPT ![r] = k], k # Idle => Current(k)'
      PROVE  IInv' /\ Honestly
  <2>1. \A s \in Requests : s # r => ~Busy(s)
    BY <1>1, <1>5 DEF Alone
  <2>2. Alone' /\ \A s \in Requests : Busy(s)' => Current(job[s])'
    BY <1>1, <1>5, <2>1, AloneStep
  <2>. QED
    BY <1>2, <1>5, <2>2 DEF IInv, Base, CurrentInv, SerialInv, Settled
<1>6. CASE ReadProduct(r)
  <2> DEFINE left == stock[j.product] - j.qty
  <2>0. PICK k : k = OrderJob("chat", j.product, j.qty, j.offer, j.left, left,
                              ToLower(j.product, left) \ {j.offer})
    OBVIOUS
  <2>1. j.pc = "product" /\ "product" \in Waiting
    BY <1>6 DEF ReadProduct, Waiting
  <2>2. j \in Job /\ JobFits(j) /\ Current(j) /\ Busy(r)
    BY <1>3, <2>1
  <2>3. Current(k)
    BY <1>6, <2>0, <2>1, <2>2 DEF Current, OrderJob, ToLower, ReadProduct
  <2>4. job' = [job EXCEPT ![r] = k] /\ UNCHANGED <<productRows, offerRows, order>>
    BY <1>6, <2>0 DEF ReadProduct
  <2>5. Settled' /\ Honestly /\ Current(k)'
    BY <1>1, <2>3, <2>4, SettledSame, CurrentSame
  <2>. QED
    BY <1>5, <2>2, <2>4, <2>5
<1>7. CASE GetChat(r)
  <2>0. PICK k : k = [j EXCEPT !.pc = "commit"]
    OBVIOUS
  <2>1. j.pc = "chat" /\ "chat" \in Waiting
    BY <1>7 DEF GetChat, Waiting
  <2>2. j \in Job /\ JobFits(j) /\ Current(j) /\ Busy(r)
    BY <1>3, <2>1
  <2>3. /\ k.pc = "commit" /\ k.product = j.product /\ k.qty = j.qty /\ k.offer = j.offer
        /\ k.left = j.left /\ k.new = j.new /\ k.lower = j.lower
    BY <2>0, <2>2 DEF Job
  <2>5. Current(k)
    BY <2>1, <2>2, <2>3 DEF Current
  <2>6. job' = [job EXCEPT ![r] = k] /\ UNCHANGED <<productRows, offerRows, order>>
    BY <1>7, <2>0 DEF GetChat
  <2>7. Settled' /\ Honestly /\ Current(k)'
    BY <1>1, <2>5, <2>6, SettledSame, CurrentSame
  <2>. QED
    BY <1>5, <2>2, <2>6, <2>7
<1>8. ASSUME NEW o \in OrderIds, PlaceOrder(r, o)
      PROVE  IInv' /\ Honestly
  <2>1. j.pc = "commit" /\ "commit" \in Waiting
    BY <1>8 DEF PlaceOrder, Waiting
  <2>2. j \in Job /\ JobFits(j) /\ Current(j) /\ Busy(r)
    BY <1>3, <2>1
  <2>3. Settled' /\ Honestly
    BY <1>1, <1>8, <2>2, PlaceOrderSettled
  <2>. QED
    BY <1>5, <1>8, <2>2, <2>3 DEF PlaceOrder
<1>9. ASSUME NEW f \in Offers, WriteOffer(r, f)
      PROVE  IInv' /\ Honestly
  <2>1. j.pc = "offer" /\ "offer" \in Waiting
    BY <1>9 DEF WriteOffer, Waiting
  <2>2. j \in Job /\ Current(j) /\ Busy(r)
    BY <1>3, <2>1
  <2>3. j.qty <= stock[ProductOf[f]] \/ j.qty = DefaultQuantity
    BY <1>9, <2>1, <2>2 DEF Current, WriteOffer
  <2>4. /\ offerStatus' = [offerStatus EXCEPT ![f] = "Active"]
        /\ offerQty' = [offerQty EXCEPT ![f] = j.qty]
        /\ UNCHANGED <<stock, deleted, order>>
    BY <1>9 DEF WriteOffer, productRows
  <2>5. Settled' /\ Honestly
    <3>1. j.qty \in Int /\ stock[ProductOf[f]] \in Int /\ offerStatus[f] = "none"
      BY <1>4, <1>9, <2>2 DEF Job, WriteOffer
    <3>2. Honestly
      BY <1>4, <2>3, <2>4, <3>1 DEF Honestly, Overpromises
    <3>3. NoDeleteWithOrders'
      BY <1>1, <2>4 DEF Settled, NoDeleteWithOrders, ActiveOrders
    <3>. QED
      BY <1>1, <3>2, <3>3, HonestlySettled DEF Settled
  <2>. QED
    BY <1>5, <1>9, <2>2, <2>5 DEF WriteOffer
<1>10. CASE WritePatch(r)
  <2>1. j.pc = "patch" /\ "patch" \in Waiting
    BY <1>10 DEF WritePatch, Waiting
  <2>2. JobFits(j) /\ Busy(r)
    BY <1>3, <2>1
  <2>3. "patch" \in Env
    BY <2>1, <2>2 DEF JobFits
  <2>4. Settled' /\ Honestly
    BY <1>1, <1>10, <2>3 DEF WritePatch, Settled, OffersNearlyHonest, Honestly,
                             NoDeleteWithOrders, ActiveOrders
  <2>. QED
    BY <1>5, <1>10, <2>2, <2>4 DEF WritePatch
<1>11. CASE WriteDelete(r)
  <2>1. j.pc = "delete" /\ "delete" \in Waiting
    BY <1>11 DEF WriteDelete, Waiting
  <2>2. j \in Job /\ Current(j) /\ Busy(r)
    BY <1>3, <2>1
  <2>3. ActiveOrders(j.product) = {} /\ j.product \in Products
    BY <2>1, <2>2 DEF Current, Job
  <2>4. Settled' /\ Honestly
    BY <1>1, <1>11, <2>3, DeleteSettled DEF WriteDelete
  <2>. QED
    BY <1>5, <1>11, <2>2, <2>4 DEF WriteDelete
<1>12. CASE WriteRestock(r)
  <2>0. PICK k : k = [j EXCEPT !.pc = "over"]
    OBVIOUS
  <2>1. j.pc = "restock" /\ "restock" \in Waiting
    BY <1>12 DEF WriteRestock, Waiting
  <2>2. j \in Job /\ JobFits(j) /\ Current(j) /\ Busy(r)
    BY <1>3, <2>1
  <2>3. j.product \in Products /\ j.qty \in Quantities
    BY <2>1, <2>2 DEF Job, JobFits
  <2>4. /\ stock' = [stock EXCEPT ![j.product] = j.new]
        /\ job' = [job EXCEPT ![r] = k]
        /\ UNCHANGED <<deleted, offerStatus, offerQty, order>>
    BY <1>12, <2>0 DEF WriteRestock, offerRows
  <2>5. j.new = stock[j.product] + j.qty
    BY <2>1, <2>2 DEF Current
  <2>6. \A p \in Products : stock[p] <= stock'[p] /\ stock'[p] \in Int
    <3>1. stock[j.product] \in Int /\ j.qty \in Int /\ j.qty > 0
      BY <1>4, <2>3
    <3>2. stock[j.product] <= j.new /\ j.new \in Int
      BY <2>5, <3>1
    <3>. QED
      BY <1>4, <2>4, <3>2
  <2>7. Honestly
    <3> SUFFICES ASSUME NEW f \in Offers, offerStatus'[f] = "Active",
                        offerQty'[f] > stock'[ProductOf[f]]
                 PROVE  Overpromises(f) /\ offerQty'[f] = offerQty[f]
      BY DEF Honestly, Overpromises
    <3>. QED
      BY <1>4, <2>4, <2>6 DEF Overpromises
  <2>8. NoDeleteWithOrders'
    BY <1>1, <2>4 DEF Settled, NoDeleteWithOrders, ActiveOrders
  <2>9. k.pc = "over"
    BY <2>0, <2>2 DEF Job
  <2>10. Current(k)'
    <3>1. order[j.order].state = "active" /\ k.order = j.order
      BY <2>0, <2>1, <2>2 DEF Current, Job
    <3>. QED
      BY <2>4, <2>9, <3>1 DEF Current
  <2>11. Settled' /\ Honestly
    BY <1>1, <2>7, <2>8, HonestlySettled DEF Settled
  <2>. QED
    BY <1>5, <2>2, <2>4, <2>10, <2>11
<1>13. CASE WriteOver(r)
  <2>1. j.pc = "over" /\ "over" \in Waiting
    BY <1>13 DEF WriteOver, Waiting
  <2>2. JobFits(j) /\ Current(j) /\ Busy(r)
    BY <1>3, <2>1
  <2>3. j.order \in OrderIds /\ order[j.order].state = "active"
    BY <2>1, <2>2 DEF JobFits, Current
  <2>4. PICK s \in {"returned", "refundFailed"} :
             order' = [order EXCEPT ![j.order].state = s]
    BY <1>13 DEF WriteOver
  <2>5. \A p \in Products : ActiveOrders(p)' \subseteq ActiveOrders(p)
    BY <1>1, <2>3, <2>4, StillActive
  <2>6. UNCHANGED <<stock, deleted, offerStatus, offerQty>>
    BY <1>13 DEF WriteOver, productRows, offerRows
  <2>7. Settled' /\ Honestly
    BY <1>1, <2>5, <2>6, SettledByLess
  <2>. QED
    BY <1>5, <1>13, <2>2, <2>7 DEF WriteOver
<1>14. CASE Throws(r)
  <2>1. Settled' /\ Honestly
    BY <1>1, <1>14, SettledSame DEF Throws
  <2>. QED
    BY <1>5, <1>14, <2>1 DEF Throws
<1>. QED
  BY <1>6, <1>7, <1>8, <1>9, <1>10, <1>11, <1>12, <1>13, <1>14 DEF Continue

LEMMA SerialAtOnce ==
  ASSUME "overlap" \notin Env, IInv, AtOnce
  PROVE  IInv' /\ Honestly
<1>1. Base /\ Settled
  BY IInvParts
<1>2. Base'
  BY <1>1, BaseAtOnce
<1>3. Quiet /\ job' = job
  BY DEF AtOnce, ExpireOffer, CloseOffer, AdminPatch, AdminDelete, CompleteOrder, MayAct
<1>4. Alone' /\ \A s \in Requests : Busy(s)' => Current(job[s])'
  BY <1>3 DEF Quiet, Alone, Busy
<1>5. Settled' /\ Honestly
  <2>1. /\ order \in [OrderIds -> Order \cup {NoOrder}]
        /\ offerStatus \in [Offers -> OfferStatus]
    BY <1>1 DEF Base, TypeOK
  <2>2. ASSUME NEW f \in Offers, ExpireOffer(f) \/ CloseOffer(f)
        PROVE  Settled' /\ Honestly
    <3>1. UNCHANGED <<stock, deleted, offerQty, order>>
      BY <2>2 DEF ExpireOffer, CloseOffer, productRows
    <3>2. \A g \in Offers : offerStatus'[g] = "Active" => offerStatus[g] = "Active"
      BY <2>1, <2>2 DEF ExpireOffer, CloseOffer
    <3>3. \A p \in Products : ActiveOrders(p)' \subseteq ActiveOrders(p)
      BY <3>1 DEF ActiveOrders
    <3>. QED
      BY <1>1, <3>1, <3>2, <3>3, SettledByLess
  <2>3. ASSUME NEW p \in Products, NEW n \in StockValues, AdminPatch(p, n)
        PROVE  Settled' /\ Honestly
    BY <1>1, <2>3 DEF AdminPatch, Settled, OffersNearlyHonest, Honestly, NoDeleteWithOrders,
                      ActiveOrders
  <2>4. ASSUME NEW p \in Products, AdminDelete(p)
        PROVE  Settled' /\ Honestly
    BY <1>1, <2>4, DeleteSettled DEF AdminDelete
  <2>5. ASSUME NEW o \in OrderIds, CompleteOrder(o)
        PROVE  Settled' /\ Honestly
    <3>1. PICK s \in {"completed", "releaseFailed"} : order' = [order EXCEPT ![o].state = s]
      BY <2>5 DEF CompleteOrder
    <3>2. UNCHANGED <<stock, deleted, offerStatus, offerQty>> /\ order[o].state = "active"
      BY <2>5 DEF CompleteOrder, productRows, offerRows
    <3>3. \A p \in Products : ActiveOrders(p)' \subseteq ActiveOrders(p)
      BY <1>1, <3>1, <3>2, StillActive
    <3>. QED
      BY <1>1, <3>2, <3>3, SettledByLess
  <2>. QED
    BY <2>2, <2>3, <2>4, <2>5 DEF AtOnce
<1>. QED
  BY <1>2, <1>4, <1>5 DEF IInv, Base, CurrentInv, SerialInv, Settled

LEMMA SerialStep ==
  ASSUME "overlap" \notin Env, IInv, [Next]_vars
  PROVE  IInv' /\ Honestly
<1>1. ASSUME UNCHANGED vars PROVE IInv' /\ Honestly
  <2>1. UNCHANGED <<stock, deleted, offerStatus, offerQty, order, job>>
    BY <1>1 DEF vars, productRows, offerRows
  <2>2. Base'
    BY <1>1, <2>1, BaseStep, IInvParts DEF vars, productRows, offerRows
  <2>3. CurrentInv'
    BY <2>1 DEF IInv, CurrentInv, Alone, Busy, Current, ToLower, OffersOn, ActiveOrders
  <2>4. Settled' /\ Honestly
    BY <2>1, SettledSame, IInvParts DEF productRows, offerRows
  <2>. QED
    BY <2>2, <2>3, <2>4 DEF IInv, Base, SerialInv, Settled
<1>. QED
  BY <1>1, SerialStart, SerialContinue, SerialAtOnce DEF Next

-----------------------------------------------------------------------------
(***************************************************************************)
(* The theorems about requests that run one at a time                      *)
(***************************************************************************)

\* The inductive invariant: what a request has read is still true when it
\* writes (orders.service.ts, offers.service.ts, products.controller.ts).
THEOREM SerialInductive == "overlap" \notin Env => (Spec => []IInv)
<1> SUFFICES ASSUME "overlap" \notin Env PROVE Spec => []IInv
  OBVIOUS
<1>1. Init => IInv
  BY SerialInit
<1>2. IInv /\ [Next]_vars => IInv'
  BY SerialStep
<1>. QED
  BY <1>1, <1>2, PTL DEF Spec

\* Orders, returns, expiries and offers of a stated number of pieces keep the
\* promises of the active offers within the stock (OffersService.create and
\* the lowering of the offers in updateOfferStock).
THEOREM OffersStayHonest == "overlap" \notin Env => (Spec => OffersHonest)
<1> SUFFICES ASSUME "overlap" \notin Env PROVE Spec => OffersHonest
  OBVIOUS
<1> DEFINE Honest ==
      \A f \in Offers : "patch" \notin Env /\ Overpromises(f)' =>
        \/ offerStatus[f] = "none" /\ offerQty'[f] = DefaultQuantity
        \/ Overpromises(f)
<1>1. IInv /\ [Next]_vars => [Honest]_vars
  BY SerialStep DEF Honestly
<1>. QED
  BY <1>1, SerialInductive, PTL DEF Spec, OffersHonest

\* No product is deleted while an order on it is active (the check of
\* DELETE /products/:id).
THEOREM OrdersKeepProducts == "overlap" \notin Env => (Spec => []NoDeleteWithOrders)
<1> SUFFICES ASSUME "overlap" \notin Env PROVE Spec => []NoDeleteWithOrders
  OBVIOUS
<1>1. IInv => NoDeleteWithOrders
  BY DEF IInv, SerialInv
<1>. QED
  BY <1>1, SerialInductive, PTL

\* No order is created for more pieces than the product has (the checks of
\* createFromProduct and createFromOffer).
THEOREM NeverOversold == "overlap" \notin Env => (Spec => NoOversell)
<1> SUFFICES ASSUME "overlap" \notin Env PROVE Spec => NoOversell
  OBVIOUS
<1> DEFINE Sold == \A o \in OrderIds : order[o] = NoOrder /\ order'[o] # NoOrder
                    => order'[o].qty <= stock[order'[o].product]
<1>1. ASSUME IInv, [Next]_vars PROVE Sold \/ UNCHANGED vars
  <2>1. Base /\ Settled
    BY <1>1, IInvParts
  <2>2. order \in [OrderIds -> Order \cup {NoOrder}]
    BY <2>1 DEF Base, TypeOK
  <2>3. ASSUME NEW r \in Requests, NEW o \in OrderIds, PlaceOrder(r, o)
        PROVE  Sold
    <3>1. job[r].pc = "commit" /\ "commit" \in Waiting
      BY <2>3 DEF PlaceOrder, Waiting
    <3>2. job[r] \in Job /\ JobFits(job[r]) /\ Current(job[r])
      BY <1>1, <2>1, <3>1, BusyIsJob, IInvParts DEF Base, JobInv
    <3>3. job[r].qty <= stock[job[r].product]
      BY <2>1, <2>3, <3>2, PlaceOrderSettled
    <3>4. order' = [order EXCEPT ![o] = [state |-> "active", product |-> job[r].product,
                                         qty |-> job[r].qty]]
      BY <2>3 DEF PlaceOrder
    <3>. QED
      BY <2>2, <3>3, <3>4
  <2>4. ASSUME NEW r \in Requests, WriteOver(r)
        PROVE  Sold
    <3>1. job[r].pc = "over" /\ "over" \in Waiting
      BY <2>4 DEF WriteOver, Waiting
    <3>2. order[job[r].order] # NoOrder
      BY <2>1, <3>1, BusyIsJob DEF Base, JobInv, JobFits
    <3>. QED
      BY <2>2, <2>4, <3>2 DEF WriteOver
  <2>5. ASSUME NEW o \in OrderIds, CompleteOrder(o)
        PROVE  Sold
    BY <2>2, <2>5 DEF CompleteOrder, NoOrder
  <2>6. ASSUME order' = order PROVE Sold
    BY <2>6
  <2>7. ASSUME NEW r \in Requests, Start(r) PROVE Sold
    BY <2>6, <2>7 DEF Start, ReadForOrder, ReadForNewOffer, ReadOffer, ReadForPatch,
                      ReadForDelete, ReadForRestock
  <2>8. ASSUME NEW r \in Requests, Continue(r) PROVE Sold
    BY <2>3, <2>4, <2>6, <2>8 DEF Continue, ReadProduct, GetChat, WriteOffer, WritePatch,
                                  WriteDelete, Delete, WriteRestock, Throws
  <2>9. ASSUME AtOnce PROVE Sold
    BY <2>5, <2>6, <2>9 DEF AtOnce, ExpireOffer, CloseOffer, AdminPatch, AdminDelete, Delete
  <2>. QED
    BY <1>1, <2>7, <2>8, <2>9 DEF Next
<1>2. IInv /\ [Next]_vars => [Sold]_vars
  BY <1>1
<1>. QED
  BY <1>2, SerialInductive, PTL DEF Spec, NoOversell

-----------------------------------------------------------------------------
(***************************************************************************)
(* The balance of pieces                                                   *)
(***************************************************************************)

\* Requests run one at a time, and nobody sets the stock by hand.
Untouched == {"overlap", "patch"} \cap Env = {}

LEMMA KeptRows ==
  ASSUME TypeOK, IsFiniteSet(Placed), NEW p \in Products
  PROVE  /\ IsFiniteSet(Kept(p)) /\ Kept(p) \subseteq OrderIds
         /\ \A o \in Kept(p) : Qty[o] = order[o].qty /\ Qty[o] \in Int
<1>1. Kept(p) \subseteq Placed /\ Kept(p) \subseteq OrderIds
  BY DEF Kept, Holding, Placed, NoOrder
<1>2. IsFiniteSet(Kept(p))
  BY <1>1, FS_Subset
<1>3. ASSUME NEW o \in Kept(p) PROVE Qty[o] = order[o].qty /\ Qty[o] \in Int
  <2>1. order[o] \in Order
    BY <1>1 DEF TypeOK, Placed
  <2>2. order[o].qty \in Quantities /\ Quantities \subseteq Nat
    BY <2>1, InventoryAssumption DEF Order
  <2>3. Qty[o] = order[o].qty
    BY <1>1 DEF Qty
  <2>4. order[o].qty \in Nat
    BY <2>2
  <2>5. \A n \in Nat : n \in Int
    OBVIOUS
  <2>. QED
    BY <2>3, <2>4, <2>5
<1>. QED
  BY <1>1, <1>2, <1>3

\* A step after which the stock is what it was, and so is what is kept.
LEMMA BalanceSame ==
  ASSUME TypeOK, BalanceInv, UNCHANGED stock, Placed' = Placed,
         \A p \in Products : Kept(p)' = Kept(p),
         \A o \in OrderIds : order'[o].qty = order[o].qty,
         RestockFits'
  PROVE  BalanceInv'
<1>1. Qty' = Qty
  BY DEF Qty
<1>2. Balanced'
  BY <1>1 DEF BalanceInv, Balanced
<1>. QED
  BY <1>2 DEF BalanceInv

\* r is the only one at work, before a step that gives it the record k ...
LEMMA WhoGaveBack ==
  ASSUME NEW r \in Requests, \A s \in Requests : s # r => ~Busy(s), NEW o
  PROVE  GaveBack(o) <=> Busy(r) /\ job[r].pc = "over" /\ job[r].order = o
BY DEF GaveBack

\* ... and after it.
LEMMA AloneAfter ==
  ASSUME TypeOK, NEW r \in Requests, \A s \in Requests : s # r => ~Busy(s),
         NEW k, job' = [job EXCEPT ![r] = k],
         k # Idle /\ k.pc \in {"restock", "over"} =>
           order'[k.order] = [state |-> "active", product |-> k.product, qty |-> k.qty]
  PROVE  /\ RestockFits'
         /\ \A o : GaveBack(o)' <=> k # Idle /\ k.pc = "over" /\ k.order = o
<1>1. job'[r] = k /\ \A s \in Requests : s # r => job'[s] = Idle
  BY DEF TypeOK, Busy
<1>2. RestockFits'
  BY <1>1 DEF RestockFits, Busy
<1>3. \A o : GaveBack(o)' <=> k # Idle /\ k.pc = "over" /\ k.order = o
  BY <1>1 DEF GaveBack, Busy
<1>. QED
  BY <1>2, <1>3

\* A step that changes nothing of this but the record of one request.
LEMMA BalanceJobStep ==
  ASSUME TypeOK, BalanceInv, NEW r \in Requests, \A s \in Requests : s # r => ~Busy(s),
         Busy(r) => job[r].pc # "over",
         NEW k, job' = [job EXCEPT ![r] = k], k # Idle => k.pc # "over",
         k # Idle /\ k.pc = "restock" =>
           order[k.order] = [state |-> "active", product |-> k.product, qty |-> k.qty],
         UNCHANGED <<stock, order>>
  PROVE  BalanceInv'
<1>1. RestockFits' /\ \A o : ~GaveBack(o)'
  BY AloneAfter
<1>2. \A o : ~GaveBack(o)
  BY WhoGaveBack
<1>3. \A p \in Products : Kept(p)' = Kept(p)
  BY <1>1, <1>2 DEF Kept, Holding
<1>. QED
  BY <1>1, <1>3, BalanceSame DEF Placed

LEMMA BalanceStart ==
  ASSUME Untouched, TypeOK, BalanceInv, NEW r \in Requests, Start(r)
  PROVE  BalanceInv'
<1>1. (\A s \in Requests : ~Busy(s)) /\ UNCHANGED <<stock, order>>
  BY DEF Untouched, Start, ReadForOrder, ReadForNewOffer, ReadOffer, ReadForPatch, ReadForDelete,
         ReadForRestock, MayStart, MayAct, Quiet, productRows
<1>2. ASSUME NEW at \in {"product", "chat"}, NEW p, NEW q, NEW f, NEW left, NEW new, NEW lower,
             job' = [job EXCEPT ![r] = OrderJob(at, p, q, f, left, new, lower)]
      PROVE  BalanceInv'
  <2>1. OrderJob(at, p, q, f, left, new, lower).pc = at
    BY DEF OrderJob
  <2>. QED
    BY <1>1, <1>2, <2>1, BalanceJobStep
<1>3. ASSUME NEW at \in {"offer", "patch", "delete"}, NEW p, NEW q, NEW new, NEW o,
             job' = [job EXCEPT ![r] = NewJob(at, p, q, new, o)]
      PROVE  BalanceInv'
  <2>1. NewJob(at, p, q, new, o).pc = at
    BY DEF NewJob
  <2>. QED
    BY <1>1, <1>3, <2>1, BalanceJobStep
<1>4. ASSUME NEW o \in OrderIds, ReadForRestock(r, o)
      PROVE  BalanceInv'
  <2>1. PICK k : k = NewJob("restock", order[o].product, order[o].qty,
                            stock[order[o].product] + order[o].qty, o)
    OBVIOUS
  <2>2. /\ k.pc = "restock" /\ k.product = order[o].product /\ k.qty = order[o].qty
        /\ k.order = o
    BY <2>1 DEF NewJob
  <2>3. job' = [job EXCEPT ![r] = k] /\ order[o].state = "active"
    BY <1>4, <2>1 DEF ReadForRestock
  <2>4. order[o] \in Order
    BY <2>3 DEF TypeOK, NoOrder
  <2>5. order[k.order] = [state |-> "active", product |-> k.product, qty |-> k.qty]
    BY <2>2, <2>3, <2>4 DEF Order
  <2>. QED
    BY <1>1, <2>2, <2>3, <2>5, BalanceJobStep
<1>. QED
  BY <1>2, <1>3, <1>4 DEF Start, ReadForOrder, ReadForNewOffer, ReadOffer, ReadForPatch,
                          ReadForDelete

\* The pieces of a new order leave the stock.
LEMMA BalancePlaced ==
  ASSUME TypeOK, BalanceInv, NEW r \in Requests, \A s \in Requests : s # r => ~Busy(s),
         job[r] \in Job, JobFits(job[r]), Current(job[r]), NEW o \in OrderIds, PlaceOrder(r, o),
         NEW j, j = job[r]
  PROVE  BalanceInv'
<1>1. /\ j.pc = "commit" /\ order[o] = NoOrder
      /\ order' = [order EXCEPT ![o] = [state |-> "active", product |-> j.product,
                                       qty |-> j.qty]]
      /\ stock' = [stock EXCEPT ![j.product] = j.new]
      /\ job' = [job EXCEPT ![r] = Idle]
  BY DEF PlaceOrder
<1>2. /\ j.product \in Products /\ j.qty \in Quantities /\ j.qty \in Int
      /\ j.new = stock[j.product] - j.qty
  BY <1>1, InventoryAssumption DEF Job, JobFits, Current
<1>3. RestockFits' /\ (\A q : ~GaveBack(q)') /\ \A q : ~GaveBack(q)
  BY <1>1, AloneAfter, WhoGaveBack
<1>4. /\ order'[o] = [state |-> "active", product |-> j.product, qty |-> j.qty]
      /\ \A q \in OrderIds : q # o => order'[q] = order[q]
      /\ o \notin Placed /\ Placed' \subseteq Placed \cup {o}
  BY <1>1 DEF TypeOK, Placed
<1>5. IsFiniteSet(Placed')
  <2>1. IsFiniteSet(Placed \cup {o})
    BY FS_AddElement DEF BalanceInv
  <2>. QED
    BY <1>4, <2>1, FS_Subset
<1>6. /\ Kept(j.product)' = Kept(j.product) \cup {o}
      /\ \A p \in Products : p # j.product => Kept(p)' = Kept(p)
  BY <1>3, <1>4 DEF Kept, Holding, Placed, NoOrder
<1>7. Qty'[o] = j.qty /\ \A q \in OrderIds : q # o => Qty'[q] = Qty[q]
  BY <1>4 DEF Qty
<1>8. ASSUME NEW p \in Products
      PROVE  stock'[p] + SumFunctionOnSet(Qty', Kept(p)') = InitialStock
  <2>1. /\ IsFiniteSet(Kept(p)) /\ o \notin Kept(p)
        /\ \A q \in Kept(p) : Qty[q] \in Int /\ Qty'[q] = Qty[q]
    <3>1. /\ IsFiniteSet(Kept(p)) /\ Kept(p) \subseteq OrderIds
          /\ \A q \in Kept(p) : Qty[q] \in Int
      BY KeptRows DEF BalanceInv
    <3>2. o \notin Kept(p)
      BY <1>1 DEF Kept, Holding, NoOrder
    <3>. QED
      BY <1>7, <3>1, <3>2
  <2>2. SumFunctionOnSet(Qty', Kept(p)) = SumFunctionOnSet(Qty, Kept(p))
    BY <2>1, SumAgrees
  <2>3. stock[p] + SumFunctionOnSet(Qty, Kept(p)) = InitialStock
    BY DEF BalanceInv, Balanced
  <2>4. SumFunctionOnSet(Qty, Kept(p)) \in Int /\ stock[p] \in Int
    BY <2>1, SumType DEF TypeOK
  <2>5. CASE p = j.product
    <3>1. SumFunctionOnSet(Qty', Kept(p) \cup {o}) = SumFunctionOnSet(Qty', Kept(p)) + j.qty
      BY <1>2, <1>7, <2>1, SumAdd
    <3>2. stock'[p] = stock[p] - j.qty
      BY <1>1, <1>2, <2>5 DEF TypeOK
    <3>3. Kept(p)' = Kept(p) \cup {o}
      BY <1>6, <2>5 DEF Kept, Holding, GaveBack
    <3>. QED
      BY <1>2, <2>2, <2>3, <2>4, <3>1, <3>2, <3>3
  <2>6. CASE p # j.product
    <3>1. stock'[p] = stock[p] /\ Kept(p)' = Kept(p)
      BY <1>1, <1>6, <2>6 DEF TypeOK
    <3>. QED
      BY <2>2, <2>3, <3>1
  <2>. QED
    BY <2>5, <2>6
<1>. QED
  BY <1>3, <1>5, <1>8 DEF BalanceInv, Balanced

\* The pieces of an order that ends go back.
LEMMA BalanceRestocked ==
  ASSUME TypeOK, BalanceInv, NEW r \in Requests, \A s \in Requests : s # r => ~Busy(s), Busy(r),
         job[r] \in Job, JobFits(job[r]), Current(job[r]), WriteRestock(r),
         NEW j, j = job[r], NEW o, o = job[r].order
  PROVE  BalanceInv'
<1>1. /\ j.pc = "restock" /\ UNCHANGED order
      /\ stock' = [stock EXCEPT ![j.product] = j.new]
      /\ job' = [job EXCEPT ![r] = [j EXCEPT !.pc = "over"]]
  BY DEF WriteRestock
<1>2. /\ j.product \in Products /\ j.qty \in Int /\ o \in OrderIds /\ j.order = o
      /\ j.new = stock[j.product] + j.qty
      /\ order[o] = [state |-> "active", product |-> j.product, qty |-> j.qty]
  BY <1>1, InventoryAssumption DEF Job, JobFits, Current, BalanceInv, RestockFits
<1>3. PICK k : /\ job' = [job EXCEPT ![r] = k]
               /\ k # Idle /\ k.pc = "over" /\ k.order = o /\ k.product = j.product
               /\ k.qty = j.qty
  <2> DEFINE h == [j EXCEPT !.pc = "over"]
  <2>1. h.pc = "over" /\ h.order = o /\ h.product = j.product /\ h.qty = j.qty
    BY <1>2 DEF Job
  <2>2. job' = [job EXCEPT ![r] = h]
    BY <1>1
  <2>3. h # Idle
    <3>1. Idle.pc = "idle"
      BY DEF Idle
    <3>. QED
      BY <2>1, <3>1
  <2>. HIDE DEF h
  <2>4. PICK g : g = h
    OBVIOUS
  <2>5. /\ job' = [job EXCEPT ![r] = g]
        /\ g # Idle /\ g.pc = "over" /\ g.order = o /\ g.product = j.product /\ g.qty = j.qty
    BY <2>1, <2>2, <2>3, <2>4
  <2>. QED
    BY <2>5
<1>4. RestockFits' /\ (\A q : GaveBack(q)' <=> q = o) /\ \A q : ~GaveBack(q)
  <2>1. order'[k.order] = [state |-> "active", product |-> k.product, qty |-> k.qty]
    BY <1>1, <1>2, <1>3
  <2>2. RestockFits' /\ \A q : GaveBack(q)' <=> k # Idle /\ k.pc = "over" /\ k.order = q
    BY <1>3, <2>1, AloneAfter
  <2>3. \A q : ~GaveBack(q)
    BY <1>1, WhoGaveBack
  <2>. QED
    BY <1>3, <2>2, <2>3
<1>5. /\ Kept(j.product)' = Kept(j.product) \ {o} /\ o \in Kept(j.product)
      /\ \A p \in Products : p # j.product => Kept(p)' = Kept(p)
  BY <1>1, <1>2, <1>4 DEF Kept, Holding
<1>6. Qty' = Qty /\ Placed' = Placed /\ Qty[o] = j.qty
  BY <1>1, <1>2 DEF Qty, Placed
<1>7. ASSUME NEW p \in Products
      PROVE  stock'[p] + SumFunctionOnSet(Qty', Kept(p)') = InitialStock
  <2>1. /\ IsFiniteSet(Kept(p)) /\ \A q \in Kept(p) : Qty[q] \in Int
        /\ stock[p] + SumFunctionOnSet(Qty, Kept(p)) = InitialStock /\ stock[p] \in Int
    BY KeptRows DEF BalanceInv, Balanced, TypeOK
  <2>2. CASE p = j.product
    <3> DEFINE S == Kept(p) \ {o}
    <3>1. IsFiniteSet(S) /\ o \notin S /\ S \cup {o} = Kept(p) /\ \A q \in S : Qty[q] \in Int
      BY <1>5, <2>1, <2>2, FS_Subset
    <3>2. SumFunctionOnSet(Qty, S \cup {o}) = SumFunctionOnSet(Qty, S) + Qty[o]
      BY <1>2, <1>6, <3>1, SumAdd
    <3>3. SumFunctionOnSet(Qty, S) \in Int
      BY <3>1, SumType
    <3>4. stock'[p] = stock[p] + j.qty
      BY <1>1, <1>2, <2>2 DEF TypeOK
    <3>5. Kept(p)' = S
      BY <1>5, <2>2 DEF Kept, Holding, GaveBack
    <3>6. SumFunctionOnSet(Qty', Kept(p)') = SumFunctionOnSet(Qty, S)
      BY <1>6, <3>5
    <3>7. SumFunctionOnSet(Qty, Kept(p)) = SumFunctionOnSet(Qty, S) + j.qty
      BY <1>6, <3>1, <3>2
    <3>. HIDE DEF S
    <3>. QED
      BY <1>2, <2>1, <3>3, <3>4, <3>6, <3>7
  <2>3. CASE p # j.product
    <3>1. stock'[p] = stock[p] /\ Kept(p)' = Kept(p)
      BY <1>1, <1>5, <2>3 DEF TypeOK
    <3>. QED
      BY <1>6, <2>1, <3>1
  <2>. QED
    BY <2>2, <2>3
<1>. QED
  BY <1>4, <1>6, <1>7 DEF BalanceInv, Balanced

\* What is written of an order whose pieces went back, or of one that is
\* completed, leaves the pieces where they are.
LEMMA BalanceOver ==
  ASSUME TypeOK, BalanceInv, NEW r \in Requests, \A s \in Requests : s # r => ~Busy(s), Busy(r),
         job[r] \in Job, JobFits(job[r]), WriteOver(r), NEW o, o = job[r].order
  PROVE  BalanceInv'
<1>0. PICK s \in {"returned", "refundFailed"} : order' = [order EXCEPT ![o].state = s]
  BY DEF WriteOver
<1>1. /\ job[r].pc = "over" /\ o \in OrderIds /\ order[o].state = "active" /\ order[o] \in Order
      /\ order' = [order EXCEPT ![o] = [@ EXCEPT !.state = s]]
      /\ job' = [job EXCEPT ![r] = Idle] /\ UNCHANGED stock
  <2>1. /\ job[r].pc = "over" /\ UNCHANGED stock /\ job' = [job EXCEPT ![r] = Idle]
        /\ order' = [order EXCEPT ![o] = [@ EXCEPT !.state = s]]
    BY <1>0 DEF WriteOver, productRows
  <2>2. o \in OrderIds /\ order[o] # NoOrder
    BY <2>1 DEF JobFits
  <2>3. order[o] \in Order
    BY <2>2 DEF TypeOK
  <2>4. order[o] = [state |-> "active", product |-> job[r].product, qty |-> job[r].qty]
    BY <2>1 DEF BalanceInv, RestockFits
  <2>. QED
    BY <2>1, <2>2, <2>3, <2>4
<1>2. RestockFits' /\ (\A q : ~GaveBack(q)') /\ \A q : GaveBack(q) <=> q = o
  BY <1>1, AloneAfter, WhoGaveBack
<1>3. /\ order'[o].state = s /\ order'[o].qty = order[o].qty /\ order'[o] # NoOrder
      /\ order[o] # NoOrder
      /\ \A q \in OrderIds : q # o => order'[q] = order[q]
  <2>1. order'[o] = [order[o] EXCEPT !.state = s]
    BY <1>1 DEF TypeOK
  <2>. QED
    BY <1>1, <2>1 DEF TypeOK, Order, NoOrder
<1>4. Placed' = Placed /\ \A q \in OrderIds : order'[q].qty = order[q].qty
  BY <1>1, <1>3 DEF Placed
<1>5. \A p \in Products : Kept(p)' = Kept(p)
  BY <1>1, <1>2, <1>3 DEF Kept, Holding
<1>. QED
  BY <1>1, <1>2, <1>4, <1>5, BalanceSame

LEMMA BalanceContinue ==
  ASSUME Untouched, IInv, BalanceInv, NEW r \in Requests, Continue(r)
  PROVE  BalanceInv'
<1> DEFINE j == job[r]
<1>1. TypeOK /\ Base /\ Alone /\ "overlap" \notin Env
  BY IInvParts DEF Untouched, IInv, Base
<1>2. j.pc \in Waiting
  BY <1>1, JobIsNotIdle DEF TypeOK, Continue, ReadProduct, GetChat, PlaceOrder, WriteOffer, WritePatch, WriteDelete,
         WriteRestock, WriteOver, Throws, Waiting, Busy, Job
<1>3. j \in Job /\ JobFits(j) /\ Current(j) /\ Busy(r) /\ \A s \in Requests : s # r => ~Busy(s)
  BY <1>1, <1>2, BusyIsJob, IInvParts DEF Base, JobInv, Alone
<1>4. CASE ReadProduct(r)
  <2> DEFINE left == stock[j.product] - j.qty
  <2>1. PICK k : k = OrderJob("chat", j.product, j.qty, j.offer, j.left, left,
                              ToLower(j.product, left) \ {j.offer})
    OBVIOUS
  <2>2. /\ j.pc = "product" /\ k.pc = "chat"
        /\ job' = [job EXCEPT ![r] = k] /\ UNCHANGED <<stock, order>>
    BY <1>4, <2>1 DEF ReadProduct, OrderJob, productRows
  <2>. QED
    BY <1>1, <1>3, <2>2, BalanceJobStep
<1>5. CASE GetChat(r)
  <2>1. PICK k : k = [j EXCEPT !.pc = "commit"]
    OBVIOUS
  <2>2. /\ j.pc = "chat" /\ k.pc = "commit"
        /\ job' = [job EXCEPT ![r] = k] /\ UNCHANGED <<stock, order>>
    BY <1>3, <1>5, <2>1 DEF GetChat, Job, productRows
  <2>. QED
    BY <1>1, <1>3, <2>2, BalanceJobStep
<1>6. ASSUME NEW o \in OrderIds, PlaceOrder(r, o) PROVE BalanceInv'
  BY <1>1, <1>3, <1>6, BalancePlaced
<1>7. ASSUME NEW f \in Offers, WriteOffer(r, f) PROVE BalanceInv'
  <2>1. j.pc = "offer" /\ job' = [job EXCEPT ![r] = Idle] /\ UNCHANGED <<stock, order>>
    BY <1>7 DEF WriteOffer, productRows
  <2>. QED
    BY <1>1, <1>3, <2>1, BalanceJobStep
<1>8. CASE WritePatch(r)
  BY <1>3, <1>8 DEF WritePatch, JobFits, Untouched
<1>9. CASE WriteDelete(r)
  <2>1. j.pc = "delete" /\ job' = [job EXCEPT ![r] = Idle] /\ UNCHANGED <<stock, order>>
    BY <1>9 DEF WriteDelete, Delete
  <2>. QED
    BY <1>1, <1>3, <2>1, BalanceJobStep
<1>10. CASE WriteRestock(r)
  BY <1>1, <1>3, <1>10, BalanceRestocked
<1>11. CASE WriteOver(r)
  BY <1>1, <1>3, <1>11, BalanceOver
<1>12. CASE Throws(r)
  <2>1. j.pc # "over" /\ job' = [job EXCEPT ![r] = Idle] /\ UNCHANGED <<stock, order>>
    BY <1>12 DEF Throws, productRows
  <2>. QED
    BY <1>1, <1>3, <2>1, BalanceJobStep
<1>. QED
  BY <1>4, <1>5, <1>6, <1>7, <1>8, <1>9, <1>10, <1>11, <1>12 DEF Continue

LEMMA BalanceAtOnce ==
  ASSUME Untouched, TypeOK, BalanceInv, AtOnce
  PROVE  BalanceInv'
<1>1. Quiet /\ job' = job
  BY DEF Untouched, AtOnce, ExpireOffer, CloseOffer, AdminPatch, AdminDelete, CompleteOrder, MayAct
<1>2. RestockFits' /\ (\A q : ~GaveBack(q)') /\ \A q : ~GaveBack(q)
  BY <1>1 DEF Quiet, RestockFits, GaveBack, Busy
<1>3. CASE UNCHANGED <<stock, order>>
  <2>1. \A p \in Products : Kept(p)' = Kept(p)
    BY <1>2, <1>3 DEF Kept, Holding
  <2>. QED
    BY <1>2, <1>3, <2>1, BalanceSame DEF Placed
<1>4. ASSUME NEW o \in OrderIds, CompleteOrder(o) PROVE BalanceInv'
  <2>0. PICK s \in {"completed", "releaseFailed"} : order' = [order EXCEPT ![o].state = s]
    BY <1>4 DEF CompleteOrder
  <2>1. /\ order[o].state = "active" /\ order[o] \in Order /\ UNCHANGED stock
        /\ order' = [order EXCEPT ![o] = [@ EXCEPT !.state = s]]
    <3>1. order[o].state = "active" /\ UNCHANGED stock
      BY <1>4 DEF CompleteOrder, productRows
    <3>2. order[o] \in Order
      BY <3>1 DEF TypeOK, NoOrder
    <3>. QED
      BY <2>0, <3>1, <3>2
  <2>2. /\ order'[o].state = s /\ order'[o].qty = order[o].qty
        /\ order'[o].product = order[o].product /\ order'[o] # NoOrder /\ order[o] # NoOrder
        /\ \A q \in OrderIds : q # o => order'[q] = order[q]
    <3>1. order'[o] = [order[o] EXCEPT !.state = s]
      BY <2>1 DEF TypeOK
    <3>. QED
      BY <2>1, <3>1 DEF TypeOK, Order, NoOrder
  <2>3. Placed' = Placed /\ \A q \in OrderIds : order'[q].qty = order[q].qty
    BY <2>2 DEF Placed
  <2>4. \A p \in Products : Kept(p)' = Kept(p)
    BY <1>2, <2>1, <2>2 DEF Kept, Holding
  <2>. QED
    BY <1>2, <2>1, <2>3, <2>4, BalanceSame
<1>. QED
  BY <1>3, <1>4 DEF AtOnce, ExpireOffer, CloseOffer, AdminPatch, AdminDelete, Delete, Untouched,
                    productRows

\* The stock and the orders share the pieces: none is lost, or made up, by the
\* orders, the restocks, the deletions and the failures of requests that run
\* one at a time.
THEOREM PiecesAccounted == "overlap" \notin Env => (Spec => []StockAccounted)
<1> SUFFICES ASSUME "overlap" \notin Env PROVE Spec => []StockAccounted
  OBVIOUS
<1>1. CASE "patch" \in Env
  <2>1. TypeOK => StockAccounted
    BY <1>1 DEF StockAccounted
  <2>. QED
    BY <2>1, InventoryTypes, PTL
<1>2. CASE "patch" \notin Env
  <2>0. Untouched
    BY <1>2 DEF Untouched
  <2>1. ASSUME Init PROVE BalanceInv
    <3>1. Placed = {} /\ \A p \in Products : Kept(p) = {}
      BY <2>1 DEF Init, Placed, Kept, Holding, NoOrder
    <3>2. Balanced
      BY <2>1, <3>1, SumEmpty, InventoryAssumption DEF Init, Balanced
    <3>. QED
      BY <2>1, <3>1, <3>2, FS_EmptySet DEF Init, BalanceInv, RestockFits, Busy
  <2>2. ASSUME IInv, BalanceInv, [Next]_vars PROVE BalanceInv'
    <3>1. CASE UNCHANGED vars
      BY <2>2, <3>1 DEF vars, productRows, BalanceInv, Placed, RestockFits, Balanced, Kept, Holding,
                        GaveBack, Busy, Qty
    <3>2. TypeOK
      BY <2>2 DEF IInv
    <3>. QED
      BY <2>0, <2>2, <3>1, <3>2, BalanceStart, BalanceContinue, BalanceAtOnce DEF Next
  <2>3. ASSUME BalanceInv PROVE StockAccounted
    <3>1. Quiet => \A p \in Products : Kept(p) = Holding(p)
      BY DEF Quiet, Kept, GaveBack
    <3>. QED
      BY <2>3, <3>1 DEF BalanceInv, Balanced, StockAccounted, Held
  <2>. QED
    BY <2>1, <2>2, <2>3, SerialInductive, PTL DEF Spec
<1>. QED
  BY <1>1, <1>2
=============================================================================
