---------------------------- MODULE OrdersProofs ----------------------------
(***************************************************************************)
(* Proofs about Orders: whatever handlers overlap, whatever ERBN does and  *)
(* however often the process crashes, orders skip no stage and money moves *)
(* for a reason.                                                           *)
(***************************************************************************)
EXTENDS Orders, TLAPS

-----------------------------------------------------------------------------
(***************************************************************************)
(* The rules of the life cycle                                             *)
(***************************************************************************)

\* An update that validFrom allows finds the milestones it needs.
LEMMA RulesPrior ==
  ASSUME NEW s \in Status, NEW to \in Targets, CanMove(s, to)
  PROVE  /\ Effective(s, to) \in Targets
         /\ Prior(Effective(s, to)) \subseteq Milestones[s]
         /\ Effective(s, to) = "Completed" => {"Delivered", "Disputed"} \cap Milestones[s] # {}
         /\ Effective(s, to) \in {"Completed", "Refunded"} => "Accepted" \in Milestones[s]
<1>1. /\ s = "Created"   => to \in {"Accepted", "Closed"}
      /\ s = "Accepted"  => to \in {"Paid", "Closed"}
      /\ s = "Paid"      => to \in {"Shipped", "Disputed", "Closed"}
      /\ s = "Shipped"   => to \in {"Delivered", "Disputed"}
      /\ s = "Delivered" => to \in {"Disputed", "Completed"}
      /\ s = "Disputed"  => to \in {"Refunded", "Completed"}
      /\ s \in {"Created", "Accepted", "Paid", "Shipped", "Delivered", "Disputed"}
  BY DEF CanMove, validFrom, Status
<1>2. CASE s = "Created"
  BY <1>1, <1>2 DEF Effective, Prior, Milestones, Targets, Status
<1>3. CASE s = "Accepted"
  BY <1>1, <1>3 DEF Effective, Prior, Milestones, Targets, Status
<1>4. CASE s = "Paid"
  BY <1>1, <1>4 DEF Effective, Prior, Milestones, Targets, Status
<1>5. CASE s = "Shipped"
  BY <1>1, <1>5 DEF Effective, Prior, Milestones, Targets, Status
<1>6. CASE s = "Delivered"
  BY <1>1, <1>6 DEF Effective, Prior, Milestones, Targets, Status
<1>7. CASE s = "Disputed"
  BY <1>1, <1>7 DEF Effective, Prior, Milestones, Targets, Status
<1>. QED
  BY <1>1, <1>2, <1>3, <1>4, <1>5, <1>6, <1>7

\* A dispatched snapshot is a well-formed job.
LEMMA DispatchedType ==
  ASSUME NEW o \in Orders, NEW s \in Status, NEW e \in MaybeEscrow, NEW to \in Targets,
         CanMove(s, to)
  PROVE  /\ Dispatched(o, s, e, to) \in Job
         /\ Dispatched(o, s, e, to).pc # "read"
         /\ Dispatched(o, s, e, to).order = o
         /\ Dispatched(o, s, e, to).to = Effective(s, to)
         /\ Dispatched(o, s, e, to).esc = e
         /\ ~Dispatched(o, s, e, to).paid
         /\ Effective(s, to) = "Accepted" => Dispatched(o, s, e, to).pc = "erbn"
<1>1. Effective(s, to) \in Targets
  BY RulesPrior
<1>2. FirstAwait(s, e, to) \in Waiting \ {"read"}
  BY DEF FirstAwait, Waiting
<1>3. Effective(s, to) = "Accepted" => FirstAwait(s, e, to) = "erbn"
  BY DEF FirstAwait, Effective
<1>. QED
  BY <1>1, <1>2, <1>3 DEF Dispatched, Job
-----------------------------------------------------------------------------
(***************************************************************************)
(* Types                                                                   *)
(***************************************************************************)

LEMMA BusyIsJob ==
  ASSUME TypeOK, NEW a \in Actors, job[a].pc \in Waiting
  PROVE  job[a] \in Job
<1>1. job[a] \in Job \cup {Idle}
  BY DEF TypeOK
<1>2. job[a] # Idle
  BY DEF Idle, Waiting
<1>. QED
  BY <1>1, <1>2

LEMMA RequestType ==
  ASSUME NEW o \in Orders, NEW to \in Targets
  PROVE  Request(o, to) \in Job
BY DEF Request, Job, Waiting, MaybeEscrow

LEMMA TypeInit == Init => TypeOK
<1>. SUFFICES ASSUME Init PROVE TypeOK
  OBVIOUS
<1>1. InitialStock \in Int /\ Tasks \subseteq AllTasks
  BY OrdersAssumption
<1>. QED
  BY <1>1 DEF Init, TypeOK, Status, MaybeEscrow, EscrowState

\* The steps that change nothing but the record of one handler.
LEMMA TypeJobStep ==
  ASSUME TypeOK, NEW a \in Actors, NEW j \in Job \cup {Idle},
         job' = [job EXCEPT ![a] = j],
         UNCHANGED <<orderRow, productRow, erbn, batch, mishaps>>
  PROVE  TypeOK'
BY DEF TypeOK, orderRow, productRow, erbn

LEMMA TypeStart ==
  ASSUME TypeOK, Start
  PROVE  TypeOK'
<1>1. ASSUME NEW r \in Requests, NEW o \in Orders, NEW to \in Targets, NEW u \in Party,
             PartyPatch(r, o, u, to)
      PROVE  TypeOK'
  BY <1>1, RequestType, TypeJobStep DEF PartyPatch, Actors
<1>2. ASSUME NEW r \in Requests, NEW o \in Orders, NEW to \in Targets, AdminPatch(r, o, to)
      PROVE  TypeOK'
  BY <1>2, RequestType, TypeJobStep DEF AdminPatch, Actors
<1>3. ASSUME NEW r \in Requests, NEW o \in Orders, NEW e \in EscrowIds, EscrowPaid(r, o, e)
      PROVE  TypeOK'
  <2>1. "Paid" \in Targets
    BY DEF Targets, Status
  <2>. QED
    BY <1>3, <2>1, RequestType DEF EscrowPaid, Actors, TypeOK, orderRow, productRow
<1>4. ASSUME NEW t \in Tasks, NEW due \in SUBSET Orders, CronScan(t, due)
      PROVE  TypeOK'
  <2>1. {<<o, escrowId[o]>> : o \in due} \in SUBSET (Orders \X MaybeEscrow)
    BY DEF TypeOK
  <2>. QED
    BY <1>4, <2>1 DEF CronScan, TypeOK, orderRow, productRow, erbn
<1>5. ASSUME NEW t \in Tasks, NEW o \in Orders, NEW e \in MaybeEscrow, CronUpdate(t, o, e)
      PROVE  TypeOK'
  <2>1. From(t) \in Status /\ To(t) \in Targets
    BY DEF From, To, Status, Targets
  <2> DEFINE j == IF CanMove(From(t), To(t)) THEN Dispatched(o, From(t), e, To(t)) ELSE Idle
  <2>2. j \in Job \cup {Idle}
    BY <2>1, DispatchedType
  <2>3. job' = [job EXCEPT ![t] = j]
    BY <1>5 DEF CronUpdate
  <2>4. batch' \in [Tasks -> SUBSET (Orders \X MaybeEscrow)]
    BY <1>5 DEF CronUpdate, TypeOK
  <2>5. job' \in [Actors -> Job \cup {Idle}]
    BY <2>2, <2>3 DEF TypeOK, Actors
  <2>. QED
    BY <1>5, <2>4, <2>5 DEF CronUpdate, TypeOK, orderRow, productRow, erbn
<1>. QED
  BY <1>1, <1>2, <1>3, <1>4, <1>5 DEF Start
LEMMA TypeErbn ==
  ASSUME TypeOK, NEW a \in Actors,
         \/ \E e \in EscrowIds : CreateEscrow(a, e)
         \/ ReleaseEscrow(a) \/ RefundEscrow(a) \/ NoPayout(a) \/ CloseEscrow(a)
  PROVE  TypeOK'
<1>1. job[a].pc = "erbn" /\ job[a] \in Job
  BY BusyIsJob DEF CreateEscrow, ReleaseEscrow, RefundEscrow, NoPayout, CloseEscrow,
                   AtErbn, Waiting
<1>2. job[a].order \in Orders
  BY <1>1 DEF Job
<1>3. ASSUME NEW j \in Job, Answered(a, j)
      PROVE  job' \in [Actors -> Job \cup {Idle}]
  BY <1>3 DEF Answered, TypeOK
<1>4. ASSUME NEW e \in EscrowIds, CreateEscrow(a, e)
      PROVE  TypeOK'
  <2>1. [job[a] EXCEPT !.pc = "order", !.esc = e] \in Job
    BY <1>1 DEF Job, Waiting, MaybeEscrow
  <2>2. job' \in [Actors -> Job \cup {Idle}]
    BY <1>3, <1>4, <2>1 DEF CreateEscrow
  <2>. QED
    BY <1>2, <1>4, <2>2 DEF CreateEscrow, TypeOK, EscrowState, orderRow, productRow
<1>5. CASE ReleaseEscrow(a)
  <2>1. [job[a] EXCEPT !.pc = "order", !.paid = TRUE] \in Job
    BY <1>1 DEF Job, Waiting
  <2>2. job' \in [Actors -> Job \cup {Idle}]
    BY <1>3, <1>5, <2>1 DEF ReleaseEscrow
  <2>. QED
    BY <1>5, <2>2 DEF ReleaseEscrow, TypeOK, EscrowState, orderRow, productRow
<1>6. CASE RefundEscrow(a)
  <2>1. [job[a] EXCEPT !.pc = "product", !.paid = TRUE] \in Job
    BY <1>1 DEF Job, Waiting
  <2>2. job' \in [Actors -> Job \cup {Idle}]
    BY <1>3, <1>6, <2>1 DEF RefundEscrow
  <2>. QED
    BY <1>6, <2>2 DEF RefundEscrow, TypeOK, EscrowState, orderRow, productRow
<1>7. CASE NoPayout(a)
  <2> DEFINE pc == IF job[a].to = "Completed" THEN "order" ELSE "product"
  <2>1. pc \in Waiting
    BY DEF Waiting
  <2>2. [job[a] EXCEPT !.pc = pc] \in Job
    BY <1>1, <2>1 DEF Job
  <2>3. job' = [job EXCEPT ![a] = [job[a] EXCEPT !.pc = pc]]
    BY <1>7 DEF NoPayout, TypeOK
  <2>. QED
    BY <1>7, <2>2, <2>3, TypeJobStep DEF NoPayout
<1>8. CASE CloseEscrow(a)
  <2>1. [job[a] EXCEPT !.pc = "product"] \in Job
    BY <1>1 DEF Job, Waiting
  <2>2. job' \in [Actors -> Job \cup {Idle}]
    BY <1>3, <1>8, <2>1 DEF CloseEscrow
  <2>. QED
    BY <1>8, <2>2 DEF CloseEscrow, TypeOK, EscrowState, orderRow, productRow
<1>. QED
  BY <1>4, <1>5, <1>6, <1>7, <1>8

LEMMA TypeThrows ==
  ASSUME TypeOK, NEW a \in Actors, Throws(a)
  PROVE  TypeOK'
BY DEF Throws, TypeOK, orderRow, productRow, erbn

\* What a handler writes into the status column.
LEMMA WrittenType ==
  ASSUME NEW j \in Job
  PROVE  Written(j) \in Status
BY DEF Written, Job, Targets, Status

LEMMA TypeDatabase ==
  ASSUME TypeOK, NEW a \in Actors,
         ReadOrder(a) \/ ReadProduct(a) \/ Restock(a) \/ WriteOrder(a)
  PROVE  TypeOK'
<1>1. job[a] \in Job
  BY BusyIsJob DEF ReadOrder, ReadProduct, Restock, WriteOrder, Waiting
<1>2. job[a].order \in Orders /\ job[a].to \in Targets /\ job[a].esc \in MaybeEscrow
      /\ job[a].seen \in Int
  BY <1>1 DEF Job
<1>3. ProductOf[job[a].order] \in Products /\ Quantity[job[a].order] \in Int
  BY <1>2, OrdersAssumption
<1>4. CASE ReadOrder(a)
  <2> DEFINE o == job[a].order
             j == IF CanMove(status[o], job[a].to)
                  THEN Dispatched(o, status[o], escrowId[o], job[a].to) ELSE Idle
  <2>1. status[o] \in Status /\ escrowId[o] \in MaybeEscrow
    BY <1>2 DEF TypeOK
  <2>2. j \in Job \cup {Idle}
    BY <1>2, <2>1, DispatchedType
  <2>3. job' = [job EXCEPT ![a] = j]
    BY <1>4 DEF ReadOrder
  <2>. QED
    BY <1>4, <2>2, <2>3, TypeJobStep DEF ReadOrder
<1>5. CASE ReadProduct(a)
  <2> DEFINE p == ProductOf[job[a].order]
             j == IF p \in deleted THEN Idle
                  ELSE [job[a] EXCEPT !.pc = "stock", !.seen = stock[p]]
  <2>1. stock[p] \in Int
    BY <1>3 DEF TypeOK
  <2>2. j \in Job \cup {Idle}
    BY <1>1, <2>1 DEF Job, Waiting
  <2>3. job' = [job EXCEPT ![a] = j]
    BY <1>5 DEF ReadProduct
  <2>. QED
    BY <1>5, <2>2, <2>3, TypeJobStep DEF ReadProduct
<1>6. CASE Restock(a)
  <2> DEFINE j == [job[a] EXCEPT !.pc = "order", !.seen = 0]
  <2>1. j \in Job
    <3>1. 0 \in Int /\ "order" \in Waiting
      BY DEF Waiting
    <3>. QED
      BY <1>1, <3>1 DEF Job
  <2>2. job' = [job EXCEPT ![a] = j]
    BY <1>6 DEF Restock, TypeOK
  <2>3. job' \in [Actors -> Job \cup {Idle}]
    BY <2>1, <2>2 DEF TypeOK
  <2>4. job[a].seen + Quantity[job[a].order] \in Int
    BY <1>2, <1>3
  <2>5. stock' \in [Products -> Int]
    BY <1>3, <1>6, <2>4 DEF Restock, TypeOK
  <2>. QED
    BY <1>6, <2>3, <2>5 DEF Restock, TypeOK, orderRow, erbn
<1>7. CASE WriteOrder(a)
  <2>1. job' \in [Actors -> Job \cup {Idle}]
    BY <1>7 DEF WriteOrder, TypeOK
  <2>2. Written(job[a]) \in Status
    BY <1>1, WrittenType
  <2>3. /\ status' \in [Orders -> Status]
        /\ stamps' \in [Orders -> SUBSET Status]
        /\ escrowId' \in [Orders -> MaybeEscrow]
    BY <1>2, <1>7, <2>2 DEF WriteOrder, TypeOK, orderRow
  <2>. QED
    BY <1>7, <2>1, <2>3 DEF WriteOrder, TypeOK, productRow, erbn
<1>. QED
  BY <1>4, <1>5, <1>6, <1>7

LEMMA TypeOutside ==
  ASSUME TypeOK, Outside
  PROVE  TypeOK'
<1>1. ASSUME NEW o \in Orders, NEW e \in EscrowIds, BuyerPays(o, e)
      PROVE  TypeOK'
  BY <1>1 DEF BuyerPays, TypeOK, EscrowState, orderRow, productRow
<1>2. ASSUME NEW p \in Products, AdminDeletesProduct(p)
      PROVE  TypeOK'
  BY <1>2 DEF AdminDeletesProduct, TypeOK, orderRow, erbn
<1>3. CASE Crash
  BY <1>3 DEF Crash, TypeOK, orderRow, productRow, erbn
<1>. QED
  BY <1>1, <1>2, <1>3 DEF Outside

LEMMA TypeNext == TypeOK /\ [Next]_vars => TypeOK'
<1>. SUFFICES ASSUME TypeOK, [Next]_vars PROVE TypeOK'
  OBVIOUS
<1>1. CASE Start
  BY <1>1, TypeStart
<1>2. ASSUME NEW a \in Actors, Continue(a) PROVE TypeOK'
  BY <1>2, TypeErbn, TypeThrows, TypeDatabase DEF Continue
<1>3. CASE Outside
  BY <1>3, TypeOutside
<1>4. CASE UNCHANGED vars
  BY <1>4 DEF TypeOK, vars, orderRow, productRow, erbn
<1>. QED
  BY <1>1, <1>2, <1>3, <1>4 DEF Next

\* Every variable keeps its type.
THEOREM TypeCorrect == Spec => []TypeOK
BY TypeInit, TypeNext, PTL DEF Spec
-----------------------------------------------------------------------------
(***************************************************************************)
(* The inductive invariant                                                 *)
(***************************************************************************)

Core == RowInv /\ JobInv /\ BatchInv /\ EscrowInv /\ PayoutsEarned

\* What no step takes back.
Grows ==
  /\ \A o \in Orders : stamps[o] \subseteq stamps'[o]
  /\ \A e \in EscrowIds : escrowFor[e] \subseteq escrowFor'[e]
  /\ \A e \in EscrowIds : escrow[e] \in {"Released", "Refunded"} => escrow'[e] = escrow[e]

LEMMA InvInit == Init => IInv
<1>. SUFFICES ASSUME Init PROVE IInv
  OBVIOUS
<1>1. TypeOK
  BY TypeInit
<1>2. RowInv
  BY DEF Init, RowInv, Milestones
<1>3. JobInv
  BY DEF Init, JobInv, Busy, Idle
<1>4. BatchInv
  BY DEF Init, BatchInv
<1>5. EscrowInv /\ PayoutsEarned
  BY DEF Init, EscrowInv, PayoutsEarned, Owns
<1>. QED
  BY <1>1, <1>2, <1>3, <1>4, <1>5 DEF IInv

\* A handler that does nothing keeps what it relies on.
LEMMA OthersKeep ==
  ASSUME TypeOK, JobInv, Grows, NEW b \in Actors, job'[b] = job[b],
         (Busy(b) /\ job[b].pc # "read")'
  PROVE  HandlerInv(job[b])'
<1>1. HandlerInv(job[b]) /\ job[b] \in Job
  BY DEF JobInv, Busy, TypeOK
<1>2. job[b].order \in Orders
  BY <1>1 DEF Job
<1>. QED
  BY <1>1, <1>2 DEF HandlerInv, Grows, Owns, DeliveredOrDisputed

\* A cron job's snapshots stay as good as they were.
LEMMA BatchKeeps ==
  ASSUME BatchInv, Grows, \A t \in Tasks : batch'[t] \subseteq batch[t]
  PROVE  BatchInv'
BY DEF BatchInv, Grows, Owns

\* The steps that change nothing of this but the record of one handler.
LEMMA InvJobStep ==
  ASSUME IInv, NEW a \in Actors, NEW j \in Job \cup {Idle},
         j # Idle /\ j.pc # "read" => HandlerInv(j),
         job' = [job EXCEPT ![a] = j],
         UNCHANGED <<orderRow, escrow, escrowFor>>,
         \A t \in Tasks : batch'[t] \subseteq batch[t]
  PROVE  Core'
<1>1. Grows
  BY DEF Grows, orderRow
<1>2. RowInv' /\ EscrowInv' /\ PayoutsEarned'
  BY DEF IInv, RowInv, EscrowInv, PayoutsEarned, Owns, orderRow
<1>3. BatchInv'
  BY <1>1, BatchKeeps DEF IInv
<1>4. JobInv'
  <2>. SUFFICES ASSUME NEW b \in Actors, (Busy(b) /\ job[b].pc # "read")'
                PROVE  HandlerInv(job[b])'
    BY DEF JobInv
  <2>1. CASE b = a
    <3>1. job'[b] = j
      BY <2>1 DEF IInv, TypeOK
    <3>2. HandlerInv(j)
      BY <3>1 DEF Busy
    <3>. QED
      BY <3>1, <3>2 DEF HandlerInv, Owns, DeliveredOrDisputed, orderRow
  <2>2. CASE b # a
    <3>1. job'[b] = job[b]
      BY <2>2 DEF IInv, TypeOK
    <3>. QED
      BY <1>1, <3>1, OthersKeep DEF IInv
  <2>. QED
    BY <2>1, <2>2
<1>. QED
  BY <1>2, <1>3, <1>4 DEF Core

\* A snapshot that the milestones back makes a handler that may rely on them.
LEMMA DispatchedInv ==
  ASSUME NEW o \in Orders, NEW s \in Status, NEW e \in MaybeEscrow, NEW to \in Targets,
         CanMove(s, to), Milestones[s] \subseteq stamps[o],
         Effective(s, to) \in {"Completed", "Refunded"} => Owns(o, e)
  PROVE  HandlerInv(Dispatched(o, s, e, to))
<1> DEFINE j == Dispatched(o, s, e, to)
<1>1. /\ j.to = Effective(s, to) /\ j.order = o /\ j.esc = e
      /\ j.to = "Accepted" => j.pc = "erbn"
      /\ ~j.paid
  <2>1. /\ j.to = Effective(s, to) /\ j.order = o /\ j.esc = e
    BY DispatchedType
  <2>2. j.to = "Accepted" => j.pc = "erbn"
    BY DispatchedType
  <2>3. ~j.paid
    BY DispatchedType
  <2>. QED
    BY <2>1, <2>2, <2>3
<1>2. Prior(j.to) \subseteq stamps[o]
  BY <1>1, RulesPrior
<1>3. j.to = "Completed" => DeliveredOrDisputed(o)
  BY <1>1, RulesPrior DEF DeliveredOrDisputed
<1>. QED
  BY <1>1, <1>2, <1>3 DEF HandlerInv

LEMMA InvStart ==
  ASSUME IInv, Start
  PROVE  Core'
<1>1. ASSUME NEW r \in Requests, NEW o \in Orders, NEW to \in Targets,
             job' = [job EXCEPT ![r] = Request(o, to)],
             UNCHANGED <<orderRow, escrow, escrowFor, batch>>
      PROVE  Core'
  <2>1. Request(o, to) \in Job /\ Request(o, to).pc = "read" /\ r \in Actors
    BY RequestType DEF Request, Actors
  <2>. QED
    BY <1>1, <2>1, InvJobStep
<1>2. ASSUME NEW r \in Requests, NEW o \in Orders, NEW to \in Targets, NEW u \in Party,
             PartyPatch(r, o, u, to)
      PROVE  Core'
  BY <1>1, <1>2 DEF PartyPatch, erbn
<1>3. ASSUME NEW r \in Requests, NEW o \in Orders, NEW to \in Targets, AdminPatch(r, o, to)
      PROVE  Core'
  BY <1>1, <1>3 DEF AdminPatch, erbn
<1>4. ASSUME NEW r \in Requests, NEW o \in Orders, NEW e \in EscrowIds, EscrowPaid(r, o, e)
      PROVE  Core'
  <2>1. "Paid" \in Targets
    BY DEF Targets, Status
  <2>. QED
    BY <1>1, <1>4, <2>1 DEF EscrowPaid
<1>5. ASSUME NEW t \in Tasks, NEW due \in SUBSET Orders, CronScan(t, due)
      PROVE  Core'
  <2>1. RowInv' /\ EscrowInv' /\ PayoutsEarned'
    BY <1>5 DEF CronScan, IInv, RowInv, EscrowInv, PayoutsEarned, Owns, orderRow, erbn
  <2>2. JobInv'
    BY <1>5 DEF CronScan, IInv, JobInv, Busy, HandlerInv, Owns, DeliveredOrDisputed, orderRow, erbn
  <2>3. BatchInv'
    <3>. SUFFICES ASSUME NEW x \in Tasks, NEW o \in Orders, NEW e \in MaybeEscrow,
                         <<o, e>> \in batch'[x]
                  PROVE  /\ Milestones[From(x)] \subseteq stamps[o]
                         /\ x = "complete" => Owns(o, e)
      BY <1>5 DEF BatchInv, CronScan, Owns, orderRow, erbn
    <3>1. CASE x = t
      <4>1. o \in due /\ e = escrowId[o]
        BY <1>5, <3>1 DEF CronScan, IInv, TypeOK
      <4>2. status[o] = From(t) /\ (t = "complete" => escrowId[o] # NoEscrow)
        BY <1>5, <4>1 DEF CronScan
      <4>. QED
        BY <3>1, <4>1, <4>2 DEF IInv, RowInv
    <3>2. CASE x # t
      <4>1. <<o, e>> \in batch[x]
        BY <1>5, <3>2 DEF CronScan, IInv, TypeOK
      <4>. QED
        BY <4>1 DEF IInv, BatchInv
    <3>. QED
      BY <3>1, <3>2
  <2>. QED
    BY <2>1, <2>2, <2>3 DEF Core
<1>6. ASSUME NEW t \in Tasks, NEW o \in Orders, NEW e \in MaybeEscrow, CronUpdate(t, o, e)
      PROVE  Core'
  <2> DEFINE j == IF CanMove(From(t), To(t)) THEN Dispatched(o, From(t), e, To(t)) ELSE Idle
  <2>1. From(t) \in Status /\ To(t) \in Targets /\ t \in Actors
    BY DEF From, To, Status, Targets, Actors
  <2>2. j \in Job \cup {Idle}
    BY <2>1, DispatchedType
  <2>3. <<o, e>> \in batch[t] /\ Milestones[From(t)] \subseteq stamps[o]
    BY <1>6 DEF CronUpdate, IInv, BatchInv
  <2>4. Effective(From(t), To(t)) \in {"Completed", "Refunded"} => t = "complete"
    BY OrdersAssumption DEF Effective, From, To, AllTasks
  <2>5. j # Idle => HandlerInv(j)
    BY <2>1, <2>3, <2>4, DispatchedInv DEF IInv, BatchInv
  <2>6. job' = [job EXCEPT ![t] = j]
    BY <1>6 DEF CronUpdate
  <2>7. \A x \in Tasks : batch'[x] \subseteq batch[x]
    BY <1>6 DEF CronUpdate, IInv, TypeOK
  <2>. QED
    BY <1>6, <2>1, <2>2, <2>5, <2>6, <2>7, InvJobStep DEF CronUpdate, erbn
<1>. QED
  BY <1>2, <1>3, <1>4, <1>5, <1>6 DEF Start
\* The steps that change the state of one escrow and the record of the
\* handler that asked for it.
LEMMA InvErbnStep ==
  ASSUME IInv, NEW a \in Actors, NEW e \in EscrowIds,
         NEW k \in Job \cup {Idle},
         job' = [job EXCEPT ![a] = k],
         UNCHANGED <<orderRow, batch>>,
         Grows, EscrowInv',
         k # Idle => HandlerInv(k)',
         \A f \in EscrowIds \ {e} : escrow'[f] = escrow[f] /\ escrowFor'[f] = escrowFor[f],
         \A o \in Orders : Owns(o, e)' =>
           /\ escrow'[e] = "Released" =>
                {"Accepted", "Paid"} \subseteq stamps[o] /\ DeliveredOrDisputed(o)
           /\ escrow'[e] = "Refunded" => {"Accepted", "Paid"} \subseteq stamps[o]
  PROVE  Core'
<1>1. RowInv'
  BY DEF IInv, RowInv, Grows, Owns, orderRow
<1>2. BatchInv'
  BY BatchKeeps DEF IInv
<1>3. PayoutsEarned'
  BY DEF IInv, PayoutsEarned, Owns, DeliveredOrDisputed, orderRow
<1>4. JobInv'
  <2>. SUFFICES ASSUME NEW b \in Actors, (Busy(b) /\ job[b].pc # "read")'
                PROVE  HandlerInv(job[b])'
    BY DEF JobInv
  <2>1. CASE b = a
    <3>1. job'[b] = k
      BY <2>1 DEF IInv, TypeOK
    <3>2. k # Idle
      BY <3>1 DEF Busy
    <3>. QED
      BY <3>1, <3>2 DEF HandlerInv, Owns, DeliveredOrDisputed
  <2>2. CASE b # a
    <3>1. job'[b] = job[b]
      BY <2>2 DEF IInv, TypeOK
    <3>. QED
      BY <3>1, OthersKeep DEF IInv
  <2>. QED
    BY <2>1, <2>2
<1>. QED
  BY <1>1, <1>2, <1>3, <1>4 DEF Core
LEMMA InvErbn ==
  ASSUME IInv, NEW a \in Actors,
         \/ \E e \in EscrowIds : CreateEscrow(a, e)
         \/ ReleaseEscrow(a) \/ RefundEscrow(a) \/ NoPayout(a) \/ CloseEscrow(a)
  PROVE  Core'
<1> DEFINE o == job[a].order
<1>1. job[a] \in Job /\ job[a].pc = "erbn" /\ o \in Orders /\ TypeOK
  <2>1. job[a].pc = "erbn" /\ TypeOK
    BY DEF CreateEscrow, ReleaseEscrow, RefundEscrow, NoPayout, CloseEscrow, AtErbn, IInv
  <2>. QED
    BY <2>1, BusyIsJob DEF Waiting, Job
<1>2. HandlerInv(job[a])
  BY <1>1 DEF IInv, JobInv, Busy, Idle
<1>3. ASSUME NEW e \in EscrowIds, CreateEscrow(a, e)
      PROVE  Core'
  <2>1. PICK k \in Job \cup {Idle} :
          /\ job' = [job EXCEPT ![a] = k]
          /\ k # Idle => k.order = o /\ k.to = "Accepted" /\ k.esc = e
    <3>1. [job[a] EXCEPT !.pc = "order", !.esc = e] \in Job
      BY <1>1 DEF Job, Waiting, MaybeEscrow
    <3>2. job[a].to = "Accepted"
      BY <1>3 DEF CreateEscrow, AtErbn
    <3>3. CASE job' = [job EXCEPT ![a] = [job[a] EXCEPT !.pc = "order", !.esc = e]]
      <4> DEFINE j == [job[a] EXCEPT !.pc = "order", !.esc = e]
      <4>1. j.order = o /\ j.to = "Accepted" /\ j.esc = e
        BY <1>1, <3>2 DEF Job
      <4>2. j \in Job \cup {Idle} /\ job' = [job EXCEPT ![a] = j]
        BY <3>1, <3>3
      <4>. HIDE DEF j
      <4>. QED
        BY <4>1, <4>2
    <3>4. CASE job' = [job EXCEPT ![a] = Idle]
      BY <3>4
    <3>. QED
      BY <1>3, <3>3, <3>4 DEF CreateEscrow, Answered
  <2>2. /\ escrow[e] = "none" /\ escrowFor[e] = {}
        /\ escrow' = [escrow EXCEPT ![e] = "Open"]
        /\ escrowFor' = [escrowFor EXCEPT ![e] = {o}]
        /\ UNCHANGED <<orderRow, batch>>
        /\ job[a].to = "Accepted"
    BY <1>3 DEF CreateEscrow, AtErbn, IInv, EscrowInv
  <2>3. /\ escrow'[e] = "Open" /\ escrowFor'[e] = {o}
        /\ \A f \in EscrowIds \ {e} : escrow'[f] = escrow[f] /\ escrowFor'[f] = escrowFor[f]
    BY <2>2 DEF IInv, TypeOK
  <2>4. Grows /\ EscrowInv'
    BY <2>2, <2>3 DEF Grows, EscrowInv, IInv, orderRow
  <2>5. k # Idle => HandlerInv(k)'
    BY <1>2, <2>1, <2>2, <2>3 DEF HandlerInv, Owns, orderRow
  <2>. QED
    BY <2>1, <2>2, <2>3, <2>4, <2>5, InvErbnStep
<1>4. CASE ReleaseEscrow(a)
  <2>1. PICK k \in Job \cup {Idle} :
          /\ job' = [job EXCEPT ![a] = k]
          /\ k # Idle => k.order = o /\ k.to = "Completed" /\ k.esc = job[a].esc
    <3>1. [job[a] EXCEPT !.pc = "order", !.paid = TRUE] \in Job
      BY <1>1 DEF Job, Waiting
    <3>2. job[a].to = "Completed"
      BY <1>4 DEF ReleaseEscrow, AtErbn
    <3>. QED
      BY <1>1, <1>4, <3>1, <3>2 DEF ReleaseEscrow, Answered, Job
  <2>2. PICK e \in EscrowIds :
        /\ e = job[a].esc /\ escrow[e] = "Funded"
        /\ escrow' = [escrow EXCEPT ![e] = "Released"]
        /\ UNCHANGED <<orderRow, escrowFor, batch>>
        /\ job[a].to = "Completed"
    BY <1>4 DEF ReleaseEscrow, AtErbn
  <2>3. escrow'[e] = "Released" /\ \A f \in EscrowIds \ {e} : escrow'[f] = escrow[f]
    BY <2>2 DEF IInv, TypeOK
  <2>4. Grows /\ EscrowInv'
    BY <2>2, <2>3 DEF Grows, EscrowInv, IInv, orderRow
  <2>5. Owns(o, e) /\ {"Accepted", "Paid"} \subseteq stamps[o]
        /\ ("Completed" = "Completed" => DeliveredOrDisputed(o))
    BY <1>1, <1>2, <2>2 DEF HandlerInv, Prior, Milestones
  <2>6. k # Idle => HandlerInv(k)'
    BY <1>1, <1>2, <2>1, <2>2, <2>3 DEF HandlerInv, Owns, DeliveredOrDisputed, orderRow
  <2>7. \A q \in Orders : Owns(q, e)' => q = o
    BY <2>2, <2>5 DEF Owns, IInv, EscrowInv
  <2>. QED
    BY <2>1, <2>2, <2>3, <2>4, <2>5, <2>6, <2>7, InvErbnStep
<1>5. CASE RefundEscrow(a)
  <2>1. PICK k \in Job \cup {Idle} :
          /\ job' = [job EXCEPT ![a] = k]
          /\ k # Idle => k.order = o /\ k.to = "Refunded" /\ k.esc = job[a].esc
    <3>1. [job[a] EXCEPT !.pc = "product", !.paid = TRUE] \in Job
      BY <1>1 DEF Job, Waiting
    <3>2. job[a].to = "Refunded"
      BY <1>5 DEF RefundEscrow, AtErbn
    <3>. QED
      BY <1>1, <1>5, <3>1, <3>2 DEF RefundEscrow, Answered, Job
  <2>2. PICK e \in EscrowIds :
        /\ e = job[a].esc /\ escrow[e] = "Funded"
        /\ escrow' = [escrow EXCEPT ![e] = "Refunded"]
        /\ UNCHANGED <<orderRow, escrowFor, batch>>
        /\ job[a].to = "Refunded"
    BY <1>5 DEF RefundEscrow, AtErbn
  <2>3. escrow'[e] = "Refunded" /\ \A f \in EscrowIds \ {e} : escrow'[f] = escrow[f]
    BY <2>2 DEF IInv, TypeOK
  <2>4. Grows /\ EscrowInv'
    BY <2>2, <2>3 DEF Grows, EscrowInv, IInv, orderRow
  <2>5. Owns(o, e) /\ {"Accepted", "Paid"} \subseteq stamps[o]
        /\ ("Refunded" = "Completed" => DeliveredOrDisputed(o))
    BY <1>1, <1>2, <2>2 DEF HandlerInv, Prior, Milestones
  <2>6. k # Idle => HandlerInv(k)'
    BY <1>1, <1>2, <2>1, <2>2, <2>3 DEF HandlerInv, Owns, DeliveredOrDisputed, orderRow
  <2>7. \A q \in Orders : Owns(q, e)' => q = o
    BY <2>2, <2>5 DEF Owns, IInv, EscrowInv
  <2>. QED
    BY <2>1, <2>2, <2>3, <2>4, <2>5, <2>6, <2>7, InvErbnStep
<1>6. CASE NoPayout(a)
  <2> DEFINE pc == IF job[a].to = "Completed" THEN "order" ELSE "product"
             j == [job[a] EXCEPT !.pc = pc]
  <2>1. j \in Job
    <3>1. pc \in Waiting
      BY DEF Waiting
    <3>. QED
      BY <1>1, <3>1 DEF Job
  <2>2. job' = [job EXCEPT ![a] = j] /\ job[a].to \in {"Completed", "Refunded"}
    BY <1>6 DEF NoPayout, AtErbn
  <2>3. HandlerInv(j)
    BY <1>1, <1>2, <2>2 DEF HandlerInv, Job
  <2>. QED
    BY <1>6, <2>1, <2>2, <2>3, InvJobStep DEF NoPayout, erbn
<1>7. CASE CloseEscrow(a)
  <2>1. PICK k \in Job \cup {Idle} :
          /\ job' = [job EXCEPT ![a] = k]
          /\ k # Idle => k.order = o /\ k.to = "Closed"
    <3>1. [job[a] EXCEPT !.pc = "product"] \in Job
      BY <1>1 DEF Job, Waiting
    <3>2. job[a].to = "Closed"
      BY <1>7 DEF CloseEscrow, AtErbn
    <3>. QED
      BY <1>1, <1>7, <3>1, <3>2 DEF CloseEscrow, Answered, Job
  <2>2. PICK e \in EscrowIds :
        /\ escrow[e] \in {"Open", "Closed"}
        /\ escrow' = [escrow EXCEPT ![e] = "Closed"]
        /\ UNCHANGED <<orderRow, escrowFor, batch>>
        /\ job[a].to = "Closed"
    BY <1>7 DEF CloseEscrow, AtErbn
  <2>3. escrow'[e] = "Closed" /\ \A f \in EscrowIds \ {e} : escrow'[f] = escrow[f]
    BY <2>2 DEF IInv, TypeOK
  <2>4. Grows /\ EscrowInv'
    BY <2>2, <2>3 DEF Grows, EscrowInv, IInv, orderRow
  <2>5. k # Idle => HandlerInv(k)'
    BY <1>2, <2>1, <2>2 DEF HandlerInv, orderRow
  <2>. QED
    BY <2>1, <2>2, <2>3, <2>4, <2>5, InvErbnStep
<1>. QED
  BY <1>3, <1>4, <1>5, <1>6, <1>7
LEMMA InvThrows ==
  ASSUME IInv, NEW a \in Actors, Throws(a)
  PROVE  Core'
BY InvJobStep DEF Throws, erbn

\* The write of the order: its row changes and the handler is done.
LEMMA InvWrite ==
  ASSUME IInv, NEW a \in Actors, WriteOrder(a)
  PROVE  Core'
<1> DEFINE o == job[a].order
           s == Written(job[a])
<1>1. job[a] \in Job /\ job[a].pc = "order" /\ o \in Orders /\ TypeOK
  <2>1. job[a].pc = "order" /\ TypeOK
    BY DEF WriteOrder, IInv
  <2>. QED
    BY <2>1, BusyIsJob DEF Waiting, Job
<1>2. HandlerInv(job[a])
  BY <1>1 DEF IInv, JobInv, Busy, Idle
<1>3. job' = [job EXCEPT ![a] = Idle] /\ UNCHANGED <<erbn, batch>>
  BY DEF WriteOrder
<1>4. CASE UNCHANGED orderRow
  BY <1>3, <1>4, InvJobStep DEF erbn
<1>5. CASE ~UNCHANGED orderRow
  <2>1. /\ status' = [status EXCEPT ![o] = s]
        /\ stamps' = [stamps EXCEPT ![o] = @ \cup {s}]
        /\ escrowId' = IF s = "Accepted" THEN [escrowId EXCEPT ![o] = job[a].esc] ELSE escrowId
    BY <1>5 DEF WriteOrder
  <2>2. /\ status'[o] = s /\ stamps'[o] = stamps[o] \cup {s}
        /\ \A q \in Orders \ {o} : status'[q] = status[q] /\ stamps'[q] = stamps[q]
                                     /\ escrowId'[q] = escrowId[q]
        /\ escrowId'[o] = IF s = "Accepted" THEN job[a].esc ELSE escrowId[o]
    BY <1>1, <2>1 DEF TypeOK
  <2>3. Grows
    BY <1>3, <2>2 DEF Grows, erbn
  <2>4. s = "Accepted" => Owns(o, job[a].esc)
    BY <1>1, <1>2 DEF Written, HandlerInv
  <2>5. Milestones[s] \subseteq stamps'[o]
    <3>1. Milestones[s] \ {s} \subseteq stamps[o]
      BY <1>1, <1>2 DEF Written, HandlerInv, Prior, Milestones, Job
    <3>. QED
      BY <2>2, <3>1
  <2>6. /\ s = "Completed" => Owns(o, job[a].esc) /\ escrow[job[a].esc] = "Released"
        /\ s = "Refunded" => Owns(o, job[a].esc) /\ escrow[job[a].esc] = "Refunded"
    BY <1>1, <1>2 DEF Written, HandlerInv
  <2>7. RowInv'
    <3>. SUFFICES ASSUME NEW q \in Orders
         PROVE /\ Milestones[status'[q]] \subseteq stamps'[q]
               /\ "Accepted" \in stamps'[q] => escrowId'[q] # NoEscrow
               /\ escrowId'[q] # NoEscrow => Owns(q, escrowId'[q])
               /\ status'[q] = "Completed" =>
                    \E e \in EscrowIds : Owns(q, e) /\ escrow[e] = "Released"
               /\ status'[q] = "Refunded" =>
                    \E e \in EscrowIds : Owns(q, e) /\ escrow[e] = "Refunded"
      BY <1>3 DEF RowInv, Owns, erbn
    <3>1. CASE q = o
      <4>1. /\ Milestones[status'[q]] \subseteq stamps'[q]
            /\ status'[q] = "Completed" =>
                 \E e \in EscrowIds : Owns(q, e) /\ escrow[e] = "Released"
            /\ status'[q] = "Refunded" =>
                 \E e \in EscrowIds : Owns(q, e) /\ escrow[e] = "Refunded"
        BY <2>2, <2>5, <2>6, <3>1 DEF Owns
      <4>2. CASE s = "Accepted"
        BY <2>2, <2>4, <3>1, <4>1, <4>2, OrdersAssumption DEF Owns
      <4>3. CASE s # "Accepted"
        BY <2>2, <3>1, <4>1, <4>3 DEF IInv, RowInv
      <4>. QED
        BY <4>2, <4>3
    <3>2. CASE q # o
      BY <2>2, <3>2 DEF IInv, RowInv
    <3>. QED
      BY <3>1, <3>2
  <2>8. BatchInv'
    BY <1>3, <2>3, BatchKeeps DEF IInv
  <2>9. EscrowInv' /\ PayoutsEarned'
    BY <1>3, <2>3 DEF IInv, EscrowInv, PayoutsEarned, Owns, Grows, erbn
  <2>10. JobInv'
    <3>. SUFFICES ASSUME NEW b \in Actors, (Busy(b) /\ job[b].pc # "read")'
                  PROVE  HandlerInv(job[b])'
      BY DEF JobInv
    <3>1. job'[b] = job[b]
      BY <1>3 DEF IInv, TypeOK, Busy
    <3>. QED
      BY <2>3, <3>1, OthersKeep DEF IInv
  <2>. QED
    BY <2>7, <2>8, <2>9, <2>10 DEF Core
<1>. QED
  BY <1>4, <1>5

LEMMA InvDatabase ==
  ASSUME IInv, NEW a \in Actors,
         ReadOrder(a) \/ ReadProduct(a) \/ Restock(a) \/ WriteOrder(a)
  PROVE  Core'
<1>1. job[a] \in Job /\ TypeOK
  BY BusyIsJob DEF ReadOrder, ReadProduct, Restock, WriteOrder, Waiting, IInv
<1>2. /\ job[a].order \in Orders /\ job[a].to \in Targets
      /\ ProductOf[job[a].order] \in Products
  BY <1>1, OrdersAssumption DEF Job
<1>3. job[a].pc # "read" => HandlerInv(job[a])
  BY <1>1 DEF IInv, JobInv, Busy, Idle, Job, Waiting
<1>4. CASE ReadOrder(a)
  <2> DEFINE o == job[a].order
             j == IF CanMove(status[o], job[a].to)
                  THEN Dispatched(o, status[o], escrowId[o], job[a].to) ELSE Idle
  <2>1. status[o] \in Status /\ escrowId[o] \in MaybeEscrow
    BY <1>1, <1>2 DEF TypeOK
  <2>2. j \in Job \cup {Idle}
    BY <1>2, <2>1, DispatchedType
  <2>3. Milestones[status[o]] \subseteq stamps[o]
        /\ ("Accepted" \in Milestones[status[o]] => Owns(o, escrowId[o]))
    BY <1>2 DEF IInv, RowInv
  <2>4. j # Idle => HandlerInv(j)
    BY <1>2, <2>1, <2>3, RulesPrior, DispatchedInv
  <2>5. job' = [job EXCEPT ![a] = j]
    BY <1>4 DEF ReadOrder
  <2>. QED
    BY <1>4, <2>2, <2>4, <2>5, InvJobStep DEF ReadOrder, erbn
<1>5. CASE ReadProduct(a)
  <2> DEFINE p == ProductOf[job[a].order]
             k == [job[a] EXCEPT !.pc = "stock", !.seen = stock[p]]
             j == IF p \in deleted THEN Idle ELSE k
  <2>1. stock[p] \in Int
    BY <1>1, <1>2 DEF TypeOK
  <2>2. k \in Job
    BY <1>1, <2>1 DEF Job, Waiting
  <2>3. HandlerInv(k)
    BY <1>1, <1>3, <1>5 DEF ReadProduct, HandlerInv, Job
  <2>4. job' = [job EXCEPT ![a] = j]
    BY <1>5 DEF ReadProduct
  <2>. QED
    BY <1>5, <2>2, <2>3, <2>4, InvJobStep DEF ReadProduct, erbn
<1>6. CASE Restock(a)
  <2> DEFINE j == [job[a] EXCEPT !.pc = "order", !.seen = 0]
  <2>1. j \in Job
    <3>1. 0 \in Int /\ "order" \in Waiting
      BY DEF Waiting
    <3>. QED
      BY <1>1, <3>1 DEF Job
  <2>2. HandlerInv(j)
    BY <1>1, <1>3, <1>6 DEF Restock, HandlerInv, Job
  <2>3. job' = [job EXCEPT ![a] = j] /\ UNCHANGED <<orderRow, erbn, batch>>
    BY <1>6 DEF Restock
  <2>. QED
    BY <2>1, <2>2, <2>3, InvJobStep DEF erbn
<1>7. CASE WriteOrder(a)
  BY <1>7, InvWrite
<1>. QED
  BY <1>4, <1>5, <1>6, <1>7

LEMMA InvOutside ==
  ASSUME IInv, Outside
  PROVE  Core'
<1>1. ASSUME NEW o \in Orders, NEW e \in EscrowIds, BuyerPays(o, e)
      PROVE  Core'
  <2>1. /\ escrow[e] = "Open" /\ escrow' = [escrow EXCEPT ![e] = "Funded"]
        /\ UNCHANGED <<orderRow, escrowFor, job, batch>>
    BY <1>1 DEF BuyerPays
  <2>2. escrow'[e] = "Funded" /\ \A f \in EscrowIds \ {e} : escrow'[f] = escrow[f]
    BY <2>1 DEF IInv, TypeOK
  <2>3. Grows
    BY <2>1, <2>2 DEF Grows, orderRow
  <2>4. RowInv' /\ EscrowInv'
    BY <2>1, <2>2 DEF IInv, RowInv, EscrowInv, Owns, orderRow
  <2>5. PayoutsEarned'
    BY <2>1, <2>2 DEF IInv, PayoutsEarned, Owns, orderRow
  <2>6. BatchInv'
    BY <2>1, <2>3, BatchKeeps DEF IInv
  <2>7. JobInv'
    BY <2>1, <2>3, OthersKeep DEF IInv, JobInv
  <2>. QED
    BY <2>4, <2>5, <2>6, <2>7 DEF Core
<1>2. ASSUME NEW p \in Products, AdminDeletesProduct(p)
      PROVE  Core'
  BY <1>2 DEF AdminDeletesProduct, IInv, Core, RowInv, JobInv, Busy, HandlerInv, BatchInv,
              EscrowInv, PayoutsEarned, Owns, DeliveredOrDisputed, orderRow, erbn
<1>3. CASE Crash
  <2>1. RowInv' /\ EscrowInv' /\ PayoutsEarned'
    BY <1>3 DEF Crash, IInv, RowInv, EscrowInv, PayoutsEarned, Owns, orderRow, erbn
  <2>2. JobInv' /\ BatchInv'
    BY <1>3 DEF Crash, JobInv, BatchInv, Busy
  <2>. QED
    BY <2>1, <2>2 DEF Core
<1>. QED
  BY <1>1, <1>2, <1>3 DEF Outside

LEMMA InvNext == IInv /\ [Next]_vars => IInv'
<1>. SUFFICES ASSUME IInv, [Next]_vars PROVE IInv'
  OBVIOUS
<1>1. TypeOK'
  BY TypeNext DEF IInv
<1>2. Core'
  <2>1. CASE Start
    BY <2>1, InvStart
  <2>2. ASSUME NEW a \in Actors, Continue(a) PROVE Core'
    BY <2>2, InvErbn, InvThrows, InvDatabase DEF Continue
  <2>3. CASE Outside
    BY <2>3, InvOutside
  <2>4. CASE UNCHANGED vars
    BY <2>4 DEF vars, IInv, Core, RowInv, JobInv, Busy, HandlerInv, BatchInv,
                EscrowInv, PayoutsEarned, Owns, DeliveredOrDisputed, orderRow, erbn
  <2>. QED
    BY <2>1, <2>2, <2>3, <2>4 DEF Next
<1>. QED
  BY <1>1, <1>2 DEF IInv, Core

THEOREM Inductive == Spec => []IInv
BY InvInit, InvNext, PTL DEF Spec

-----------------------------------------------------------------------------
(***************************************************************************)
(* What follows                                                            *)
(***************************************************************************)

\* No order skips a stage.
THEOREM NoStageSkipped == Spec => []MilestonesReached
<1>1. IInv => MilestonesReached
  BY DEF IInv, RowInv, MilestonesReached
<1>. QED
  BY <1>1, Inductive, PTL

\* ERBN pays nobody without the order having gone through what earns it.
THEOREM NoUnearnedPayout == Spec => []PayoutsEarned
<1>1. IInv => PayoutsEarned
  BY DEF IInv
<1>. QED
  BY <1>1, Inductive, PTL

\* A settled order was settled by ERBN.
THEOREM NoClaimWithoutPayout == Spec => []SettlementBacked
<1>1. IInv => SettlementBacked
  BY DEF IInv, RowInv, SettlementBacked
<1>. QED
  BY <1>1, Inductive, PTL

\* No handler asks ERBN for a payout from a null or a foreign escrow.
THEOREM NoForeignEscrow == Spec => []EscrowKnown
<1>1. ASSUME IInv PROVE EscrowKnown
  <2>1. ASSUME NEW o \in Orders, status[o] \notin {"Created", "Closed"}
        PROVE  Owns(o, escrowId[o])
    <3>1. status[o] \in Status /\ Milestones[status[o]] \subseteq stamps[o]
      BY <1>1 DEF IInv, TypeOK, RowInv
    <3>2. "Accepted" \in Milestones[status[o]]
      BY <2>1, <3>1 DEF Milestones, Status
    <3>. QED
      BY <1>1, <3>1, <3>2 DEF IInv, RowInv
  <2>2. ASSUME NEW a \in Actors, job[a].pc = "erbn", job[a].to \in {"Completed", "Refunded"}
        PROVE  Owns(job[a].order, job[a].esc)
    <3>1. Busy(a)
      BY <2>2 DEF Busy, Idle
    <3>. QED
      BY <1>1, <2>2, <3>1 DEF IInv, JobInv, HandlerInv
  <2>. QED
    BY <2>1, <2>2 DEF EscrowKnown
<1>. QED
  BY <1>1, Inductive, PTL

-----------------------------------------------------------------------------
(***************************************************************************)
(* Payments                                                                *)
(***************************************************************************)

\* An escrow keeps its order and what it says of a payment.
LEMMA PaymentsStay ==
  ASSUME IInv, [Next]_vars, NEW o \in Orders, BuyerPaid(o)
  PROVE  BuyerPaid(o)'
<1>1. PICK e \in EscrowIds : o \in escrowFor[e] /\ escrow[e] \in PaidInto
  BY DEF BuyerPaid, Owns
<1>2. o \in escrowFor'[e] /\ escrow'[e] \in PaidInto
  <2>0. escrow[e] \notin {"none", "Open", "Closed"} /\ TypeOK
    BY <1>1 DEF PaidInto, IInv
  <2>1. CASE UNCHANGED <<escrow, escrowFor>>
    BY <1>1, <2>1
  <2>2. ASSUME NEW a \in Actors, NEW f \in EscrowIds, CreateEscrow(a, f)
        PROVE  o \in escrowFor'[e] /\ escrow'[e] \in PaidInto
    BY <1>1, <2>0, <2>2 DEF CreateEscrow, TypeOK
  <2>3. ASSUME NEW a \in Actors, ReleaseEscrow(a) \/ RefundEscrow(a) \/ CloseEscrow(a)
        PROVE  o \in escrowFor'[e] /\ escrow'[e] \in PaidInto
    BY <1>1, <2>0, <2>3 DEF ReleaseEscrow, RefundEscrow, CloseEscrow, TypeOK, PaidInto
  <2>4. ASSUME NEW q \in Orders, NEW f \in EscrowIds, BuyerPays(q, f)
        PROVE  o \in escrowFor'[e] /\ escrow'[e] \in PaidInto
    BY <1>1, <2>0, <2>4 DEF BuyerPays, TypeOK, PaidInto
  <2>5. CASE Start
    BY <2>1, <2>5 DEF Start, PartyPatch, AdminPatch, EscrowPaid, CronScan, CronUpdate, erbn
  <2>6. ASSUME NEW a \in Actors, Continue(a)
        PROVE  o \in escrowFor'[e] /\ escrow'[e] \in PaidInto
    BY <2>1, <2>2, <2>3, <2>6 DEF Continue, ReadOrder, NoPayout, Throws, ReadProduct,
       Restock, WriteOrder, erbn
  <2>7. CASE Outside
    BY <2>1, <2>4, <2>7 DEF Outside, AdminDeletesProduct, Crash, erbn
  <2>8. CASE UNCHANGED vars
    BY <2>1, <2>8 DEF vars, erbn
  <2>. QED
    BY <2>5, <2>6, <2>7, <2>8 DEF Next
<1>. QED
  BY <1>2 DEF BuyerPaid, Owns

\* Whoever updates an order to Paid, an admin aside, was told to by ERBN.
LEMMA NoticesNext ==
  ASSUME IInv, NoticesBacked, [Next]_vars, "adminPaid" \notin Env,
         NEW b \in Actors, Busy(b)', job'[b].to = "Paid"
  PROVE  BuyerPaid(job'[b].order)
<1>. USE DEF Busy
<1>0. TypeOK
  BY DEF IInv
<1>1. ASSUME job'[b] = job[b] PROVE BuyerPaid(job'[b].order)
  BY <1>1 DEF NoticesBacked
<1>2. ASSUME NEW r \in Requests, NEW o \in Orders, NEW to \in Targets, to # "Paid",
             job' = [job EXCEPT ![r] = Request(o, to)]
      PROVE  BuyerPaid(job'[b].order)
  BY <1>0, <1>1, <1>2 DEF TypeOK, Actors, Request
<1>3. ASSUME NEW r \in Requests, NEW o \in Orders, NEW e \in EscrowIds, EscrowPaid(r, o, e)
      PROVE  BuyerPaid(job'[b].order)
  <2>1. BuyerPaid(o)
    BY <1>3, OrdersAssumption DEF EscrowPaid, IInv, RowInv, BuyerPaid, PaidInto
  <2>2. job'[b] = job[b] \/ job'[b].order = o
    BY <1>0, <1>3 DEF EscrowPaid, TypeOK, Actors, Request
  <2>. QED
    BY <1>1, <2>1, <2>2
<1>4. ASSUME NEW t \in Tasks, NEW o \in Orders, NEW e \in MaybeEscrow, CronUpdate(t, o, e)
      PROVE  BuyerPaid(job'[b].order)
  <2>1. /\ job' = [job EXCEPT ![t] =
                     IF CanMove(From(t), To(t)) THEN Dispatched(o, From(t), e, To(t)) ELSE Idle]
        /\ Effective(From(t), To(t)) # "Paid"
    BY <1>4 DEF CronUpdate, From, To, Effective
  <2>2. job'[b] = job[b] \/ job'[b] = Idle \/ job'[b].to # "Paid"
    BY <1>0, <2>1 DEF TypeOK, Actors, Dispatched
  <2>. QED
    BY <1>1, <2>2
<1>5. CASE Start
  <2>1. ASSUME NEW r \in Requests, NEW o \in Orders, NEW to \in Targets,
               (\E u \in Party : PartyPatch(r, o, u, to)) \/ AdminPatch(r, o, to)
        PROVE  to # "Paid" /\ job' = [job EXCEPT ![r] = Request(o, to)]
    BY <2>1 DEF PartyPatch, AdminPatch, validateUpdate
  <2>2. ASSUME NEW t \in Tasks, NEW due \in SUBSET Orders, CronScan(t, due)
        PROVE  BuyerPaid(job'[b].order)
    BY <1>1, <2>2 DEF CronScan
  <2>. QED
    BY <1>2, <1>3, <1>4, <1>5, <2>1, <2>2 DEF Start
<1>6. ASSUME NEW a \in Actors, ReadOrder(a) PROVE BuyerPaid(job'[b].order)
  <2>1. job[a] \in Job /\ job[a] # Idle
    BY <1>0, <1>6, BusyIsJob DEF ReadOrder, Waiting, Idle
  <2>2. \/ job'[b] = job[b]
        \/ /\ b = a /\ job'[b].order = job[a].order
           /\ job'[b].to = Effective(status[job[a].order], job[a].to)
    BY <1>0, <1>6 DEF ReadOrder, TypeOK, Dispatched
  <2>3. CASE job'[b] # job[b]
    <3>1. job[a].to = "Paid"
      BY <2>2, <2>3 DEF Effective
    <3>. QED
      BY <2>1, <2>2, <2>3, <3>1 DEF NoticesBacked
  <2>. QED
    BY <1>1, <2>3
<1>7. ASSUME NEW a \in Actors, Continue(a), ~ReadOrder(a) PROVE BuyerPaid(job'[b].order)
  <2>1. /\ job[a] \in Job
        /\ \/ job'[b] = job[b] \/ job'[b] = Idle
           \/ b = a /\ job'[b].order = job[a].order /\ job'[b].to = job[a].to
    <3>1. job[a] \in Job
      <4>1. CASE Throws(a)
        BY <1>0, <4>1 DEF Throws, TypeOK, Busy
      <4>2. CASE ~Throws(a)
        BY <1>0, <1>7, <4>2, BusyIsJob DEF Continue, CreateEscrow, ReleaseEscrow, RefundEscrow,
           NoPayout, CloseEscrow, AtErbn, ReadProduct, Restock, WriteOrder, Waiting
      <4>. QED
        BY <4>1, <4>2
    <3> DEFINE Goal == \/ job'[b] = job[b] \/ job'[b] = Idle
                       \/ b = a /\ job'[b].order = job[a].order /\ job'[b].to = job[a].to
    <3>2. ASSUME NEW j, j.order = job[a].order, j.to = job[a].to,
                 job' = [job EXCEPT ![a] = j] \/ job' = [job EXCEPT ![a] = Idle]
          PROVE  Goal
      BY <1>0, <3>2 DEF TypeOK
    <3>. HIDE DEF Goal
    <3>3. ASSUME NEW e \in EscrowIds, CreateEscrow(a, e) PROVE Goal
      <4> DEFINE j == [job[a] EXCEPT !.pc = "order", !.esc = e]
      <4>1. j.order = job[a].order /\ j.to = job[a].to
        BY <3>1 DEF Job
      <4>2. job' = [job EXCEPT ![a] = j] \/ job' = [job EXCEPT ![a] = Idle]
        BY <3>3 DEF CreateEscrow, Answered
      <4>. HIDE DEF j
      <4>. QED
        BY <3>2, <4>1, <4>2
    <3>4. ASSUME ReleaseEscrow(a) \/ RefundEscrow(a) PROVE Goal
      <4>1. PICK pc : \/ job' = [job EXCEPT ![a] = [job[a] EXCEPT !.pc = pc, !.paid = TRUE]]
                      \/ job' = [job EXCEPT ![a] = Idle]
        BY <3>4 DEF ReleaseEscrow, RefundEscrow, Answered
      <4> DEFINE j == [job[a] EXCEPT !.pc = pc, !.paid = TRUE]
      <4>2. j.order = job[a].order /\ j.to = job[a].to
        BY <3>1 DEF Job
      <4>3. job' = [job EXCEPT ![a] = j] \/ job' = [job EXCEPT ![a] = Idle]
        BY <4>1
      <4>. HIDE DEF j
      <4>. QED
        BY <3>2, <4>2, <4>3
    <3>5. ASSUME CloseEscrow(a) \/ NoPayout(a) PROVE Goal
      <4>1. PICK pc : \/ job' = [job EXCEPT ![a] = [job[a] EXCEPT !.pc = pc]]
                      \/ job' = [job EXCEPT ![a] = Idle]
        BY <1>0, <3>5 DEF CloseEscrow, NoPayout, Answered, TypeOK
      <4> DEFINE j == [job[a] EXCEPT !.pc = pc]
      <4>2. j.order = job[a].order /\ j.to = job[a].to
        BY <3>1 DEF Job
      <4>3. job' = [job EXCEPT ![a] = j] \/ job' = [job EXCEPT ![a] = Idle]
        BY <4>1
      <4>. HIDE DEF j
      <4>. QED
        BY <3>2, <4>2, <4>3
    <3>6. ASSUME ReadProduct(a) \/ Restock(a) PROVE Goal
      <4>1. PICK pc, n : \/ job' = [job EXCEPT ![a] = [job[a] EXCEPT !.pc = pc, !.seen = n]]
                         \/ job' = [job EXCEPT ![a] = Idle]
        BY <1>0, <3>6 DEF ReadProduct, Restock, TypeOK
      <4> DEFINE j == [job[a] EXCEPT !.pc = pc, !.seen = n]
      <4>2. j.order = job[a].order /\ j.to = job[a].to
        BY <3>1 DEF Job
      <4>3. job' = [job EXCEPT ![a] = j] \/ job' = [job EXCEPT ![a] = Idle]
        BY <4>1
      <4>. HIDE DEF j
      <4>. QED
        BY <3>2, <4>2, <4>3
    <3>7. ASSUME Throws(a) \/ WriteOrder(a) PROVE Goal
      <4>1. job' = [job EXCEPT ![a] = Idle]
        BY <3>7 DEF Throws, WriteOrder
      <4>. QED
        BY <1>0, <4>1 DEF TypeOK, Goal
    <3>. QED
      BY <1>7, <3>1, <3>3, <3>4, <3>5, <3>6, <3>7 DEF Continue, Goal
  <2>2. job[a] # Idle
    BY <2>1 DEF Job, Idle
  <2>. QED
    BY <1>1, <2>1, <2>2 DEF NoticesBacked
<1>8. CASE Outside
  BY <1>1, <1>8 DEF Outside, BuyerPays, AdminDeletesProduct, Crash
<1>9. CASE UNCHANGED vars
  BY <1>1, <1>9 DEF vars
<1>. QED
  BY <1>5, <1>6, <1>7, <1>8, <1>9 DEF Next

\* A payment date comes from an update to Paid.
LEMMA StampsNext ==
  ASSUME IInv, NoticesBacked, [Next]_vars, "adminPaid" \notin Env,
         NEW o \in Orders, "Paid" \in stamps'[o]
  PROVE  "Paid" \in stamps[o] \/ BuyerPaid(o)
<1>1. CASE UNCHANGED orderRow
  BY <1>1 DEF orderRow
<1>2. ASSUME NEW a \in Actors, WriteOrder(a) PROVE "Paid" \in stamps[o] \/ BuyerPaid(o)
  <2>1. job[a] \in Job /\ Busy(a)
    BY <1>2, BusyIsJob DEF WriteOrder, Waiting, IInv, Busy, Idle
  <2>2. \/ stamps'[o] = stamps[o]
        \/ job[a].order = o /\ stamps'[o] = stamps[o] \cup {Written(job[a])}
    BY <1>2, <2>1 DEF WriteOrder, IInv, TypeOK, orderRow
  <2>3. Written(job[a]) = "Paid" => job[a].to = "Paid"
    BY DEF Written
  <2>. QED
    BY <2>1, <2>2, <2>3 DEF NoticesBacked
<1>3. CASE Start
  BY <1>1, <1>3 DEF Start, PartyPatch, AdminPatch, EscrowPaid, CronScan, CronUpdate
<1>4. ASSUME NEW a \in Actors, Continue(a) PROVE "Paid" \in stamps[o] \/ BuyerPaid(o)
  BY <1>1, <1>2, <1>4 DEF Continue, ReadOrder, CreateEscrow, ReleaseEscrow, RefundEscrow,
     NoPayout, CloseEscrow, Throws, ReadProduct, Restock
<1>5. CASE Outside
  BY <1>1, <1>5 DEF Outside, BuyerPays, AdminDeletesProduct, Crash
<1>6. CASE UNCHANGED vars
  BY <1>1, <1>6 DEF vars
<1>. QED
  BY <1>3, <1>4, <1>5, <1>6 DEF Next

LEMMA PaymentsBacked == Spec => [](PaidByBuyer /\ NoticesBacked)
<1>1. Init => PaidByBuyer /\ NoticesBacked
  BY DEF Init, PaidByBuyer, NoticesBacked, Busy, Idle
<1>2. ASSUME IInv, IInv', PaidByBuyer /\ NoticesBacked, [Next]_vars
      PROVE  PaidByBuyer' /\ NoticesBacked'
  <2>1. PaidByBuyer'
    BY <1>2, StampsNext, PaymentsStay DEF PaidByBuyer
  <2>2. ASSUME "adminPaid" \notin Env, NEW b \in Actors, Busy(b)', job'[b].to = "Paid"
        PROVE  BuyerPaid(job[b].order)'
    <3>1. PICK o \in Orders : o = job'[b].order
      BY <1>2, <2>2 DEF IInv, TypeOK, Busy, Job
    <3>2. BuyerPaid(o)
      BY <1>2, <2>2, <3>1, NoticesNext
    <3>3. BuyerPaid(o)'
      BY <1>2, <3>2, PaymentsStay
    <3>. QED
      BY <3>1, <3>3 DEF BuyerPaid
  <2>. QED
    BY <2>1, <2>2 DEF NoticesBacked
<1>. QED
  BY <1>1, <1>2, Inductive, PTL DEF Spec

\* Unless an admin says so by hand, an order has a payment date only when the
\* buyer has paid into an escrow of that order.
THEOREM NoUnpaidPaid == Spec => []PaidByBuyer
BY PaymentsBacked, PTL
=============================================================================
