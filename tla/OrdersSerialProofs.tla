------------------------- MODULE OrdersSerialProofs -------------------------
(***************************************************************************)
(* Proofs about Orders with handlers that run one at a time: money is      *)
(* never stranded nor paid twice, a payout is recorded, the stock gets     *)
(* back what it gave, and Orders implements Settlement.                    *)
(***************************************************************************)
EXTENDS OrdersSerial, OrdersProofs, SumsProofs

Serial == "overlap" \notin Env

-----------------------------------------------------------------------------
(***************************************************************************)
(* The rules of the life cycle, read backwards                             *)
(***************************************************************************)

LEMMA RulesBefore ==
  ASSUME NEW s \in Status, NEW to \in Targets, CanMove(s, to)
  PROVE  s \in Before[Effective(s, to)]
<1>1. /\ s = "Created"   => to \in {"Accepted", "Closed"}
      /\ s = "Accepted"  => to \in {"Paid", "Closed"}
      /\ s = "Paid"      => to \in {"Shipped", "Disputed", "Closed"}
      /\ s = "Shipped"   => to \in {"Delivered", "Disputed"}
      /\ s = "Delivered" => to \in {"Disputed", "Completed"}
      /\ s = "Disputed"  => to \in {"Refunded", "Completed"}
      /\ s \in {"Created", "Accepted", "Paid", "Shipped", "Delivered", "Disputed"}
  BY DEF CanMove, validFrom, Status
<1>. QED
  BY <1>1 DEF Effective, Before

\* A snapshot that is fresh makes a handler that is.
LEMMA DispatchedFresh ==
  ASSUME NEW o \in Orders, NEW to \in Targets, status[o] \in Status, escrowId[o] \in MaybeEscrow,
         CanMove(status[o], to)
  PROVE  FreshJob(Dispatched(o, status[o], escrowId[o], to))
<1> DEFINE j == Dispatched(o, status[o], escrowId[o], to)
<1>1. /\ j.order = o /\ j.to = Effective(status[o], to) /\ j.esc = escrowId[o] /\ ~j.paid
      /\ j.pc = FirstAwait(status[o], escrowId[o], to)
  BY DEF Dispatched
<1>2. status[o] \in Before[j.to]
  BY <1>1, RulesBefore
<1>3. /\ j.to = "Accepted" => j.pc = "erbn"
      /\ j.to = "Closed" /\ j.pc # "erbn" => j.esc = NoEscrow
      /\ j.pc # "stock"
      /\ j.pc = "product" => j.to \in Returned
  BY <1>1 DEF FirstAwait, Effective, Returned
<1>4. FreshJob(j)
  <2>. HIDE DEF j
  <2>. QED
    BY <1>1, <1>2, <1>3 DEF FreshJob
<1>. QED
  BY <1>4

-----------------------------------------------------------------------------
(***************************************************************************)
(* Steps of the one that is at work                                        *)
(***************************************************************************)

\* Nobody but a is at work.
Alone(a) ==
  /\ \A b \in Actors : Busy(b) => b = a
  /\ \A t \in Tasks : batch[t] # {} => t = a

LEMMA BusyAlone ==
  ASSUME OneAtATime, NEW a \in Actors, Busy(a)
  PROVE  Alone(a)
BY DEF OneAtATime, Alone

LEMMA StartsAlone ==
  ASSUME Serial, NEW a \in Actors, MayStart(a)
  PROVE  Alone(a) /\ ~Busy(a) /\ \A t \in Tasks : batch[t] = {}
BY DEF Serial, MayStart, Quiet, Alone

\* The record of a becomes j; what j and the remaining snapshots rely on is so.
LEMMA SoloStep ==
  ASSUME TypeOK, SerialInv, NEW a \in Actors, Alone(a), NEW j \in Job \cup {Idle},
         job' = [job EXCEPT ![a] = j],
         \A t \in Tasks : batch'[t] \subseteq batch[t],
         j # Idle /\ j.pc # "read" => FreshJob(j)',
         \A t \in Tasks, o \in Orders, e \in MaybeEscrow : <<o, e>> \in batch'[t] =>
           status'[o] = status[o] /\ escrowId'[o] = escrowId[o] /\ (j # Idle => j.order # o),
         RowFresh', MoneyFollows'
  PROVE  SerialInv'
<1>1. job'[a] = j /\ \A b \in Actors \ {a} : job'[b] = Idle
  BY DEF TypeOK, Alone, Busy
<1>2. \A t \in Tasks : batch'[t] # {} => t = a
  BY DEF Alone
<1>3. OneAtATime'
  BY <1>1, <1>2 DEF OneAtATime, Busy
<1>4. JobFresh'
  BY <1>1 DEF JobFresh, Busy, FreshJob
<1>5. BatchFresh'
  BY <1>1, <1>2 DEF BatchFresh, SerialInv, Busy
<1>. QED
  BY <1>3, <1>4, <1>5 DEF SerialInv

\* The steps that change nothing of this but the record of a.
LEMMA SoloJobStep ==
  ASSUME TypeOK, SerialInv, NEW a \in Actors, Alone(a), NEW j \in Job \cup {Idle},
         job' = [job EXCEPT ![a] = j],
         \A t \in Tasks : batch'[t] \subseteq batch[t],
         j # Idle /\ j.pc # "read" => FreshJob(j),
         \A t \in Tasks, o \in Orders, e \in MaybeEscrow : <<o, e>> \in batch'[t] =>
           (j # Idle => j.order # o),
         UNCHANGED <<orderRow, escrow, escrowFor, stock>>
  PROVE  SerialInv'
<1>1. RowFresh' /\ MoneyFollows'
  BY DEF SerialInv, RowFresh, MoneyFollows, Owns, orderRow
<1>2. PICK k \in Job \cup {Idle} : k = j
  OBVIOUS
<1>3. k # Idle /\ k.pc # "read" => FreshJob(k)'
  BY <1>2 DEF FreshJob, orderRow
<1>4. \A t \in Tasks, o \in Orders, e \in MaybeEscrow : <<o, e>> \in batch'[t] =>
        status'[o] = status[o] /\ escrowId'[o] = escrowId[o] /\ (k # Idle => k.order # o)
  BY <1>2 DEF orderRow
<1>5. job' = [job EXCEPT ![a] = k]
  BY <1>2
<1>. QED
  BY <1>1, <1>3, <1>4, <1>5, SoloStep

-----------------------------------------------------------------------------
(***************************************************************************)
(* SerialInv                                                               *)
(***************************************************************************)

LEMMA SerialInit == Init => SerialInv
<1>. SUFFICES ASSUME Init PROVE SerialInv
  OBVIOUS
<1>1. OneAtATime /\ JobFresh /\ BatchFresh
  BY DEF Init, OneAtATime, JobFresh, BatchFresh, Busy
<1>2. RowFresh /\ MoneyFollows
  BY DEF Init, RowFresh, MoneyFollows, Owns
<1>. QED
  BY <1>1, <1>2 DEF SerialInv

LEMMA SerialStart ==
  ASSUME Serial, IInv, SerialInv, Start
  PROVE  SerialInv'
<1>0. TypeOK
  BY DEF IInv
<1>1. ASSUME NEW r \in Requests, NEW o \in Orders, NEW to \in Targets, MayStart(r),
             job' = [job EXCEPT ![r] = Request(o, to)],
             UNCHANGED <<orderRow, productRow, escrow, escrowFor, batch>>
      PROVE  SerialInv'
  <2>1. Request(o, to) \in Job /\ Request(o, to).pc = "read" /\ r \in Actors
    BY RequestType DEF Request, Actors
  <2>2. Alone(r) /\ \A t \in Tasks : batch'[t] = {}
    BY <1>1, <2>1, StartsAlone
  <2>. QED
    BY <1>0, <1>1, <2>1, <2>2, SoloJobStep DEF productRow
<1>2. ASSUME NEW r \in Requests, NEW o \in Orders, NEW to \in Targets, NEW u \in Party,
             PartyPatch(r, o, u, to)
      PROVE  SerialInv'
  BY <1>1, <1>2 DEF PartyPatch, erbn
<1>3. ASSUME NEW r \in Requests, NEW o \in Orders, NEW to \in Targets, AdminPatch(r, o, to)
      PROVE  SerialInv'
  BY <1>1, <1>3 DEF AdminPatch, erbn
<1>4. ASSUME NEW r \in Requests, NEW o \in Orders, NEW e \in EscrowIds, EscrowPaid(r, o, e)
      PROVE  SerialInv'
  <2>1. "Paid" \in Targets
    BY DEF Targets, Status
  <2>. QED
    BY <1>1, <1>4, <2>1 DEF EscrowPaid
<1>5. ASSUME NEW t \in Tasks, NEW due \in SUBSET Orders, CronScan(t, due)
      PROVE  SerialInv'
  <2>1. /\ t \in Actors /\ MayStart(t)
        /\ \A o \in due : status[o] = From(t)
        /\ batch' = [batch EXCEPT ![t] = {<<o, escrowId[o]>> : o \in due}]
        /\ UNCHANGED <<orderRow, productRow, erbn, job>>
    BY <1>5 DEF CronScan, Actors
  <2>2. (\A b \in Actors : ~Busy(b)) /\ \A u \in Tasks : batch[u] = {}
    BY <2>1, StartsAlone DEF Alone
  <2>3. batch'[t] = {<<o, escrowId[o]>> : o \in due} /\ \A u \in Tasks \ {t} : batch'[u] = {}
    BY <1>0, <2>1, <2>2 DEF TypeOK
  <2>4. OneAtATime' /\ JobFresh'
    BY <2>1, <2>2, <2>3 DEF OneAtATime, JobFresh, Busy
  <2>5. BatchFresh'
    BY <2>1, <2>2, <2>3 DEF BatchFresh, Busy, orderRow
  <2>6. RowFresh' /\ MoneyFollows'
    BY <2>1 DEF SerialInv, RowFresh, MoneyFollows, Owns, orderRow, erbn
  <2>. QED
    BY <2>4, <2>5, <2>6 DEF SerialInv
<1>6. ASSUME NEW t \in Tasks, NEW o \in Orders, NEW e \in MaybeEscrow, CronUpdate(t, o, e)
      PROVE  SerialInv'
  <2> DEFINE j == IF CanMove(From(t), To(t)) THEN Dispatched(o, From(t), e, To(t)) ELSE Idle
  <2>1. From(t) \in Status /\ To(t) \in Targets /\ t \in Actors
    BY DEF From, To, Status, Targets, Actors
  <2>2. j \in Job \cup {Idle} /\ (j # Idle => j.order = o)
    BY <2>1, DispatchedType
  <2>3. /\ ~Busy(t) /\ <<o, e>> \in batch[t] /\ job' = [job EXCEPT ![t] = j]
        /\ batch' = [batch EXCEPT ![t] = @ \ {<<o, e>>}]
        /\ UNCHANGED <<orderRow, productRow, erbn>>
    BY <1>6 DEF CronUpdate
  <2>4. status[o] = From(t) /\ escrowId[o] = e
    BY <2>3 DEF SerialInv, BatchFresh
  <2>5. j # Idle => FreshJob(j)
    BY <2>1, <2>4, DispatchedFresh
  <2>6. Alone(t)
    BY <2>3 DEF SerialInv, OneAtATime, Alone
  <2>7. \A u \in Tasks : batch'[u] \subseteq batch[u]
    BY <1>0, <2>3 DEF TypeOK
  <2>8. ASSUME NEW u \in Tasks, NEW q \in Orders, NEW f \in MaybeEscrow, <<q, f>> \in batch'[u]
        PROVE  q # o
    <3>1. u = t /\ <<q, f>> \in batch[t] /\ <<q, f>> # <<o, e>>
      BY <1>0, <2>3, <2>6, <2>7, <2>8 DEF Alone, TypeOK
    <3>2. escrowId[q] = f
      BY <3>1 DEF SerialInv, BatchFresh
    <3>. QED
      BY <2>4, <3>1, <3>2
  <2>9. stock' = stock
    BY <2>3 DEF productRow
  <2>. HIDE DEF j
  <2>. QED
    BY <1>0, <2>1, <2>2, <2>3, <2>5, <2>6, <2>7, <2>8, <2>9, SoloJobStep DEF erbn
<1>. QED
  BY <1>2, <1>3, <1>4, <1>5, <1>6 DEF Start

\* A step of handler a at ERBN: its record becomes k, and a closed escrow
\* stays closed.
LEMMA SerialErbnStep ==
  ASSUME TypeOK, SerialInv, NEW a \in Actors, Busy(a), NEW k \in Job \cup {Idle},
         job' = [job EXCEPT ![a] = k],
         k # Idle => k.order = job[a].order /\ FreshJob(k)',
         \A e \in EscrowIds : escrow[e] = "Closed" => escrow'[e] = "Closed",
         UNCHANGED <<orderRow, batch>>,
         MoneyFollows'
  PROVE  SerialInv'
<1>1. Alone(a)
  BY BusyAlone DEF SerialInv
<1>2. RowFresh'
  BY DEF SerialInv, RowFresh, orderRow, TypeOK, MaybeEscrow
<1>3. \A t \in Tasks : batch'[t] \subseteq batch[t]
  OBVIOUS
<1>4. ASSUME NEW t \in Tasks, NEW o \in Orders, NEW e \in MaybeEscrow, <<o, e>> \in batch'[t]
      PROVE  status'[o] = status[o] /\ escrowId'[o] = escrowId[o] /\ (k # Idle => k.order # o)
  <2>1. <<o, e>> \in batch[t] /\ t = a
    BY <1>1, <1>4 DEF Alone
  <2>2. job[t].order # o
    BY <2>1 DEF SerialInv, BatchFresh
  <2>. QED
    BY <2>1, <2>2 DEF orderRow
<1>5. k # Idle /\ k.pc # "read" => FreshJob(k)'
  OBVIOUS
<1>. QED
  BY <1>1, <1>2, <1>3, <1>4, <1>5, SoloStep

\* An escrow has one order, so a payment into or out of the escrow that this
\* order shows keeps MoneyFollows.
LEMMA MoneyMovesInPlace ==
  ASSUME IInv, MoneyFollows, NEW o \in Orders, NEW e \in EscrowIds, escrowId[o] = e, Owns(o, e),
         UNCHANGED <<orderRow, escrowFor>>,
         \A f \in EscrowIds \ {e} : escrow'[f] = escrow[f]
  PROVE  MoneyFollows'
<1>1. \A q \in Orders : Owns(q, e) => q = o
  BY DEF IInv, EscrowInv, Owns
<1>. QED
  BY <1>1 DEF MoneyFollows, Owns, orderRow

LEMMA SerialErbn ==
  ASSUME IInv, SerialInv, NEW a \in Actors,
         \/ \E e \in EscrowIds : CreateEscrow(a, e)
         \/ ReleaseEscrow(a) \/ RefundEscrow(a) \/ NoPayout(a) \/ CloseEscrow(a)
  PROVE  SerialInv'
<1> DEFINE o == job[a].order
<1>1. job[a] \in Job /\ job[a].pc = "erbn" /\ o \in Orders /\ TypeOK /\ Busy(a)
  <2>1. job[a].pc = "erbn" /\ TypeOK
    BY DEF CreateEscrow, ReleaseEscrow, RefundEscrow, NoPayout, CloseEscrow, AtErbn, IInv
  <2>. QED
    BY <2>1, BusyIsJob DEF Waiting, Job, Busy, Idle
<1>2. /\ HandlerInv(job[a]) /\ FreshJob(job[a])
      /\ status[o] \in Before[job[a].to] /\ ~job[a].paid
      /\ job[a].to # "Accepted" => job[a].esc = escrowId[o]
  BY <1>1 DEF IInv, JobInv, SerialInv, JobFresh, Busy, FreshJob
<1>3. ASSUME NEW e \in EscrowIds, CreateEscrow(a, e)
      PROVE  SerialInv'
  <2>1. /\ escrow[e] = "none"
        /\ escrow' = [escrow EXCEPT ![e] = "Open"]
        /\ escrowFor' = [escrowFor EXCEPT ![e] = {o}]
        /\ UNCHANGED <<orderRow, productRow, batch>>
        /\ job[a].to = "Accepted"
    BY <1>3 DEF CreateEscrow, AtErbn
  <2>2. /\ escrow'[e] = "Open"
        /\ \A f \in EscrowIds \ {e} : escrow'[f] = escrow[f] /\ escrowFor'[f] = escrowFor[f]
    BY <1>1, <2>1 DEF TypeOK
  <2>3. PICK k \in Job \cup {Idle} :
          /\ job' = [job EXCEPT ![a] = k]
          /\ k # Idle => k.order = o /\ k.to = "Accepted" /\ k.esc = e /\ k.pc = "order"
    <3> DEFINE j == [job[a] EXCEPT !.pc = "order", !.esc = e]
    <3>1. j \in Job /\ j.order = o /\ j.to = "Accepted" /\ j.esc = e /\ j.pc = "order"
      BY <1>1, <2>1 DEF Job, Waiting, MaybeEscrow
    <3>2. job' = [job EXCEPT ![a] = j] \/ job' = [job EXCEPT ![a] = Idle]
      BY <1>3 DEF CreateEscrow, Answered
    <3>. HIDE DEF j
    <3>. QED
      BY <3>1, <3>2
  <2>4. k # Idle => k.order = o /\ FreshJob(k)'
    BY <1>2, <2>1, <2>2, <2>3 DEF FreshJob, orderRow
  <2>5. MoneyFollows'
    BY <2>1, <2>2 DEF SerialInv, MoneyFollows, Owns, orderRow, PaidInto
  <2>6. \A f \in EscrowIds : escrow[f] = "Closed" => escrow'[f] = "Closed"
    BY <2>1, <2>2
  <2>. QED
    BY <1>1, <2>1, <2>3, <2>4, <2>5, <2>6, SerialErbnStep
<1>4. ASSUME ReleaseEscrow(a) \/ RefundEscrow(a)
      PROVE  SerialInv'
  <2>1. PICK e \in EscrowIds, s \in {"Completed", "Refunded"}, x \in {"Released", "Refunded"} :
        /\ e = job[a].esc /\ escrow[e] = "Funded"
        /\ escrow' = [escrow EXCEPT ![e] = x]
        /\ UNCHANGED <<orderRow, escrowFor, batch>>
        /\ job[a].to = s
    BY <1>4 DEF ReleaseEscrow, RefundEscrow, AtErbn
  <2>2. escrow'[e] = x /\ \A f \in EscrowIds \ {e} : escrow'[f] = escrow[f]
    BY <1>1, <2>1 DEF TypeOK
  <2>3. PICK k \in Job \cup {Idle} :
          /\ job' = [job EXCEPT ![a] = k]
          /\ k # Idle => /\ k.order = o /\ k.to = s /\ k.esc = e
                         /\ k.pc = "order" \/ (k.pc = "product" /\ s = "Refunded")
    <3>1. CASE ReleaseEscrow(a)
      <4> DEFINE j == [job[a] EXCEPT !.pc = "order", !.paid = TRUE]
      <4>1. j \in Job /\ j.order = o /\ j.to = s /\ j.esc = e /\ j.pc = "order"
        BY <1>1, <2>1 DEF Job, Waiting
      <4>2. job' = [job EXCEPT ![a] = j] \/ job' = [job EXCEPT ![a] = Idle]
        BY <3>1 DEF ReleaseEscrow, Answered
      <4>. HIDE DEF j
      <4>. QED
        BY <4>1, <4>2
    <3>2. CASE RefundEscrow(a)
      <4> DEFINE j == [job[a] EXCEPT !.pc = "product", !.paid = TRUE]
      <4>1. /\ j \in Job /\ j.order = o /\ j.to = s /\ j.esc = e /\ j.pc = "product"
            /\ s = "Refunded"
        BY <1>1, <2>1, <3>2 DEF Job, Waiting, RefundEscrow, AtErbn
      <4>2. job' = [job EXCEPT ![a] = j] \/ job' = [job EXCEPT ![a] = Idle]
        BY <3>2 DEF RefundEscrow, Answered
      <4>. HIDE DEF j
      <4>. QED
        BY <4>1, <4>2
    <3>. QED
      BY <1>4, <3>1, <3>2
  <2>4. k # Idle => k.order = o /\ FreshJob(k)'
    BY <1>2, <2>1, <2>3 DEF FreshJob, orderRow, Returned
  <2>5. MoneyFollows'
    <3>1. escrowId[o] = e /\ Owns(o, e)
      BY <1>2, <2>1 DEF HandlerInv
    <3>. QED
      BY <1>1, <2>1, <2>2, <3>1, MoneyMovesInPlace DEF SerialInv
  <2>6. \A f \in EscrowIds : escrow[f] = "Closed" => escrow'[f] = "Closed"
    BY <2>1, <2>2
  <2>. QED
    BY <1>1, <2>1, <2>3, <2>4, <2>5, <2>6, SerialErbnStep
<1>5. ASSUME CloseEscrow(a)
      PROVE  SerialInv'
  <2>1. PICK e \in EscrowIds :
        /\ e = job[a].esc /\ escrow[e] \in {"Open", "Closed"}
        /\ escrow' = [escrow EXCEPT ![e] = "Closed"]
        /\ UNCHANGED <<orderRow, escrowFor, batch>>
        /\ job[a].to = "Closed"
    BY <1>5 DEF CloseEscrow, AtErbn
  <2>2. escrow'[e] = "Closed" /\ \A f \in EscrowIds \ {e} : escrow'[f] = escrow[f]
    BY <1>1, <2>1 DEF TypeOK
  <2>3. PICK k \in Job \cup {Idle} :
          /\ job' = [job EXCEPT ![a] = k]
          /\ k # Idle => k.order = o /\ k.to = "Closed" /\ k.esc = e /\ k.pc = "product"
    <3> DEFINE j == [job[a] EXCEPT !.pc = "product"]
    <3>1. j \in Job /\ j.order = o /\ j.to = "Closed" /\ j.esc = e /\ j.pc = "product"
      BY <1>1, <2>1 DEF Job, Waiting
    <3>2. job' = [job EXCEPT ![a] = j] \/ job' = [job EXCEPT ![a] = Idle]
      BY <1>5 DEF CloseEscrow, Answered
    <3>. HIDE DEF j
    <3>. QED
      BY <3>1, <3>2
  <2>4. k # Idle => k.order = o /\ FreshJob(k)'
    BY <1>2, <2>1, <2>2, <2>3 DEF FreshJob, orderRow, Returned
  <2>5. MoneyFollows'
    BY <2>1, <2>2 DEF SerialInv, MoneyFollows, Owns, orderRow, PaidInto
  <2>6. \A f \in EscrowIds : escrow[f] = "Closed" => escrow'[f] = "Closed"
    BY <2>2
  <2>. QED
    BY <1>1, <2>1, <2>3, <2>4, <2>5, <2>6, SerialErbnStep
<1>6. CASE NoPayout(a)
  <2>1. UNCHANGED <<orderRow, productRow, erbn, batch>>
    BY <1>6 DEF NoPayout
  <2>2. PICK k \in Job \cup {Idle} :
          /\ job' = [job EXCEPT ![a] = k]
          /\ k # Idle => /\ k.order = o /\ k.to = job[a].to /\ k.esc = job[a].esc
                         /\ job[a].to \in {"Completed", "Refunded"}
                         /\ k.pc = IF job[a].to = "Completed" THEN "order" ELSE "product"
    <3> DEFINE pc == IF job[a].to = "Completed" THEN "order" ELSE "product"
               j == [job[a] EXCEPT !.pc = pc]
    <3>1. pc \in Waiting
      BY DEF Waiting
    <3>2. /\ j \in Job /\ j.order = o /\ j.to = job[a].to /\ j.esc = job[a].esc /\ j.pc = pc
          /\ job' = [job EXCEPT ![a] = j] /\ job[a].to \in {"Completed", "Refunded"}
      BY <1>1, <1>6, <3>1 DEF Job, NoPayout, AtErbn
    <3>. HIDE DEF j, pc
    <3>3. j \in Job \cup {Idle}
      BY <3>2
    <3>. WITNESS j \in Job \cup {Idle}
    <3>. USE DEF pc
    <3>. QED
      BY <3>2
  <2>3. k # Idle => k.order = o /\ FreshJob(k)'
    BY <1>2, <2>1, <2>2 DEF FreshJob, orderRow, Returned
  <2>4. MoneyFollows' /\ \A f \in EscrowIds : escrow[f] = "Closed" => escrow'[f] = "Closed"
    BY <2>1 DEF SerialInv, MoneyFollows, Owns, orderRow, erbn
  <2>. QED
    BY <1>1, <2>1, <2>2, <2>3, <2>4, SerialErbnStep
<1>. QED
  BY <1>3, <1>4, <1>5, <1>6

\* Whoever throws is out of the way.
LEMMA SerialThrows ==
  ASSUME IInv, SerialInv, NEW a \in Actors, Throws(a)
  PROVE  SerialInv'
<1>1. Alone(a) /\ TypeOK
  BY BusyAlone DEF SerialInv, Throws, IInv
<1>. QED
  BY <1>1, SoloJobStep DEF Throws, erbn, productRow

\* The write moves the order from where the handler found it.
LEMMA SerialWrite ==
  ASSUME IInv, SerialInv, NEW a \in Actors, WriteOrder(a)
  PROVE  SerialInv'
<1> DEFINE o == job[a].order
           s == Written(job[a])
<1>1. job[a] \in Job /\ job[a].pc = "order" /\ o \in Orders /\ TypeOK /\ Busy(a)
  <2>1. job[a].pc = "order" /\ TypeOK
    BY DEF WriteOrder, IInv
  <2>. QED
    BY <2>1, BusyIsJob DEF Waiting, Job, Busy, Idle
<1>2. /\ status[o] \in Before[job[a].to]
      /\ job[a].to = "Closed" => job[a].esc = escrowId[o]
      /\ job[a].to = "Closed" /\ job[a].esc # NoEscrow => escrow[job[a].esc] = "Closed"
  BY <1>1 DEF SerialInv, JobFresh, FreshJob
<1>3. job' = [job EXCEPT ![a] = Idle] /\ UNCHANGED <<productRow, erbn, batch>>
  BY DEF WriteOrder
<1>4. Alone(a)
  BY <1>1, BusyAlone DEF SerialInv
<1>5. CASE UNCHANGED orderRow
  BY <1>1, <1>3, <1>4, <1>5, SoloJobStep DEF productRow, erbn
<1>6. CASE ~UNCHANGED orderRow
  <2>1. /\ status' = [status EXCEPT ![o] = s]
        /\ stamps' = [stamps EXCEPT ![o] = @ \cup {s}]
        /\ escrowId' = IF s = "Accepted" THEN [escrowId EXCEPT ![o] = job[a].esc] ELSE escrowId
    BY <1>6 DEF WriteOrder
  <2>2. /\ status'[o] = s /\ stamps'[o] = stamps[o] \cup {s}
        /\ \A q \in Orders \ {o} : status'[q] = status[q] /\ stamps'[q] = stamps[q]
                                     /\ escrowId'[q] = escrowId[q]
        /\ s # "Accepted" => escrowId'[o] = escrowId[o]
    BY <1>1, <2>1 DEF TypeOK
  <2>3. /\ s = job[a].to \/ s = "EscrowPaymentFailed"
        /\ s # "Created"
    BY <1>1 DEF Written, Job, Targets
  <2>4. s = "Accepted" => status[o] = "Created" /\ stamps[o] = {} /\ escrowId[o] = NoEscrow
    BY <1>1, <1>2, <2>3 DEF Before, SerialInv, RowFresh
  <2>5. RowFresh'
    <3>. SUFFICES ASSUME NEW q \in Orders
         PROVE /\ status'[q] = "Created" => stamps'[q] = {} /\ escrowId'[q] = NoEscrow
               /\ status'[q] = "Accepted" => stamps'[q] = {"Accepted"}
               /\ status'[q] = "Closed" /\ escrowId'[q] # NoEscrow =>
                    escrow[escrowId'[q]] = "Closed"
      BY <1>3 DEF RowFresh, erbn
    <3>1. CASE q = o
      BY <1>2, <2>2, <2>3, <2>4, <3>1
    <3>2. CASE q # o
      BY <2>2, <3>2 DEF SerialInv, RowFresh
    <3>. QED
      BY <3>1, <3>2
  <2>6. MoneyFollows'
    <3>1. ASSUME NEW e \in EscrowIds, Owns(o, e), escrow[e] \in PaidInto
          PROVE  s # "Accepted"
      BY <1>1, <2>4, <3>1, OrdersAssumption DEF SerialInv, MoneyFollows
    <3>. QED
      BY <1>3, <2>2, <3>1 DEF SerialInv, MoneyFollows, Owns, erbn
  <2>7. ASSUME NEW t \in Tasks, NEW q \in Orders, NEW e \in MaybeEscrow, <<q, e>> \in batch'[t]
        PROVE  status'[q] = status[q] /\ escrowId'[q] = escrowId[q]
    <3>1. <<q, e>> \in batch[t] /\ t = a
      BY <1>3, <1>4, <2>7 DEF Alone
    <3>2. q # o
      BY <1>1, <3>1 DEF SerialInv, BatchFresh
    <3>. QED
      BY <2>2, <3>2
  <2>8. \A t \in Tasks : batch'[t] \subseteq batch[t]
    BY <1>3
  <2>. QED
    BY <1>1, <1>3, <1>4, <2>5, <2>6, <2>7, <2>8, SoloStep
<1>. QED
  BY <1>5, <1>6

LEMMA SerialDatabase ==
  ASSUME IInv, SerialInv, NEW a \in Actors,
         ReadOrder(a) \/ ReadProduct(a) \/ Restock(a) \/ WriteOrder(a)
  PROVE  SerialInv'
<1> DEFINE o == job[a].order
           p == ProductOf[o]
<1>1. /\ job[a] \in Job /\ TypeOK /\ Busy(a) /\ Alone(a)
      /\ o \in Orders /\ job[a].to \in Targets /\ p \in Products
  <2>1. job[a].pc \in Waiting /\ TypeOK
    BY DEF ReadOrder, ReadProduct, Restock, WriteOrder, Waiting, IInv
  <2>2. job[a] \in Job /\ Busy(a)
    BY <2>1, BusyIsJob DEF Waiting, Busy, Idle
  <2>3. Alone(a)
    BY <2>2, BusyAlone DEF SerialInv
  <2>. QED
    BY <2>1, <2>2, <2>3, OrdersAssumption DEF Job
<1>2. \A t \in Tasks, q \in Orders, e \in MaybeEscrow : <<q, e>> \in batch[t] => o # q
  BY <1>1 DEF SerialInv, BatchFresh, Alone
<1>3. job[a].pc # "read" => FreshJob(job[a])
  BY <1>1 DEF SerialInv, JobFresh
<1>4. CASE ReadOrder(a)
  <2> DEFINE j == IF CanMove(status[o], job[a].to)
                  THEN Dispatched(o, status[o], escrowId[o], job[a].to) ELSE Idle
  <2>1. status[o] \in Status /\ escrowId[o] \in MaybeEscrow
    BY <1>1 DEF TypeOK
  <2>2. j \in Job \cup {Idle} /\ (j # Idle => FreshJob(j) /\ j.order = o)
    BY <1>1, <2>1, DispatchedType, DispatchedFresh
  <2>3. job' = [job EXCEPT ![a] = j] /\ UNCHANGED <<orderRow, erbn, batch, stock>>
    BY <1>4 DEF ReadOrder, productRow
  <2>. HIDE DEF j
  <2>. QED
    BY <1>1, <1>2, <2>2, <2>3, SoloJobStep DEF erbn
<1>5. CASE ReadProduct(a)
  <2> DEFINE k == [job[a] EXCEPT !.pc = "stock", !.seen = stock[p]]
             j == IF p \in deleted THEN Idle ELSE k
  <2>1. stock[p] \in Int
    BY <1>1 DEF TypeOK
  <2>2. /\ k \in Job /\ k.order = o /\ k.to = job[a].to /\ k.esc = job[a].esc
        /\ k.pc = "stock" /\ k.seen = stock[p]
    BY <1>1, <2>1 DEF Job, Waiting
  <2>3. job[a].pc = "product"
    BY <1>5 DEF ReadProduct
  <2>4. FreshJob(k)
    <3>. HIDE DEF k
    <3>. QED
      BY <1>3, <2>2, <2>3 DEF FreshJob
  <2>5. j \in Job \cup {Idle} /\ (j # Idle => FreshJob(j) /\ j.order = o)
    BY <2>2, <2>4
  <2>6. job' = [job EXCEPT ![a] = j] /\ UNCHANGED <<orderRow, erbn, batch, stock>>
    BY <1>5 DEF ReadProduct, productRow
  <2>. HIDE DEF j
  <2>. QED
    BY <1>1, <1>2, <2>5, <2>6, SoloJobStep DEF erbn
<1>6. CASE Restock(a)
  <2>1. PICK k \in Job :
          /\ job' = [job EXCEPT ![a] = k]
          /\ k.order = o /\ k.to = job[a].to /\ k.esc = job[a].esc /\ k.pc = "order"
    <3> DEFINE j == [job[a] EXCEPT !.pc = "order", !.seen = 0]
    <3>1. 0 \in Int /\ "order" \in Waiting
      BY DEF Waiting
    <3>2. /\ j \in Job /\ j.order = o /\ j.to = job[a].to /\ j.esc = job[a].esc
          /\ j.pc = "order" /\ job' = [job EXCEPT ![a] = j]
      BY <1>1, <1>6, <3>1 DEF Job, Restock
    <3>. HIDE DEF j
    <3>. QED
      BY <3>2
  <2>2. job[a].pc = "stock" /\ UNCHANGED <<orderRow, erbn, batch>>
    BY <1>6 DEF Restock
  <2>3. FreshJob(k)'
    BY <1>3, <2>1, <2>2 DEF FreshJob, orderRow, erbn
  <2>4. RowFresh' /\ MoneyFollows'
    BY <2>2 DEF SerialInv, RowFresh, MoneyFollows, Owns, orderRow, erbn
  <2>. QED
    BY <1>1, <1>2, <2>1, <2>2, <2>3, <2>4, SoloStep DEF orderRow
<1>7. CASE WriteOrder(a)
  BY <1>7, SerialWrite
<1>. QED
  BY <1>4, <1>5, <1>6, <1>7

LEMMA SerialOutside ==
  ASSUME IInv, SerialInv, Outside
  PROVE  SerialInv'
<1>1. ASSUME NEW o \in Orders, NEW e \in EscrowIds, BuyerPays(o, e)
      PROVE  SerialInv'
  <2>1. /\ escrow[e] = "Open" /\ escrow' = [escrow EXCEPT ![e] = "Funded"]
        /\ UNCHANGED <<orderRow, productRow, escrowFor, job, batch>>
        /\ escrowId[o] = e
    BY <1>1 DEF BuyerPays
  <2>2. escrow'[e] = "Funded" /\ \A f \in EscrowIds \ {e} : escrow'[f] = escrow[f]
    BY <2>1 DEF IInv, TypeOK
  <2>3. Owns(o, e) /\ \A q \in Orders : Owns(q, e) => q = o
    BY <2>1, OrdersAssumption DEF IInv, RowInv, EscrowInv, Owns
  <2>4. MoneyFollows'
    BY <2>1, <2>2, <2>3, MoneyMovesInPlace DEF SerialInv
  <2>5. RowFresh'
    BY <2>1, <2>2 DEF SerialInv, RowFresh, orderRow, IInv, TypeOK, MaybeEscrow
  <2>6. OneAtATime' /\ BatchFresh'
    BY <2>1 DEF SerialInv, OneAtATime, BatchFresh, Busy, orderRow
  <2>7. JobFresh'
    <3>. SUFFICES ASSUME NEW b \in Actors, (Busy(b) /\ job[b].pc # "read")'
                  PROVE  FreshJob(job[b])'
      BY DEF JobFresh
    <3> DEFINE j == job[b]
    <3>1. FreshJob(j) /\ HandlerInv(j) /\ j \in Job
      BY <2>1 DEF SerialInv, JobFresh, IInv, JobInv, TypeOK, Busy
    <3>2. j.order \in Orders
      BY <3>1 DEF Job
    <3>3. j.to = "Accepted" /\ j.pc # "erbn" => Owns(j.order, j.esc) /\ j.esc # e
      <4>. SUFFICES ASSUME j.to = "Accepted", j.pc # "erbn", j.esc = e PROVE FALSE
        BY <3>1 DEF HandlerInv
      <4>1. j.order = o
        BY <2>3, <3>1, <3>2 DEF HandlerInv
      <4>2. status[o] = "Created"
        BY <3>1, <4>1 DEF FreshJob, Before
      <4>. QED
        BY <2>1, <4>2, OrdersAssumption DEF SerialInv, RowFresh
    <3>4. j.to = "Closed" /\ j.pc # "erbn" /\ j.esc # NoEscrow => j.esc \in EscrowIds /\ j.esc # e
      BY <2>1, <3>1 DEF FreshJob, Job, MaybeEscrow
    <3>5. /\ j.to = "Accepted" /\ j.pc # "erbn" => escrow'[j.esc] = "Open"
          /\ j.to = "Closed" /\ j.pc # "erbn" /\ j.esc # NoEscrow => escrow'[j.esc] = "Closed"
      BY <2>2, <3>1, <3>3, <3>4 DEF FreshJob, Owns
    <3>6. job'[b] = j
      BY <2>1
    <3>. HIDE DEF j
    <3>. QED
      BY <2>1, <3>1, <3>5, <3>6 DEF FreshJob, orderRow, productRow
  <2>. QED
    BY <2>4, <2>5, <2>6, <2>7 DEF SerialInv
<1>2. ASSUME NEW p \in Products, AdminDeletesProduct(p)
      PROVE  SerialInv'
  BY <1>2 DEF AdminDeletesProduct, SerialInv, OneAtATime, JobFresh, FreshJob, BatchFresh, RowFresh,
              MoneyFollows, Owns, Busy, orderRow, erbn
<1>3. CASE Crash
  <2>1. RowFresh' /\ MoneyFollows'
    BY <1>3 DEF Crash, SerialInv, RowFresh, MoneyFollows, Owns, orderRow, erbn
  <2>2. OneAtATime' /\ JobFresh' /\ BatchFresh'
    BY <1>3 DEF Crash, OneAtATime, JobFresh, BatchFresh, Busy
  <2>. QED
    BY <2>1, <2>2 DEF SerialInv
<1>. QED
  BY <1>1, <1>2, <1>3 DEF Outside

LEMMA SerialNext ==
  ASSUME Serial, IInv, SerialInv, [Next]_vars
  PROVE  SerialInv'
<1>1. CASE Start
  BY <1>1, SerialStart
<1>2. ASSUME NEW a \in Actors, Continue(a) PROVE SerialInv'
  BY <1>2, SerialErbn, SerialThrows, SerialDatabase DEF Continue
<1>3. CASE Outside
  BY <1>3, SerialOutside
<1>4. CASE UNCHANGED vars
  BY <1>4 DEF vars, orderRow, productRow, erbn, SerialInv, OneAtATime, JobFresh, FreshJob,
              BatchFresh, RowFresh, MoneyFollows, Owns, Busy
<1>. QED
  BY <1>1, <1>2, <1>3, <1>4 DEF Next

\* Handlers that run one at a time act on what is so, whatever crashes, is
\* lost or is done by an admin.
THEOREM InductiveSerial == Serial => (Spec => [](IInv /\ SerialInv))
<1>1. ASSUME Serial PROVE IInv /\ SerialInv /\ [Next]_vars => SerialInv'
  BY <1>1, SerialNext
<1>2. Serial => (Spec => []SerialInv)
  <2>. SUFFICES ASSUME Serial PROVE Spec => []SerialInv
    OBVIOUS
  <2>. QED
    BY <1>1, SerialInit, Inductive, PTL DEF Spec
<1>. QED
  BY <1>2, Inductive, PTL

\* The buyer's money is in the escrow that its order shows, and some update can
\* still move that order on, unless ERBN has refused a payout of it: also after
\* a crash, or when ERBN's answer was lost.
THEOREM NoOtherWayToStrand == Serial => (Spec => []StrandedOnlyByFailedPayout)
<1>1. ASSUME IInv, SerialInv PROVE StrandedOnlyByFailedPayout
  <2>. SUFFICES ASSUME NEW o \in Orders, NEW e \in EscrowIds, Owns(o, e), escrow[e] = "Funded"
                PROVE  escrowId[o] = e /\ (Movable(o) \/ status[o] = "EscrowPaymentFailed")
    BY DEF StrandedOnlyByFailedPayout
  <2>1. /\ escrowId[o] = e
        /\ \A f \in EscrowIds : Owns(o, f) /\ escrow[f] \in PaidInto => f = e
    BY <1>1 DEF SerialInv, MoneyFollows, PaidInto
  <2>2. status[o] \notin {"Completed", "Refunded"}
    BY <1>1, <2>1 DEF IInv, RowInv, PaidInto
  <2>3. status[o] # "Closed"
    BY <1>1, <2>1, OrdersAssumption DEF SerialInv, RowFresh
  <2>4. status[o] \in Status
    BY <1>1 DEF IInv, TypeOK
  <2>5. status[o] \in DOMAIN validFrom => Movable(o)
    <3>. SUFFICES ASSUME status[o] \in DOMAIN validFrom
                  PROVE  \E to \in Targets : to \in validFrom[status[o]]
      BY DEF Movable, CanMove
    <3>. QED
      BY DEF validFrom, Targets, Status
  <2>. QED
    BY <2>1, <2>2, <2>3, <2>4, <2>5 DEF Status, validFrom
<1>. QED
  BY <1>1, InductiveSerial, PTL

\* A buyer who has paid for an order is never shown another escrow to pay into.
THEOREM NobodyPaysTwice == Serial => (Spec => []PaidOnce)
<1>1. ASSUME SerialInv PROVE PaidOnce
  BY <1>1 DEF SerialInv, MoneyFollows, PaidOnce
<1>. QED
  BY <1>1, InductiveSerial, PTL

-----------------------------------------------------------------------------
(***************************************************************************)
(* Payouts are recorded, when nothing fails                                *)
(***************************************************************************)

\* While a is at work nobody else takes a step, except the world outside.
LEMMA SoleSteps ==
  ASSUME Serial, SerialInv, NEW a \in Actors, Busy(a), [Next]_vars
  PROVE  Continue(a) \/ Outside \/ UNCHANGED vars
<1>1. Alone(a)
  BY BusyAlone DEF SerialInv
<1>2. \A b \in Actors : ~MayStart(b)
  BY DEF Serial, MayStart, Quiet
<1>3. \A t \in Tasks, o \in Orders, e \in MaybeEscrow : ~CronUpdate(t, o, e)
  <2>1. \A t \in Tasks, o \in Orders, e \in MaybeEscrow : CronUpdate(t, o, e) => ~Busy(t) /\ t = a
    BY <1>1 DEF CronUpdate, Alone
  <2>. QED
    BY <2>1
<1>4. ~Start
  BY <1>2, <1>3 DEF Start, PartyPatch, AdminPatch, EscrowPaid, CronScan, Actors
<1>5. ASSUME NEW b \in Actors, Continue(b) PROVE Busy(b)
  <2>1. Throws(b) \/ job[b].pc \in {"read", "erbn", "product", "stock", "order"}
    BY <1>5 DEF Continue, ReadOrder, CreateEscrow, ReleaseEscrow, RefundEscrow, NoPayout,
                CloseEscrow, ReadProduct, Restock, WriteOrder, AtErbn
  <2>. QED
    BY <2>1 DEF Busy, Idle, Throws
<1>. QED
  BY <1>1, <1>4, <1>5 DEF Next, Alone

\* The last word on an order, as long as handlers run one at a time.
LEMMA FinalStays ==
  ASSUME IInv, SerialInv, [Next]_vars, NEW o \in Orders,
         status[o] \in {"Closed", "Refunded", "Completed", "EscrowPaymentFailed"}
  PROVE  status'[o] = status[o]
<1>1. CASE UNCHANGED orderRow
  BY <1>1 DEF orderRow
<1>2. ASSUME NEW a \in Actors, WriteOrder(a) PROVE status'[o] = status[o]
  <2>1. job[a].pc = "order" /\ job[a] \in Job /\ Busy(a)
    <3>1. job[a].pc = "order" /\ TypeOK
      BY <1>2 DEF WriteOrder, IInv
    <3>. QED
      BY <3>1, BusyIsJob DEF Waiting, Busy, Idle
  <2>2. status[job[a].order] \in Before[job[a].to] /\ job[a].to \in Targets
    BY <2>1 DEF SerialInv, JobFresh, FreshJob, Job
  <2>3. job[a].order # o
    BY <2>2 DEF Before, Targets, Status
  <2>. QED
    BY <1>2, <2>3 DEF WriteOrder, orderRow, IInv, TypeOK
<1>3. UNCHANGED orderRow \/ \E a \in Actors : WriteOrder(a)
  BY DEF Next, vars, Start, PartyPatch, AdminPatch, EscrowPaid, CronScan, CronUpdate, Continue,
         ReadOrder, CreateEscrow, ReleaseEscrow, RefundEscrow, NoPayout, CloseEscrow, Throws,
         ReadProduct, Restock, Outside, BuyerPays, AdminDeletesProduct, Crash
<1>. QED
  BY <1>1, <1>2, <1>3

\* No crash, and the database answers.
Unharmed == ~Crash /\ \A a \in Actors : Throws(a) => job[a].pc = "erbn"

LEMMA NoMishap ==
  ASSUME TypeOK, MaxMishaps = 0
  PROVE  Unharmed
BY DEF Unharmed, Crash, Throws, TypeOK

\* No answer of ERBN is lost, no product of an order disappears, nothing crashes
\* and the database answers.
Lossless == {"lostReply", "adminDelete"} \cap Env = {} /\ MaxMishaps = 0

LEMMA LosslessNext ==
  ASSUME Lossless, IInv, deleted = {}, [Next]_vars
  PROVE  deleted' = {} /\ Unharmed
<1>1. Unharmed
  BY NoMishap DEF Lossless, IInv
<1>2. \A p \in Products : ~AdminDeletesProduct(p)
  BY DEF Lossless, AdminDeletesProduct
<1>3. deleted' = deleted
  BY <1>1, <1>2 DEF Next, vars, Start, PartyPatch, AdminPatch, EscrowPaid, CronScan, CronUpdate,
         Continue, ReadOrder, CreateEscrow, ReleaseEscrow, RefundEscrow, NoPayout, CloseEscrow,
         Throws, ReadProduct, Restock, WriteOrder, Outside, BuyerPays, productRow, Unharmed
<1>. QED
  BY <1>1, <1>3

\* ERBN pays out when it is asked to.
LEMMA PayoutsAsked ==
  ASSUME IInv, [Next]_vars, NEW e \in EscrowIds, escrow'[e] \in {"Released", "Refunded"},
         escrow'[e] # escrow[e]
  PROVE  \E a \in Actors : /\ ReleaseEscrow(a) \/ RefundEscrow(a)
                           /\ job[a].esc = e /\ job[a].to = Record(escrow'[e])
<1>0. TypeOK
  BY DEF IInv
<1>1. CASE UNCHANGED escrow
  BY <1>1
<1>2. ASSUME NEW o \in Orders, NEW f \in EscrowIds, BuyerPays(o, f) PROVE FALSE
  BY <1>0, <1>2 DEF BuyerPays, TypeOK
<1>3. ASSUME NEW a \in Actors, NEW f \in EscrowIds, CreateEscrow(a, f) PROVE FALSE
  BY <1>0, <1>3 DEF CreateEscrow, TypeOK
<1>4. ASSUME NEW a \in Actors, CloseEscrow(a) PROVE FALSE
  BY <1>0, <1>4 DEF CloseEscrow, TypeOK
<1>5. ASSUME NEW a \in Actors, ReleaseEscrow(a) \/ RefundEscrow(a)
      PROVE  job[a].esc = e /\ job[a].to = Record(escrow'[e])
  BY <1>0, <1>5 DEF ReleaseEscrow, RefundEscrow, AtErbn, TypeOK, Record
<1>6. \/ UNCHANGED escrow
      \/ \E o \in Orders, f \in EscrowIds : BuyerPays(o, f)
      \/ \E a \in Actors, f \in EscrowIds : CreateEscrow(a, f)
      \/ \E a \in Actors : CloseEscrow(a) \/ ReleaseEscrow(a) \/ RefundEscrow(a)
  BY DEF Next, vars, Start, PartyPatch, AdminPatch, EscrowPaid, CronScan, CronUpdate, Continue,
         ReadOrder, NoPayout, Throws, ReadProduct, Restock, WriteOrder, Outside,
         AdminDeletesProduct, Crash, erbn
<1>. QED
  BY <1>1, <1>2, <1>3, <1>4, <1>5, <1>6

\* An escrow gets its order when it is created.
LEMMA OwnersStay ==
  ASSUME IInv, [Next]_vars, NEW o \in Orders, NEW e \in EscrowIds, escrow[e] # "none"
  PROVE  Owns(o, e)' <=> Owns(o, e)
<1>1. CASE UNCHANGED escrowFor
  BY <1>1 DEF Owns
<1>2. ASSUME NEW a \in Actors, NEW f \in EscrowIds, CreateEscrow(a, f) PROVE Owns(o, e)' <=> Owns(o, e)
  BY <1>2 DEF CreateEscrow, IInv, TypeOK, Owns
<1>3. UNCHANGED escrowFor \/ \E a \in Actors, f \in EscrowIds : CreateEscrow(a, f)
  BY DEF Next, vars, erbn, Start, PartyPatch, AdminPatch, EscrowPaid, CronScan, CronUpdate,
         Continue, ReadOrder, ReleaseEscrow, RefundEscrow, NoPayout, CloseEscrow, Throws,
         ReadProduct, Restock, WriteOrder, Outside, BuyerPays, AdminDeletesProduct, Crash
<1>. QED
  BY <1>1, <1>2, <1>3

\* The handler that ERBN has answered writes down what it was told.
LEMMA PayoutGoesOn ==
  ASSUME Serial, Lossless, IInv, SerialInv, deleted = {}, [Next]_vars,
         NEW o \in Orders, NEW s \in {"Completed", "Refunded"},
         NEW a \in Actors, PaysOut(a, o, s)
  PROVE  status'[o] = s \/ PaysOut(a, o, s)'
<1>1. /\ job[a] \in Job /\ Busy(a) /\ TypeOK /\ o = job[a].order
      /\ job[a].to = s /\ job[a].paid /\ job[a].pc # "read"
  BY DEF PaysOut, IInv, TypeOK, Busy
<1>2. job[a].pc \in {"product", "stock", "order"}
  BY <1>1 DEF SerialInv, JobFresh, FreshJob, Job, Waiting
<1>3. CASE ReadProduct(a)
  <2> DEFINE j == [job[a] EXCEPT !.pc = "stock", !.seen = stock[ProductOf[o]]]
  <2>1. job' = [job EXCEPT ![a] = j]
    BY <1>1, <1>3 DEF ReadProduct
  <2>2. job'[a] = j
    BY <1>1, <2>1 DEF TypeOK
  <2>3. j.order = o /\ j.to = s /\ j.paid /\ j.pc = "stock"
    BY <1>1 DEF Job
  <2>. HIDE DEF j
  <2>. QED
    BY <2>2, <2>3 DEF PaysOut, Busy, Idle
<1>4. CASE Restock(a)
  <2> DEFINE j == [job[a] EXCEPT !.pc = "order", !.seen = 0]
  <2>1. job' = [job EXCEPT ![a] = j]
    BY <1>1, <1>4 DEF Restock
  <2>2. job'[a] = j
    BY <1>1, <2>1 DEF TypeOK
  <2>3. j.order = o /\ j.to = s /\ j.paid /\ j.pc = "order"
    BY <1>1 DEF Job
  <2>. HIDE DEF j
  <2>. QED
    BY <2>2, <2>3 DEF PaysOut, Busy, Idle
<1>5. CASE WriteOrder(a)
  <2>1. Written(job[a]) = s
    BY <1>1 DEF Written
  <2>2. status' = [status EXCEPT ![o] = s]
    BY <1>1, <1>5, <2>1 DEF WriteOrder
  <2>. QED
    BY <1>1, <2>2 DEF TypeOK
<1>6. CASE job' = job
  BY <1>6 DEF PaysOut, Busy
<1>7. Continue(a) => ReadProduct(a) \/ Restock(a) \/ WriteOrder(a)
  BY <1>2, LosslessNext DEF Continue, ReadOrder, CreateEscrow, ReleaseEscrow, RefundEscrow,
              NoPayout, CloseEscrow, AtErbn, Unharmed
<1>8. Outside => job' = job
  BY LosslessNext DEF Unharmed, Outside, BuyerPays, AdminDeletesProduct
<1>. QED
  BY <1>1, <1>3, <1>4, <1>5, <1>6, <1>7, <1>8, SoleSteps DEF vars

LEMMA PayoutNext ==
  ASSUME Serial, Lossless, IInv, SerialInv, PayoutInv, [Next]_vars
  PROVE  PayoutInv'
<1>1. deleted = {} /\ deleted' = {}
  BY LosslessNext DEF PayoutInv
<1>2. ASSUME NEW o \in Orders, NEW e \in EscrowIds, Owns(o, e)',
             NEW x \in {"Released", "Refunded"}, escrow'[e] = x,
             NEW s, s = Record(x)
      PROVE  status'[o] = s \/ \E a \in Actors : PaysOut(a, o, s)'
  <2>0. TypeOK /\ s \in {"Completed", "Refunded"}
    BY <1>2 DEF IInv, Record
  <2>1. CASE escrow'[e] = escrow[e]
    <3>1. Owns(o, e) /\ (status[o] = s \/ \E a \in Actors : PaysOut(a, o, s))
      BY <1>2, <2>1, OwnersStay DEF PayoutInv
    <3>2. CASE status[o] = s
      BY <2>0, <3>2, FinalStays
    <3>3. ASSUME NEW a \in Actors, PaysOut(a, o, s)
          PROVE  status'[o] = s \/ PaysOut(a, o, s)'
      BY <1>1, <2>0, <3>3, PayoutGoesOn
    <3>. QED
      BY <3>1, <3>2, <3>3
  <2>2. CASE escrow'[e] # escrow[e]
    <3>1. PICK a \in Actors : /\ ReleaseEscrow(a) \/ RefundEscrow(a)
                              /\ job[a].esc = e /\ job[a].to = s
      BY <1>2, <2>2, PayoutsAsked
    <3>2. job[a] \in Job /\ job[a].pc = "erbn" /\ Busy(a)
      <4>1. job[a].pc = "erbn"
        BY <3>1 DEF ReleaseEscrow, RefundEscrow, AtErbn
      <4>. QED
        BY <2>0, <4>1, BusyIsJob DEF Waiting, Busy, Idle
    <3>3. job[a].order = o
      <4>1. Owns(job[a].order, e) /\ job[a].order \in Orders
        BY <2>0, <3>1, <3>2 DEF IInv, JobInv, HandlerInv, Job
      <4>2. Owns(o, e)
        BY <1>2, <3>1 DEF ReleaseEscrow, RefundEscrow, Owns
      <4>. QED
        BY <4>1, <4>2 DEF IInv, EscrowInv, Owns
    <3>4. PICK j \in Job : /\ job' = [job EXCEPT ![a] = j]
                           /\ j.order = o /\ j.to = s /\ j.paid /\ j.pc # "read"
      <4>1. CASE ReleaseEscrow(a)
        <5> DEFINE k == [job[a] EXCEPT !.pc = "order", !.paid = TRUE]
        <5>1. job' = [job EXCEPT ![a] = k]
          BY <4>1 DEF ReleaseEscrow, Answered, Lossless
        <5>2. k \in Job /\ k.order = o /\ k.to = s /\ k.paid /\ k.pc # "read"
          BY <3>1, <3>2, <3>3 DEF Job, Waiting
        <5>. HIDE DEF k
        <5>. QED
          BY <5>1, <5>2
      <4>2. CASE RefundEscrow(a)
        <5> DEFINE k == [job[a] EXCEPT !.pc = "product", !.paid = TRUE]
        <5>1. job' = [job EXCEPT ![a] = k]
          BY <4>2 DEF RefundEscrow, Answered, Lossless
        <5>2. k \in Job /\ k.order = o /\ k.to = s /\ k.paid /\ k.pc # "read"
          BY <3>1, <3>2, <3>3 DEF Job, Waiting
        <5>. HIDE DEF k
        <5>. QED
          BY <5>1, <5>2
      <4>. QED
        BY <3>1, <4>1, <4>2
    <3>5. job'[a] = j /\ j # Idle
      BY <2>0, <3>4, BusyIsJob DEF TypeOK, Job, Idle, Waiting
    <3>. QED
      BY <3>4, <3>5 DEF PaysOut, Busy
  <2>. QED
    BY <2>1, <2>2
<1>3. ASSUME NEW o \in Orders, NEW e \in EscrowIds, Owns(o, e)',
             escrow'[e] \in {"Released", "Refunded"}
      PROVE  (status[o] = Record(escrow[e]) \/ \E a \in Actors : PaysOut(a, o, Record(escrow[e])))'
  <2>1. PICK x \in {"Released", "Refunded"} : x = escrow'[e]
    BY <1>3
  <2>2. status'[o] = Record(x) \/ \E a \in Actors : PaysOut(a, o, Record(x))'
    BY <1>2, <1>3, <2>1
  <2>. QED
    BY <2>1, <2>2 DEF PaysOut
<1>. QED
  BY <1>1, <1>3 DEF PayoutInv

\* When nothing overlaps and nothing fails, the payouts of ERBN and the
\* statuses agree whenever no handler is at work.
THEOREM PayoutsRecorded == Serial /\ Lossless => (Spec => []PayoutRecorded)
<1>. SUFFICES ASSUME Serial, Lossless PROVE Spec => []PayoutRecorded
  OBVIOUS
<1>1. Init => PayoutInv
  BY DEF Init, PayoutInv
<1>2. IInv /\ SerialInv /\ PayoutInv /\ [Next]_vars => PayoutInv'
  BY PayoutNext
<1>3. ASSUME PayoutInv PROVE PayoutRecorded
  BY <1>3 DEF PayoutInv, PayoutRecorded, Quiet, PaysOut, Record
<1>. QED
  BY <1>1, <1>2, <1>3, InductiveSerial, PTL DEF Spec

-----------------------------------------------------------------------------
(***************************************************************************)
(* The stock gets back what it gave, when nothing crashes                  *)
(***************************************************************************)

\* A handler has put pieces back and has still to write the order.
HoldsPieces(j) == j # Idle /\ j.pc = "order" /\ j.to \in Returned

LEMMA PiecesStay ==
  ASSUME TypeOK, NEW a \in Actors, NEW j, job' = [job EXCEPT ![a] = j],
         ~HoldsPieces(job[a]), ~HoldsPieces(j)
  PROVE  \A b \in Actors, o \in Orders : Restocked(b, o)' <=> Restocked(b, o)
BY DEF TypeOK, Restocked, HoldsPieces, Busy

\* Only Restock puts pieces back, and only the write of the order follows it.
LEMMA PiecesMove ==
  ASSUME IInv, Unharmed, [Next]_vars,
         \A a \in Actors : ~Restock(a) /\ ~WriteOrder(a)
  PROVE  /\ UNCHANGED <<status, stock>>
         /\ \A b \in Actors, o \in Orders : Restocked(b, o)' <=> Restocked(b, o)
<1> DEFINE Stay == \A b \in Actors, o \in Orders : Restocked(b, o)' <=> Restocked(b, o)
<1>0. TypeOK
  BY DEF IInv
<1>1. UNCHANGED <<status, stock>>
  BY DEF Next, vars, orderRow, productRow, Start, PartyPatch, AdminPatch, EscrowPaid, CronScan,
         CronUpdate, Continue, ReadOrder, CreateEscrow, ReleaseEscrow, RefundEscrow, NoPayout,
         CloseEscrow, Throws, ReadProduct, Outside, BuyerPays, AdminDeletesProduct, Unharmed
<1>2. ASSUME job' = job PROVE Stay
  BY <1>2 DEF Restocked, Busy
<1>3. ASSUME NEW r \in Requests, NEW o \in Orders, NEW to \in Targets, ~Busy(r),
             job' = [job EXCEPT ![r] = Request(o, to)]
      PROVE  Stay
  <2>1. ~HoldsPieces(Request(o, to)) /\ ~HoldsPieces(job[r]) /\ r \in Actors
    BY <1>3 DEF HoldsPieces, Request, Busy, Actors
  <2>. QED
    BY <1>0, <1>3, <2>1, PiecesStay
<1>4. ASSUME Start PROVE Stay
  <2>1. "Paid" \in Targets
    BY DEF Targets, Status
  <2>2. ASSUME NEW t \in Tasks, NEW o \in Orders, NEW e \in MaybeEscrow, CronUpdate(t, o, e)
        PROVE  Stay
    <3> DEFINE j == IF CanMove(From(t), To(t)) THEN Dispatched(o, From(t), e, To(t)) ELSE Idle
    <3>1. ~HoldsPieces(job[t]) /\ t \in Actors /\ job' = [job EXCEPT ![t] = j]
      BY <2>2 DEF CronUpdate, Busy, HoldsPieces, Actors
    <3>2. ~HoldsPieces(j)
      BY DEF HoldsPieces, Dispatched, FirstAwait, Effective, From, To, Returned
    <3>. HIDE DEF j
    <3>. QED
      BY <1>0, <3>1, <3>2, PiecesStay
  <2>3. ASSUME NEW r \in Requests, NEW o \in Orders, NEW to \in Targets, NEW u \in Party,
               PartyPatch(r, o, u, to)
        PROVE  Stay
    BY <1>3, <2>3 DEF PartyPatch, MayStart
  <2>4. ASSUME NEW r \in Requests, NEW o \in Orders, NEW to \in Targets, AdminPatch(r, o, to)
        PROVE  Stay
    BY <1>3, <2>4 DEF AdminPatch, MayStart
  <2>5. ASSUME NEW r \in Requests, NEW o \in Orders, NEW e \in EscrowIds, EscrowPaid(r, o, e)
        PROVE  Stay
    BY <1>3, <2>1, <2>5 DEF EscrowPaid, MayStart
  <2>6. ASSUME NEW t \in Tasks, NEW due \in SUBSET Orders, CronScan(t, due) PROVE Stay
    BY <1>2, <2>6 DEF CronScan
  <2>. HIDE DEF Stay
  <2>. QED
    BY <1>4, <2>2, <2>3, <2>4, <2>5, <2>6 DEF Start
<1>5. ASSUME NEW a \in Actors, Continue(a) PROVE Stay
  <2>1. /\ job[a].pc \in {"read", "erbn", "product"}
        /\ \/ ReadOrder(a) \/ (\E e \in EscrowIds : CreateEscrow(a, e)) \/ ReleaseEscrow(a)
           \/ RefundEscrow(a) \/ NoPayout(a) \/ CloseEscrow(a) \/ Throws(a) \/ ReadProduct(a)
    BY <1>5 DEF Continue, ReadOrder, CreateEscrow, ReleaseEscrow, RefundEscrow, NoPayout,
                CloseEscrow, ReadProduct, AtErbn, Unharmed
  <2>2. job[a] \in Job /\ ~HoldsPieces(job[a]) /\ ~HoldsPieces(Idle)
    BY <1>0, <2>1, BusyIsJob DEF Waiting, HoldsPieces
  <2>3. ASSUME NEW j, job' = [job EXCEPT ![a] = j], ~HoldsPieces(j) PROVE Stay
    BY <1>0, <2>2, <2>3, PiecesStay
  <2>4. CASE ReadOrder(a)
    <3> DEFINE o == job[a].order
               j == IF CanMove(status[o], job[a].to)
                    THEN Dispatched(o, status[o], escrowId[o], job[a].to) ELSE Idle
    <3>1. ~HoldsPieces(j)
      BY DEF HoldsPieces, Dispatched, FirstAwait, Effective, Returned
    <3>2. job' = [job EXCEPT ![a] = j]
      BY <2>4 DEF ReadOrder
    <3>. HIDE DEF j, Stay
    <3>. QED
      BY <2>3, <3>1, <3>2
  <2>5. ASSUME NEW e \in EscrowIds, CreateEscrow(a, e) PROVE Stay
    <3> DEFINE j == [job[a] EXCEPT !.pc = "order", !.esc = e]
    <3>1. ~HoldsPieces(j)
      BY <2>2, <2>5 DEF CreateEscrow, AtErbn, HoldsPieces, Job, Returned
    <3>2. job' = [job EXCEPT ![a] = j] \/ job' = [job EXCEPT ![a] = Idle]
      BY <2>5 DEF CreateEscrow, Answered
    <3>. HIDE DEF j, Stay
    <3>. QED
      BY <2>2, <2>3, <3>1, <3>2
  <2>6. CASE ReleaseEscrow(a)
    <3> DEFINE j == [job[a] EXCEPT !.pc = "order", !.paid = TRUE]
    <3>1. ~HoldsPieces(j)
      BY <2>2, <2>6 DEF ReleaseEscrow, AtErbn, HoldsPieces, Job, Returned
    <3>2. job' = [job EXCEPT ![a] = j] \/ job' = [job EXCEPT ![a] = Idle]
      BY <2>6 DEF ReleaseEscrow, Answered
    <3>. HIDE DEF j, Stay
    <3>. QED
      BY <2>2, <2>3, <3>1, <3>2
  <2>7. CASE RefundEscrow(a)
    <3> DEFINE j == [job[a] EXCEPT !.pc = "product", !.paid = TRUE]
    <3>1. ~HoldsPieces(j)
      BY <2>2 DEF HoldsPieces, Job
    <3>2. job' = [job EXCEPT ![a] = j] \/ job' = [job EXCEPT ![a] = Idle]
      BY <2>7 DEF RefundEscrow, Answered
    <3>. HIDE DEF j, Stay
    <3>. QED
      BY <2>2, <2>3, <3>1, <3>2
  <2>8. CASE NoPayout(a)
    <3> DEFINE pc == IF job[a].to = "Completed" THEN "order" ELSE "product"
               j == [job[a] EXCEPT !.pc = pc]
    <3>1. ~HoldsPieces(j)
      BY <2>2 DEF HoldsPieces, Job, Returned
    <3>2. job' = [job EXCEPT ![a] = j]
      BY <2>8 DEF NoPayout
    <3>. HIDE DEF j, Stay
    <3>. QED
      BY <2>3, <3>1, <3>2
  <2>9. CASE CloseEscrow(a)
    <3> DEFINE j == [job[a] EXCEPT !.pc = "product"]
    <3>1. ~HoldsPieces(j)
      BY <2>2 DEF HoldsPieces, Job
    <3>2. job' = [job EXCEPT ![a] = j] \/ job' = [job EXCEPT ![a] = Idle]
      BY <2>9 DEF CloseEscrow, Answered
    <3>. HIDE DEF j, Stay
    <3>. QED
      BY <2>2, <2>3, <3>1, <3>2
  <2>10. CASE Throws(a)
    BY <2>2, <2>3, <2>10 DEF Throws
  <2>11. CASE ReadProduct(a)
    <3> DEFINE p == ProductOf[job[a].order]
               j == IF p \in deleted THEN Idle
                    ELSE [job[a] EXCEPT !.pc = "stock", !.seen = stock[p]]
    <3>1. ~HoldsPieces(j)
      BY <2>2 DEF HoldsPieces, Job
    <3>2. job' = [job EXCEPT ![a] = j]
      BY <2>11 DEF ReadProduct
    <3>. HIDE DEF j, Stay
    <3>. QED
      BY <2>3, <3>1, <3>2
  <2>. HIDE DEF Stay
  <2>. QED
    BY <2>1, <2>4, <2>5, <2>6, <2>7, <2>8, <2>9, <2>10, <2>11
<1>6. ASSUME Outside PROVE Stay
  BY <1>2, <1>6 DEF Outside, BuyerPays, AdminDeletesProduct, Unharmed
<1>7. ASSUME UNCHANGED vars PROVE Stay
  BY <1>2, <1>7 DEF vars
<1>. HIDE DEF Stay
<1>8. Stay
  BY <1>4, <1>5, <1>6, <1>7 DEF Next
<1>. QED
  BY <1>1, <1>8 DEF Stay

\* The order that gave its pieces back joins the sum.
LEMMA PiecesAdded ==
  ASSUME NEW R \in SUBSET Orders, NEW o \in Orders \ R
  PROVE  \A p \in Products :
           Ordered(p, R \cup {o}) = Ordered(p, R) + (IF p = ProductOf[o] THEN Quantity[o] ELSE 0)
<1>. TAKE p \in Products
<1> DEFINE S == {q \in R : ProductOf[q] = p}
<1>1. IsFiniteSet(S) /\ S \subseteq Orders /\ o \notin S
  <2>1. S \in SUBSET Orders
    OBVIOUS
  <2>2. IsFiniteSet(S)
    BY <2>1, FiniteOrders, FS_Subset
  <2>. QED
    BY <2>1, <2>2
<1>2. \A q \in Orders : Quantity[q] \in Int
  BY OrdersAssumption
<1>3. SumFunctionOnSet(Quantity, S) \in Int
  BY <1>1, <1>2, SumType
<1>4. CASE p = ProductOf[o]
  <2>1. {q \in R \cup {o} : ProductOf[q] = p} = S \cup {o}
    BY <1>4
  <2>2. SumFunctionOnSet(Quantity, S \cup {o}) = SumFunctionOnSet(Quantity, S) + Quantity[o]
    BY <1>1, <1>2, SumAdd
  <2>. QED
    BY <1>4, <2>1, <2>2 DEF Ordered
<1>5. CASE p # ProductOf[o]
  <2>1. {q \in R \cup {o} : ProductOf[q] = p} = S
    BY <1>5
  <2>2. Ordered(p, R \cup {o}) = SumFunctionOnSet(Quantity, S)
        /\ Ordered(p, R) = SumFunctionOnSet(Quantity, S)
    BY <2>1 DEF Ordered
  <2>. QED
    BY <1>3, <1>5, <2>2
<1>. QED
  BY <1>4, <1>5

LEMMA StockNext ==
  ASSUME Serial, MaxMishaps = 0, IInv, SerialInv, StockInv, [Next]_vars
  PROVE  StockInv'
<1> DEFINE Done == Returned \cup {"EscrowPaymentFailed"}
           Holds(R) == \A o \in Orders :
             /\ status[o] \in Returned \/ (\E a \in Actors : Restocked(a, o)) => o \in R
             /\ o \in R => status[o] \in Done \/ \E a \in Actors : Restocked(a, o)
           Stocked(R) == \A p \in Products : stock[p] = InitialStock + Ordered(p, R)
<1>0. TypeOK /\ Unharmed
  BY NoMishap DEF IInv
<1>1. PICK R \in SUBSET Orders : Stocked(R) /\ Holds(R)
  BY DEF StockInv
<1>2. ASSUME NEW T \in SUBSET Orders, Stocked(T)', Holds(T)' PROVE StockInv'
  BY <1>2 DEF StockInv
<1>3. ASSUME NEW a \in Actors, Restock(a), NEW o, o = job[a].order
      PROVE  StockInv'
  <2> DEFINE p == ProductOf[o]
  <2>1. /\ job[a] \in Job /\ job[a].pc = "stock" /\ Busy(a) /\ Alone(a)
        /\ o \in Orders /\ p \in Products
    <3>1. job[a].pc = "stock"
      BY <1>3 DEF Restock
    <3>2. job[a] \in Job /\ Busy(a)
      BY <1>0, <3>1, BusyIsJob DEF Waiting, Busy, Idle
    <3>3. Alone(a)
      BY <3>2, BusyAlone DEF SerialInv
    <3>. QED
      BY <1>3, <3>1, <3>2, <3>3, OrdersAssumption DEF Job
  <2>2. /\ status[o] \in Before[job[a].to] /\ job[a].to \in Returned /\ job[a].seen = stock[p]
    BY <1>3, <2>1 DEF SerialInv, JobFresh, FreshJob
  <2>3. \A b \in Actors, q \in Orders : ~Restocked(b, q)
    BY <2>1 DEF Alone, Restocked
  <2>4. o \notin R
    BY <1>1, <2>1, <2>2, <2>3 DEF Before, Returned
  <2>5. /\ UNCHANGED status
        /\ stock' = [stock EXCEPT ![p] = stock[p] + Quantity[o]]
        /\ job' = [job EXCEPT ![a] = [job[a] EXCEPT !.pc = "order", !.seen = 0]]
    BY <1>3, <2>2 DEF Restock, orderRow
  <2>6. /\ job'[a].order = o /\ job'[a].pc = "order" /\ job'[a].to \in Returned /\ job'[a] # Idle
        /\ \A b \in Actors \ {a} : job'[b] = Idle
    <3> DEFINE j == [job[a] EXCEPT !.pc = "order", !.seen = 0]
    <3>1. job'[a] = j /\ \A b \in Actors \ {a} : job'[b] = job[b]
      BY <1>0, <2>5 DEF TypeOK
    <3>2. j.order = o /\ j.pc = "order" /\ j.to \in Returned
      BY <1>3, <2>1, <2>2 DEF Job
    <3>3. \A b \in Actors \ {a} : job[b] = Idle
      BY <2>1 DEF Alone, Busy
    <3>. HIDE DEF j
    <3>. QED
      BY <3>1, <3>2, <3>3 DEF Idle
  <2>7. \A b \in Actors, q \in Orders : Restocked(b, q)' <=> b = a /\ q = o
    BY <2>6 DEF Restocked, Busy
  <2>8. Holds(R \cup {o})'
    BY <1>1, <2>3, <2>5, <2>7
  <2>9. Stocked(R \cup {o})'
    <3>1. ASSUME NEW x \in Products PROVE stock'[x] = InitialStock + Ordered(x, R \cup {o})
      <4>1. /\ Ordered(x, R \cup {o}) = Ordered(x, R) + (IF x = p THEN Quantity[o] ELSE 0)
            /\ stock[x] = InitialStock + Ordered(x, R)
        BY <1>1, <2>1, <2>4, PiecesAdded
      <4>2. Ordered(x, R) \in Int /\ Quantity[o] \in Int /\ InitialStock \in Int /\ stock[x] \in Int
        <5>1. Ordered(x, R) \in Int
          <6> DEFINE S == {q \in R : ProductOf[q] = x}
          <6>1. S \in SUBSET Orders
            OBVIOUS
          <6>2. IsFiniteSet(S)
            BY <6>1, FiniteOrders, FS_Subset
          <6>3. \A q \in S : Quantity[q] \in Int
            BY OrdersAssumption
          <6>. QED
            BY <6>2, <6>3, SumType DEF Ordered
        <5>. QED
          BY <1>0, <2>1, <5>1, OrdersAssumption DEF TypeOK
      <4>3. stock'[x] = stock[x] + (IF x = p THEN Quantity[o] ELSE 0)
        BY <1>0, <2>1, <2>5, <4>2 DEF TypeOK
      <4>. HIDE DEF p
      <4>. QED
        BY <4>1, <4>2, <4>3
    <3>2. \A x \in Products : Ordered(x, R \cup {o})' = Ordered(x, R \cup {o})
      BY DEF Ordered
    <3>. QED
      BY <3>1, <3>2
  <2>. QED
    BY <1>2, <2>1, <2>8, <2>9
<1>4. ASSUME NEW a \in Actors, WriteOrder(a)
      PROVE  StockInv'
  <2> DEFINE o == job[a].order
             s == Written(job[a])
  <2>1. job[a] \in Job /\ job[a].pc = "order" /\ Busy(a) /\ Alone(a) /\ o \in Orders
    <3>1. job[a].pc = "order"
      BY <1>4 DEF WriteOrder
    <3>2. job[a] \in Job /\ Busy(a)
      BY <1>0, <3>1, BusyIsJob DEF Waiting, Busy, Idle
    <3>3. Alone(a)
      BY <3>2, BusyAlone DEF SerialInv
    <3>. QED
      BY <3>1, <3>2, <3>3 DEF Job
  <2>2. status[o] \in Before[job[a].to]
    BY <2>1 DEF SerialInv, JobFresh, FreshJob
  <2>3. \A b \in Actors, q \in Orders : ~Restocked(b, q)'
    BY <1>0, <1>4, <2>1 DEF WriteOrder, Restocked, Busy, Alone, TypeOK
  <2>4. \A b \in Actors, q \in Orders : Restocked(b, q) <=> b = a /\ q = o /\ job[a].to \in Returned
    BY <2>1 DEF Restocked, Alone
  <2>5. status[o] \notin Done
    BY <2>1, <2>2 DEF Before, Returned, Job, Targets, Status
  <2>6. /\ s \in Returned => job[a].to \in Returned
        /\ job[a].to \in Returned => s \in Done /\ s # "Disputed"
    BY DEF Written, Returned
  <2>7. \/ status' = status /\ job[a].to \notin Returned
        \/ status' = [status EXCEPT ![o] = s]
    BY <1>4, <2>6 DEF WriteOrder, orderRow, Written, Returned
  <2>8. Holds(R)'
    <3>1. CASE status' = status /\ job[a].to \notin Returned
      BY <1>1, <2>3, <2>4, <3>1
    <3>2. CASE status' = [status EXCEPT ![o] = s]
      <4>1. status'[o] = s /\ \A q \in Orders \ {o} : status'[q] = status[q]
        BY <1>0, <2>1, <3>2 DEF TypeOK
      <4>. HIDE DEF o, s
      <4>. QED
        BY <1>1, <2>1, <2>3, <2>4, <2>5, <2>6, <4>1
    <3>. QED
      BY <2>7, <3>1, <3>2
  <2>9. Stocked(R)'
    BY <1>1, <1>4 DEF WriteOrder, productRow, Ordered
  <2>. QED
    BY <1>2, <2>8, <2>9
<1>5. CASE \A a \in Actors : ~Restock(a) /\ ~WriteOrder(a)
  <2>1. /\ UNCHANGED <<status, stock>>
        /\ \A b \in Actors, o \in Orders : Restocked(b, o)' <=> Restocked(b, o)
    BY <1>0, <1>5, PiecesMove
  <2>2. Holds(R)' /\ Stocked(R)'
    BY <1>1, <2>1 DEF Ordered
  <2>. QED
    BY <1>2, <2>2
<1>6. ASSUME NEW a \in Actors, Restock(a) PROVE StockInv'
  BY <1>3, <1>6
<1>. QED
  BY <1>4, <1>5, <1>6

LEMMA StockInit == Init => StockInv
<1>. SUFFICES ASSUME Init PROVE StockInv
  OBVIOUS
<1>1. \A p \in Products : Ordered(p, {}) = 0
  BY SumEmpty, \A p \in Products : {o \in {} : ProductOf[o] = p} = {} DEF Ordered
<1>2. \A p \in Products : stock[p] = InitialStock + Ordered(p, {})
  BY <1>1, OrdersAssumption DEF Init
<1>3. \A o \in Orders : status[o] \notin Returned /\ \A a \in Actors : ~Restocked(a, o)
  BY DEF Init, Returned, Restocked, Busy
<1>. QED
  BY <1>2, <1>3 DEF StockInv

\* More orders have ordered more.
LEMMA OrderedMore ==
  ASSUME NEW T \in SUBSET Orders, NEW S \in SUBSET T, NEW p \in Products
  PROVE  /\ Ordered(p, S) \in Int /\ Ordered(p, T) \in Int
         /\ Ordered(p, S) <= Ordered(p, T)
<1> DEFINE SP == {o \in S : ProductOf[o] = p}
           TP == {o \in T : ProductOf[o] = p}
<1>1. TP \in SUBSET Orders /\ SP \in SUBSET TP
  OBVIOUS
<1>2. IsFiniteSet(TP) /\ IsFiniteSet(SP)
  BY <1>1, FiniteOrders, FS_Subset
<1>3. \A o \in TP : Quantity[o] \in Nat
  BY OrdersAssumption
<1>4. \A o \in TP : Quantity[o] \in Int
  BY <1>3
<1>5. SumFunctionOnSet(Quantity, SP) \in Int /\ SumFunctionOnSet(Quantity, TP) \in Int
  BY <1>1, <1>2, <1>4, SumType
<1>6. SumFunctionOnSet(Quantity, SP) <= SumFunctionOnSet(Quantity, TP)
  BY <1>1, <1>2, <1>3, SumMonotone
<1>. QED
  BY <1>5, <1>6 DEF Ordered

\* Every piece of a closed or refunded order is sold again, and none that was
\* not given back: also when answers are lost, and whatever an admin does.
THEOREM PiecesReturn == Serial /\ MaxMishaps = 0 => (Spec => []StockConserved)
<1>. SUFFICES ASSUME Serial, MaxMishaps = 0 PROVE Spec => []StockConserved
  OBVIOUS
<1>1. IInv /\ SerialInv /\ StockInv /\ [Next]_vars => StockInv'
  BY StockNext
<1>2. ASSUME IInv, StockInv PROVE StockConserved
  <2> DEFINE back == {o \in Orders : status[o] \in Returned}
             maybe == back \cup {o \in Orders : status[o] = "EscrowPaymentFailed"}
                           \cup {job[a].order : a \in {b \in Actors : Busy(b)}}
  <2>1. PICK R \in SUBSET Orders :
          /\ \A p \in Products : stock[p] = InitialStock + Ordered(p, R)
          /\ \A o \in Orders :
               /\ status[o] \in Returned \/ (\E a \in Actors : Restocked(a, o)) => o \in R
               /\ o \in R => \/ status[o] \in Returned \cup {"EscrowPaymentFailed"}
                             \/ \E a \in Actors : Restocked(a, o)
    BY <1>2 DEF StockInv
  <2>2. back \in SUBSET R /\ R \in SUBSET maybe
    BY <2>1 DEF Restocked
  <2>3. maybe \in SUBSET Orders
    BY <1>2 DEF IInv, TypeOK, Busy, Job
  <2>4. ASSUME NEW p \in Products
        PROVE  /\ stock[p] >= InitialStock + Ordered(p, back)
               /\ stock[p] <= InitialStock + Ordered(p, maybe)
    <3>1. /\ Ordered(p, back) \in Int /\ Ordered(p, R) \in Int /\ Ordered(p, maybe) \in Int
          /\ Ordered(p, back) <= Ordered(p, R) /\ Ordered(p, R) <= Ordered(p, maybe)
      BY <2>2, <2>3, OrderedMore
    <3>2. stock[p] = InitialStock + Ordered(p, R) /\ InitialStock \in Int
      BY <2>1, OrdersAssumption
    <3>. HIDE DEF back, maybe
    <3>. QED
      BY <3>1, <3>2
  <2>. QED
    BY <2>4 DEF StockConserved
<1>. QED
  BY <1>1, <1>2, StockInit, InductiveSerial, PTL DEF Spec

-----------------------------------------------------------------------------
(***************************************************************************)
(* Orders implements Settlement                                            *)
(***************************************************************************)

LEMMA RefineInit == Init => Promise!Init
BY DEF Init, Promise!Init, MoneyOf

\* A step of the money of one order, and one of its status.
LEMMA MoneyStep ==
  ASSUME NEW o \in Orders, NEW to,
         MoneyOf(o)' = to, \A q \in Orders \ {o} : MoneyOf(q)' = MoneyOf(q),
         UNCHANGED status
  PROVE  Promise!MoneyMoves(o, MoneyOf(o), to)
BY DEF Promise!MoneyMoves

LEMMA StatusStep ==
  ASSUME NEW o \in Orders, NEW from, status[o] \in from, NEW to,
         status' = [status EXCEPT ![o] = to],
         \A q \in Orders : MoneyOf(q)' = MoneyOf(q)
  PROVE  Promise!StatusMoves(o, from, to)
BY DEF Promise!StatusMoves

Stutter == UNCHANGED status /\ \A q \in Orders : MoneyOf(q)' = MoneyOf(q)

LEMMA StutterStep ==
  ASSUME Stutter
  PROVE  [Promise!Next]_<<status, [o \in Orders |-> MoneyOf(o)]>>
BY DEF Stutter

\* What happens to the escrow an order shows happens to the money of that
\* order, and to no other.
LEMMA MoneyFollowsEscrow ==
  ASSUME IInv, NEW o \in Orders, NEW e \in EscrowIds, escrowId[o] = e, UNCHANGED orderRow,
         NEW x \in EscrowState, escrow' = [escrow EXCEPT ![e] = x]
  PROVE  /\ MoneyOf(o) = MoneyIn(escrow[e]) /\ MoneyOf(o)' = MoneyIn(x)
         /\ \A q \in Orders \ {o} : MoneyOf(q)' = MoneyOf(q)
         /\ UNCHANGED status
<1>1. escrow'[e] = x /\ \A f \in EscrowIds \ {e} : escrow'[f] = escrow[f]
  BY DEF IInv, TypeOK
<1>2. UNCHANGED status /\ UNCHANGED escrowId
  BY DEF orderRow
<1>3. e # NoEscrow
  BY OrdersAssumption
<1>4. ASSUME NEW q \in Orders \ {o} PROVE escrowId[q] \in MaybeEscrow /\ escrowId[q] # e
  <2>1. escrowId[q] # NoEscrow => Owns(q, escrowId[q])
    BY DEF IInv, RowInv
  <2>2. Owns(o, e)
    BY <1>3 DEF IInv, RowInv
  <2>. QED
    BY <1>3, <2>1, <2>2 DEF IInv, TypeOK, EscrowInv, Owns
<1>. QED
  BY <1>1, <1>2, <1>3, <1>4 DEF MoneyOf, MaybeEscrow

\* ERBN's steps, and the buyer's, move the money.
LEMMA RefineErbn ==
  ASSUME IInv, SerialInv, NEW a \in Actors,
         (\E e \in EscrowIds : CreateEscrow(a, e)) \/ ReleaseEscrow(a) \/ RefundEscrow(a)
           \/ CloseEscrow(a)
  PROVE  Promise!Next \/ Stutter
<1> DEFINE o == job[a].order
<1>1. job[a] \in Job /\ job[a].pc = "erbn" /\ o \in Orders /\ TypeOK /\ Busy(a)
  <2>1. job[a].pc = "erbn" /\ TypeOK
    BY DEF CreateEscrow, ReleaseEscrow, RefundEscrow, CloseEscrow, AtErbn, IInv
  <2>. QED
    BY <2>1, BusyIsJob DEF Waiting, Job, Busy, Idle
<1>2. /\ status[o] \in Before[job[a].to]
      /\ job[a].to # "Accepted" => job[a].esc = escrowId[o]
  BY <1>1 DEF SerialInv, JobFresh, FreshJob
<1>3. ASSUME NEW e \in EscrowIds, CreateEscrow(a, e) PROVE Stutter
  <2>1. escrow[e] = "none" /\ escrow' = [escrow EXCEPT ![e] = "Open"] /\ UNCHANGED orderRow
    BY <1>3 DEF CreateEscrow
  <2>2. \A q \in Orders : escrowId[q] \in MaybeEscrow /\ escrowId[q] # e
    BY <1>1, <2>1, OrdersAssumption DEF IInv, RowInv, EscrowInv, Owns, TypeOK
  <2>3. \A q \in Orders : MoneyOf(q)' = MoneyOf(q)
    BY <1>1, <2>1, <2>2 DEF MoneyOf, MaybeEscrow, orderRow, TypeOK
  <2>. QED
    BY <2>1, <2>3 DEF Stutter, orderRow
<1>4. ASSUME ReleaseEscrow(a) PROVE Promise!Next
  <2>1. PICK e \in EscrowIds :
          /\ e = job[a].esc /\ escrow[e] = "Funded" /\ job[a].to = "Completed"
          /\ escrow' = [escrow EXCEPT ![e] = "Released"] /\ UNCHANGED orderRow
    BY <1>4 DEF ReleaseEscrow, AtErbn
  <2>2. PICK q \in Orders : q = o /\ escrowId[q] = e /\ status[q] \in {"Delivered", "Disputed"}
    BY <1>1, <1>2, <2>1 DEF Before
  <2>3. /\ MoneyOf(q) = "held" /\ MoneyOf(q)' = "seller"
        /\ \A p \in Orders \ {q} : MoneyOf(p)' = MoneyOf(p)
        /\ UNCHANGED status
    BY <2>1, <2>2, MoneyFollowsEscrow, "Released" \in EscrowState DEF MoneyIn, EscrowState
  <2>4. Promise!PayOut(q)
    BY <2>2, <2>3, MoneyStep DEF Promise!PayOut
  <2>. QED
    BY <2>4 DEF Promise!Next
<1>5. ASSUME RefundEscrow(a) PROVE Promise!Next
  <2>1. PICK e \in EscrowIds :
          /\ e = job[a].esc /\ escrow[e] = "Funded" /\ job[a].to = "Refunded"
          /\ escrow' = [escrow EXCEPT ![e] = "Refunded"] /\ UNCHANGED orderRow
    BY <1>5 DEF RefundEscrow, AtErbn
  <2>2. PICK q \in Orders : q = o /\ escrowId[q] = e /\ status[q] \in {"Paid", "Disputed"}
    BY <1>1, <1>2, <2>1 DEF Before
  <2>3. /\ MoneyOf(q) = "held" /\ MoneyOf(q)' = "buyer"
        /\ \A p \in Orders \ {q} : MoneyOf(p)' = MoneyOf(p)
        /\ UNCHANGED status
    BY <2>1, <2>2, MoneyFollowsEscrow, "Refunded" \in EscrowState DEF MoneyIn, EscrowState
  <2>4. Promise!PayBack(q)
    BY <2>2, <2>3, MoneyStep DEF Promise!PayBack
  <2>. QED
    BY <2>4 DEF Promise!Next
<1>6. ASSUME CloseEscrow(a) PROVE Promise!Next \/ Stutter
  <2>1. PICK e \in EscrowIds :
          /\ e = job[a].esc /\ escrow[e] \in {"Open", "Closed"} /\ job[a].to = "Closed"
          /\ escrow' = [escrow EXCEPT ![e] = "Closed"] /\ UNCHANGED orderRow
    BY <1>6 DEF CloseEscrow, AtErbn
  <2>2. PICK q \in Orders : q = o /\ escrowId[q] = e /\ status[q] = "Accepted"
    BY <1>1, <1>2, <2>1, OrdersAssumption DEF Before, SerialInv, RowFresh
  <2>3. /\ MoneyOf(q) = MoneyIn(escrow[e]) /\ MoneyOf(q)' = "void"
        /\ \A p \in Orders \ {q} : MoneyOf(p)' = MoneyOf(p)
        /\ UNCHANGED status
    BY <2>1, <2>2, MoneyFollowsEscrow, "Closed" \in EscrowState DEF MoneyIn, EscrowState
  <2>4. CASE escrow[e] = "Open"
    <3>1. MoneyOf(q) = "none"
      BY <2>3, <2>4 DEF MoneyIn
    <3>2. Promise!Void(q)
      BY <2>2, <2>3, <3>1, MoneyStep DEF Promise!Void
    <3>. QED
      BY <3>2 DEF Promise!Next
  <2>5. CASE escrow[e] = "Closed"
    BY <2>3, <2>5 DEF MoneyIn, Stutter
  <2>. QED
    BY <2>1, <2>4, <2>5
<1>. QED
  BY <1>3, <1>4, <1>5, <1>6

LEMMA RefinePayment ==
  ASSUME IInv, SerialInv, PaidByBuyer, "adminPaid" \notin Env,
         NEW o \in Orders, NEW e \in EscrowIds, BuyerPays(o, e)
  PROVE  Promise!Next
<1>1. /\ escrowId[o] = e /\ escrow[e] = "Open"
      /\ escrow' = [escrow EXCEPT ![e] = "Funded"] /\ UNCHANGED orderRow
  BY DEF BuyerPays
<1>2. status[o] = "Accepted"
  <2>1. status[o] \in Status /\ e # NoEscrow
    BY OrdersAssumption DEF IInv, TypeOK
  <2>2. status[o] \notin {"Created", "Closed"}
    BY <1>1, <2>1 DEF SerialInv, RowFresh
  <2>3. "Paid" \notin stamps[o]
    BY <1>1 DEF PaidByBuyer, BuyerPaid, SerialInv, MoneyFollows, PaidInto
  <2>4. Milestones[status[o]] \subseteq stamps[o]
    BY DEF IInv, RowInv
  <2>. QED
    BY <2>1, <2>2, <2>3, <2>4 DEF Status, Milestones
<1>3. /\ MoneyOf(o) = "none" /\ MoneyOf(o)' = "held"
      /\ \A q \in Orders \ {o} : MoneyOf(q)' = MoneyOf(q)
      /\ UNCHANGED status
  BY <1>1, MoneyFollowsEscrow, "Funded" \in EscrowState DEF MoneyIn, EscrowState
<1>4. Promise!Hold(o)
  BY <1>2, <1>3, MoneyStep DEF Promise!Hold
<1>. QED
  BY <1>4 DEF Promise!Next

\* A write of an order moves its status, and is not ahead of its money.
LEMMA RefineWrite ==
  ASSUME IInv, SerialInv, NoticesBacked, "adminPaid" \notin Env,
         NEW a \in Actors, WriteOrder(a), ~UNCHANGED status,
         NEW o, o = job[a].order, NEW s, s = Written(job[a])
  PROVE  Promise!Next
<1>1. job[a] \in Job /\ job[a].pc = "order" /\ o \in Orders /\ TypeOK /\ Busy(a)
  <2>1. job[a].pc = "order" /\ TypeOK
    BY DEF WriteOrder, IInv
  <2>. QED
    BY <2>1, BusyIsJob DEF Waiting, Job, Busy, Idle
<1>2. HandlerInv(job[a]) /\ FreshJob(job[a])
  BY <1>1 DEF IInv, JobInv, SerialInv, JobFresh
<1>3. /\ status' = [status EXCEPT ![o] = s] /\ UNCHANGED erbn
      /\ escrowId' = IF s = "Accepted" THEN [escrowId EXCEPT ![o] = job[a].esc] ELSE escrowId
  BY DEF WriteOrder, orderRow
<1>4. /\ status[o] \in Before[job[a].to]
      /\ s = job[a].to \/ (s = "EscrowPaymentFailed" /\ job[a].to \in {"Completed", "Refunded"})
      /\ s \in {"Completed", "Refunded"} => job[a].paid
      /\ job[a].to \in Targets
  BY <1>1, <1>2 DEF FreshJob, Written, Job
<1>5. \A q \in Orders : MoneyOf(q)' = MoneyOf(q)
  <2>1. CASE s # "Accepted"
    BY <1>3, <2>1 DEF MoneyOf, erbn
  <2>2. CASE s = "Accepted"
    <3>1. escrowId[o] = NoEscrow
      BY <1>1, <1>4, <2>2 DEF Before, SerialInv, RowFresh
    <3>2. /\ escrowId'[o] = job[a].esc /\ \A q \in Orders \ {o} : escrowId'[q] = escrowId[q]
          /\ escrow[job[a].esc] = "Open"
      BY <1>1, <1>2, <1>3, <1>4, <2>2 DEF FreshJob, TypeOK
    <3>3. MoneyOf(o)' = MoneyOf(o)
      BY <1>3, <3>1, <3>2 DEF MoneyOf, MoneyIn, erbn
    <3>. QED
      BY <1>3, <3>2, <3>3 DEF MoneyOf, erbn
  <2>. QED
    BY <2>1, <2>2
<1>6. \A from : status[o] \in from => Promise!StatusMoves(o, from, s)
  BY <1>1, <1>3, <1>5, StatusStep
<1>7. s = "Paid" => MoneyOf(o) = "held"
  <2>. SUFFICES ASSUME s = "Paid" PROVE MoneyOf(o) = "held"
    OBVIOUS
  <2>1. PICK e \in EscrowIds : Owns(o, e) /\ escrow[e] \in PaidInto
    BY <1>1, <1>4 DEF NoticesBacked, BuyerPaid
  <2>2. escrowId[o] = e /\ e # NoEscrow
    BY <1>1, <2>1, OrdersAssumption DEF SerialInv, MoneyFollows
  <2>3. stamps[o] = {"Accepted"}
    BY <1>1, <1>4 DEF Before, SerialInv, RowFresh
  <2>4. escrow[e] = "Funded"
    BY <1>1, <2>1, <2>3 DEF IInv, PayoutsEarned, PaidInto
  <2>. QED
    BY <2>2, <2>4 DEF MoneyOf, MoneyIn
<1>8. /\ s = "Completed" => MoneyOf(o) = "seller"
      /\ s = "Refunded" => MoneyOf(o) = "buyer"
  <2>. SUFFICES ASSUME s \in {"Completed", "Refunded"}
                PROVE  MoneyOf(o) = IF s = "Completed" THEN "seller" ELSE "buyer"
    OBVIOUS
  <2>1. /\ escrow[job[a].esc] = IF s = "Completed" THEN "Released" ELSE "Refunded"
        /\ job[a].esc = escrowId[o] /\ job[a].esc \in EscrowIds
    BY <1>2, <1>4 DEF HandlerInv, FreshJob, Owns
  <2>. QED
    BY <2>1, OrdersAssumption DEF MoneyOf, MoneyIn
<1>9. s = "Closed" /\ status[o] = "Accepted" => MoneyOf(o) = "void"
  <2>. SUFFICES ASSUME s = "Closed", status[o] = "Accepted" PROVE MoneyOf(o) = "void"
    OBVIOUS
  <2>1. escrowId[o] # NoEscrow
    BY <1>1 DEF IInv, RowInv, SerialInv, RowFresh
  <2>2. escrow[escrowId[o]] = "Closed"
    BY <1>1, <1>2, <1>4, <2>1 DEF FreshJob
  <2>. QED
    BY <2>1, <2>2 DEF MoneyOf, MoneyIn
<1>10. CASE s = "Accepted"
  BY <1>1, <1>4, <1>6, <1>10 DEF Before, Promise!Accept, Promise!Next
<1>11. CASE s = "Paid"
  BY <1>1, <1>4, <1>6, <1>7, <1>11 DEF Before, Promise!Pay, Promise!Next
<1>12. CASE s = "Shipped"
  BY <1>1, <1>4, <1>6, <1>12 DEF Before, Promise!Ship, Promise!Next
<1>13. CASE s = "Delivered"
  BY <1>1, <1>4, <1>6, <1>13 DEF Before, Promise!Deliver, Promise!Next
<1>14. CASE s = "Disputed"
  BY <1>1, <1>4, <1>6, <1>14 DEF Before, Promise!Dispute, Promise!Next
<1>15. CASE s = "Refunded"
  BY <1>1, <1>4, <1>6, <1>8, <1>15 DEF Before, Promise!Refund, Promise!Next
<1>16. CASE s = "Completed"
  BY <1>1, <1>4, <1>6, <1>8, <1>16 DEF Before, Promise!Complete, Promise!Next
<1>17. CASE s = "EscrowPaymentFailed"
  <2>1. job[a].to \in {"Completed", "Refunded"}
    BY <1>4, <1>17 DEF Targets, Status
  <2>2. status[o] \in {"Paid", "Delivered", "Disputed"}
    BY <1>4, <2>1 DEF Before
  <2>. QED
    BY <1>1, <1>6, <1>17, <2>2 DEF Promise!Fail, Promise!Next
<1>18. CASE s = "Closed"
  BY <1>1, <1>4, <1>6, <1>9, <1>18 DEF Before, Promise!Close, Promise!Next
<1>. QED
  BY <1>4, <1>10, <1>11, <1>12, <1>13, <1>14, <1>15, <1>16, <1>17, <1>18 DEF Targets, Status

LEMMA RefineNext ==
  ASSUME IInv, SerialInv, PaidByBuyer, NoticesBacked, "adminPaid" \notin Env, [Next]_vars
  PROVE  [Promise!Next]_<<status, [o \in Orders |-> MoneyOf(o)]>>
<1>1. CASE UNCHANGED <<status, escrowId, escrow>>
  BY <1>1, StutterStep DEF Stutter, MoneyOf
<1>2. ASSUME NEW a \in Actors,
             (\E e \in EscrowIds : CreateEscrow(a, e)) \/ ReleaseEscrow(a) \/ RefundEscrow(a)
               \/ CloseEscrow(a)
      PROVE  Promise!Next \/ Stutter
  BY <1>2, RefineErbn
<1>3. ASSUME NEW a \in Actors, WriteOrder(a)
      PROVE  Promise!Next \/ UNCHANGED <<status, escrowId, escrow>>
  <2>1. CASE UNCHANGED orderRow
    BY <1>3, <2>1 DEF WriteOrder, orderRow, erbn
  <2>2. CASE ~UNCHANGED orderRow
    <3>1. job[a].pc = "order" /\ TypeOK
      BY <1>3 DEF WriteOrder, IInv
    <3>2. job[a] \in Job /\ Busy(a)
      BY <3>1, BusyIsJob DEF Waiting, Busy, Idle
    <3>3. /\ status[job[a].order] \in Before[job[a].to] /\ job[a].order \in Orders
          /\ job[a].to \in Targets
      BY <3>1, <3>2 DEF SerialInv, JobFresh, FreshJob, Job
    <3>4. status' = [status EXCEPT ![job[a].order] = Written(job[a])]
      BY <1>3, <2>2 DEF WriteOrder
    <3>5. Written(job[a]) # status[job[a].order]
      BY <3>3 DEF Written, Before, Targets, Status
    <3>6. status' # status
      BY <3>1, <3>3, <3>4, <3>5 DEF TypeOK
    <3>. QED
      BY <1>3, <3>6, RefineWrite
  <2>. QED
    BY <2>1, <2>2
<1>4. ASSUME NEW o \in Orders, NEW e \in EscrowIds, BuyerPays(o, e)
      PROVE  Promise!Next
  BY <1>4, RefinePayment
<1>5. \/ UNCHANGED <<status, escrowId, escrow>>
      \/ \E a \in Actors : \/ (\E e \in EscrowIds : CreateEscrow(a, e))
                           \/ ReleaseEscrow(a) \/ RefundEscrow(a) \/ CloseEscrow(a)
                           \/ WriteOrder(a)
      \/ \E o \in Orders, e \in EscrowIds : BuyerPays(o, e)
  BY DEF Next, vars, orderRow, erbn, Start, PartyPatch, AdminPatch, EscrowPaid, CronScan,
         CronUpdate, Continue, ReadOrder, NoPayout, Throws, ReadProduct, Restock, Outside,
         AdminDeletesProduct, Crash
<1>. QED
  BY <1>1, <1>2, <1>3, <1>4, <1>5, StutterStep

\* Handlers that run one at a time keep the promise, also when ERBN's answers
\* are lost, the process crashes or an admin deletes products: every step of
\* theirs is one of Settlement or shows nothing there.  (An admin who marks
\* orders as paid by hand does break it.)
THEOREM SettlementImplemented ==
  Serial /\ "adminPaid" \notin Env => (Spec => ImplementsSettlement)
<1>. SUFFICES ASSUME Serial, "adminPaid" \notin Env PROVE Spec => Promise!Spec
  BY DEF ImplementsSettlement
<1>1. Init => Promise!Init
  BY RefineInit
<1>2. IInv /\ SerialInv /\ PaidByBuyer /\ NoticesBacked /\ [Next]_vars
        => [Promise!Next]_<<status, [o \in Orders |-> MoneyOf(o)]>>
  BY RefineNext
<1>. QED
  BY <1>1, <1>2, InductiveSerial, PaymentsBacked, PTL DEF Spec, Promise!Spec
=============================================================================
