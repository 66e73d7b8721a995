------------------------ MODULE VerificationsProofs ------------------------
(***************************************************************************)
(* The types of Verifications, and the two properties that hold whatever   *)
(* overlaps or fails: a status is earned and a verified phone was checked. *)
(* The argument: a row that is not pending is for ever, and so is what the *)
(* provider said about it (Keeps), so what a handler found on record when  *)
(* it went on is still there when it writes.  Then the three that need     *)
(* handlers to run one at a time, when all else that was read of the user  *)
(* is still true as well (SerialInv).                                      *)
(***************************************************************************)
EXTENDS Verifications, TLAPS

-----------------------------------------------------------------------------
(***************************************************************************)
(* Types                                                                   *)
(***************************************************************************)

\* A handler that waits has a job.
LEMMA BusyIsJob ==
  ASSUME TypeOK, NEW h \in Handlers, job[h].pc \in Waiting
  PROVE  job[h] \in Job /\ Busy(h)
<1>1. job[h] \in Job \cup {Idle}
  BY DEF TypeOK
<1>2. job[h] # Idle
  BY DEF Idle, Waiting
<1>. QED
  BY <1>1, <1>2 DEF Busy

LEMMA NewJobType ==
  ASSUME NEW at \in Waiting, NEW u \in Users
  PROVE  NewJob(at, u) \in Job
BY DEF NewJob, Job

LEMMA JobIsNotIdle == ASSUME NEW j \in Job PROVE j # Idle
BY DEF Job, Idle, Waiting

LEMMA VerdictType ==
  ASSUME NEW level PROVE RiskLevelToIdVerificationStatusMap(level) \in Decided
BY DEF RiskLevelToIdVerificationStatusMap, Decided

LEMMA TypeInit == Init => TypeOK
BY DEF Init, TypeOK, IdStatus, Issued, NotIssued, Row, NoRow, Idle

\* A step that only moves a job on.
LEMMA TypeJobStep ==
  ASSUME TypeOK, NEW h \in Handlers, NEW j \in Job \cup {Idle}, Goes(h, j)
  PROVE  job' \in [Handlers -> Job \cup {Idle}]
BY DEF TypeOK, Goes

LEMMA TypeBegin ==
  ASSUME TypeOK, NEW h \in Handlers, Begin(h)
  PROVE  TypeOK'
<1>1. ASSUME NEW u \in Users, NEW isUsPhone \in BOOLEAN, Start(h, u, isUsPhone)
      PROVE  TypeOK'
  <2>1. NewJob("code", u) \in Job
    BY NewJobType DEF Waiting
  <2>2. job' \in [Handlers -> Job \cup {Idle}]
    BY <1>1, <2>1, TypeJobStep DEF Start
  <2>. QED
    BY <1>1, <2>2 DEF TypeOK, Start, userRow, outside
<1>2. ASSUME NEW u \in Users, NEW otp \in Passwords, OtpFinish(h, u, otp)
      PROVE  TypeOK'
  <2>1. [NewJob("otpRow", u) EXCEPT !.ok = verify(u, otp)] \in Job
    BY DEF verify, NewJob, Job, Waiting
  <2>2. job' \in [Handlers -> Job \cup {Idle}]
    BY <1>2, <2>1, TypeJobStep DEF OtpFinish
  <2>. QED
    BY <1>2, <2>2 DEF TypeOK, OtpFinish, userRow, cache, outside
<1>3. ASSUME NEW u \in Users, ProveFinish(h, u)
      PROVE  TypeOK'
  <2>1. NewJob("rows", u) \in Job
    BY NewJobType DEF Waiting
  <2>2. job' \in [Handlers -> Job \cup {Idle}]
    BY <1>3, <2>1, TypeJobStep DEF ProveFinish
  <2>. QED
    BY <1>3, <2>2 DEF TypeOK, ProveFinish, userRow, cache, outside
<1>4. ASSUME NEW u \in Users, AskUrl(h, u)
      PROVE  TypeOK'
  <2>1. NewJob("count", u) \in Job
    BY NewJobType DEF Waiting
  <2>2. job' \in [Handlers -> Job \cup {Idle}]
    BY <1>4, <2>1, TypeJobStep DEF AskUrl
  <2>. QED
    BY <1>4, <2>2 DEF TypeOK, AskUrl, userRow, cache, outside
<1>5. ASSUME NEW i \in VerIds, EventArrives(h, i)
      PROVE  TypeOK'
  <2>1. row[i] # NoRow => [NewJob("mark", row[i].user) EXCEPT !.id = i] \in Job
    BY DEF TypeOK, NewJob, Job, Row, Waiting
  <2>2. job' \in [Handlers -> Job \cup {Idle}]
    BY <1>5, <2>1, TypeJobStep DEF EventArrives
  <2>. QED
    BY <1>5, <2>2 DEF TypeOK, EventArrives, userRow, cache, outside
<1>. QED
  BY <1>1, <1>2, <1>3, <1>4, <1>5 DEF Begin

LEMMA TypePhone ==
  ASSUME TypeOK, NEW h \in Handlers, Phone(h)
  PROVE  TypeOK'
<1>1. ASSUME SendCode(h)
      PROVE  TypeOK'
  <2>1. job[h] \in Job /\ job[h].user \in Users
    BY <1>1, BusyIsJob DEF SendCode, Waiting, Job
  <2>3. job' \in [Handlers -> Job \cup {Idle}]
    BY <1>1, <2>1, TypeJobStep DEF SendCode
  <2>. QED
    BY <1>1, <2>1, <2>3 DEF TypeOK, SendCode, userRow, outside
<1>2. ASSUME CheckRows(h)
      PROVE  TypeOK'
  <2>1. job[h] \in Job /\ job[h].user \in Users
    BY <1>2, BusyIsJob DEF CheckRows, Waiting, Job
  <2>2. NewJob("link", job[h].user) \in Job
    BY <2>1, NewJobType DEF Waiting
  <2>3. job' \in [Handlers -> Job \cup {Idle}]
    BY <1>2, <2>1, <2>2, TypeJobStep DEF CheckRows
  <2>. QED
    BY <1>2, <2>1, <2>3 DEF TypeOK, CheckRows, userRow, cache, outside
<1>3. ASSUME NEW yes \in BOOLEAN, CheckPhoneVerified(h, yes)
      PROVE  TypeOK'
  <2>1. job[h] \in Job /\ job[h].user \in Users
    BY <1>3, BusyIsJob DEF CheckPhoneVerified, Waiting, Job
  <2>2. [job[h] EXCEPT !.pc = "proveRow", !.ok = yes] \in Job
    BY <2>1 DEF Job, Waiting
  <2>3. job' \in [Handlers -> Job \cup {Idle}]
    BY <1>3, <2>1, <2>2, TypeJobStep DEF CheckPhoneVerified
  <2>. QED
    BY <1>3, <2>1, <2>3 DEF TypeOK, CheckPhoneVerified, userRow, cache, outside
<1>4. ASSUME CreatePhoneRow(h)
      PROVE  TypeOK'
  <2>1. job[h] \in Job /\ job[h].user \in Users
    BY <1>4, BusyIsJob DEF CreatePhoneRow, Waiting, Job
  <2>2. NewJob("flag", job[h].user) \in Job /\ NewJob("reputation", job[h].user) \in Job
    BY <2>1, NewJobType DEF Waiting
  <2>3. job' \in [Handlers -> Job \cup {Idle}]
    BY <1>4, <2>1, <2>2, TypeJobStep DEF CreatePhoneRow
  <2>. QED
    BY <1>4, <2>1, <2>3 DEF TypeOK, CreatePhoneRow, userRow, cache, outside
<1>5. ASSUME BadReputation(h)
      PROVE  TypeOK'
  <2>1. job[h] \in Job /\ job[h].user \in Users
    BY <1>5, BusyIsJob DEF BadReputation, Waiting, Job
  <2>2. NewJob("flag", job[h].user) \in Job
    BY <2>1, NewJobType DEF Waiting
  <2>3. job' \in [Handlers -> Job \cup {Idle}]
    BY <1>5, <2>1, <2>2, TypeJobStep DEF BadReputation
  <2>. QED
    BY <1>5, <2>1, <2>3 DEF TypeOK, BadReputation, userRow, cache, outside
<1>6. ASSUME SetPhoneVerified(h)
      PROVE  TypeOK'
  <2>1. job[h] \in Job /\ job[h].user \in Users
    BY <1>6, BusyIsJob DEF SetPhoneVerified, Waiting, Job
  <2>3. job' \in [Handlers -> Job \cup {Idle}]
    BY <1>6, <2>1, TypeJobStep DEF SetPhoneVerified
  <2>. QED
    BY <1>6, <2>1, <2>3 DEF TypeOK, SetPhoneVerified, userRow, cache, outside
<1>7. ASSUME NEW l \in Handlers, GoodReputation(h, l)
      PROVE  TypeOK'
  <2>1. job[h] \in Job /\ job[h].user \in Users
    BY <1>7, BusyIsJob DEF GoodReputation, Waiting, Job
  <2>2. NewJob("flag", job[h].user) \in Job /\ NewJob("verify", job[h].user) \in Job
    BY <2>1, NewJobType DEF Waiting
  <2>3. job' \in [Handlers -> Job \cup {Idle}]
    BY <1>7, <2>2 DEF GoodReputation, TypeOK
  <2>. QED
    BY <1>7, <2>3 DEF TypeOK, GoodReputation, userRow, cache, outside
<1>. QED
  BY <1>1, <1>2, <1>3, <1>4, <1>5, <1>6, <1>7 DEF Phone

LEMMA TypeProve ==
  ASSUME TypeOK, NEW h \in Handlers, Prove(h)
  PROVE  TypeOK'
<1>1. ASSUME ProveAborts(h)
      PROVE  TypeOK'
  <2>1. job[h] \in Job /\ job[h].user \in Users
    BY <1>1, BusyIsJob DEF ProveAborts, Waiting, Job
  <2>3. job' \in [Handlers -> Job \cup {Idle}]
    BY <1>1, <2>1, TypeJobStep DEF ProveAborts
  <2>. QED
    BY <1>1, <2>1, <2>3 DEF TypeOK, ProveAborts, userRow, cache, outside
<1>2. ASSUME NEW i \in VerIds, NEW v \in {"verified", "unverified"}, ProveVerifies(h, i, v)
      PROVE  TypeOK'
  <2>1. job[h] \in Job /\ job[h].user \in Users
    BY <1>2, BusyIsJob DEF ProveVerifies, Waiting, Job
  <2>2. [job[h] EXCEPT !.pc = "record", !.id = i, !.ok = (v = "verified")] \in Job
    BY <2>1 DEF Job, Waiting
  <2>3. job' \in [Handlers -> Job \cup {Idle}]
    BY <1>2, <2>1, <2>2, TypeJobStep DEF ProveVerifies
  <2>. QED
    BY <1>2, <2>1, <2>3 DEF TypeOK, ProveVerifies, userRow, cache, Issued
<1>3. ASSUME RecordVerification(h)
      PROVE  TypeOK'
  <2>1. job[h] \in Job /\ job[h].user \in Users
    BY <1>3, BusyIsJob DEF RecordVerification, Waiting, Job
  <2>2. [job[h] EXCEPT !.pc = "lite"] \in Job
    BY <2>1 DEF Job, Waiting
  <2>3. job' \in [Handlers -> Job \cup {Idle}]
    BY <1>3, <2>1, <2>2, TypeJobStep DEF RecordVerification
  <2>. QED
    BY <1>3, <2>1, <2>3 DEF TypeOK, RecordVerification, userRow, cache, outside, Row, Job
<1>4. ASSUME SetLite(h)
      PROVE  TypeOK'
  <2>1. job[h] \in Job /\ job[h].user \in Users
    BY <1>4, BusyIsJob DEF SetLite, Waiting, Job
  <2>3. job' \in [Handlers -> Job \cup {Idle}]
    BY <1>4, <2>1, TypeJobStep DEF SetLite
  <2>. QED
    BY <1>4, <2>1, <2>3 DEF TypeOK, SetLite, cache, outside, IdStatus
<1>. QED
  BY <1>1, <1>2, <1>3, <1>4 DEF Prove

LEMMA TypeSardine ==
  ASSUME TypeOK, NEW h \in Handlers, Sardine(h)
  PROVE  TypeOK'
<1>1. ASSUME CountPending(h)
      PROVE  TypeOK'
  <2>1. job[h] \in Job /\ job[h].user \in Users
    BY <1>1, BusyIsJob DEF CountPending, Waiting, Job
  <2>2. NewJob("url", job[h].user) \in Job /\ NewJob("find", job[h].user) \in Job
    BY <2>1, NewJobType DEF Waiting
  <2>3. job' \in [Handlers -> Job \cup {Idle}]
    BY <1>1, <2>1, <2>2, TypeJobStep DEF CountPending
  <2>. QED
    BY <1>1, <2>1, <2>3 DEF TypeOK, CountPending, userRow, cache, outside
<1>2. ASSUME FindPending(h)
      PROVE  TypeOK'
  <2>1. job[h] \in Job /\ job[h].user \in Users
    BY <1>2, BusyIsJob DEF FindPending, Waiting, Job
  <2>2. NewJob("delete", job[h].user) \in Job
    BY <2>1, NewJobType DEF Waiting
  <2>3. job' \in [Handlers -> Job \cup {Idle}]
    BY <1>2, <2>1, <2>2, TypeJobStep DEF FindPending
  <2>. QED
    BY <1>2, <2>1, <2>3 DEF TypeOK, FindPending, userRow, cache, outside
<1>3. ASSUME DeletePending(h)
      PROVE  TypeOK'
  <2>1. job[h] \in Job /\ job[h].user \in Users
    BY <1>3, BusyIsJob DEF DeletePending, Waiting, Job
  <2>2. NewJob("url", job[h].user) \in Job
    BY <2>1, NewJobType DEF Waiting
  <2>3. job' \in [Handlers -> Job \cup {Idle}]
    BY <1>3, <2>1, <2>2, TypeJobStep DEF DeletePending
  <2>. QED
    BY <1>3, <2>1, <2>3 DEF TypeOK, DeletePending, userRow, cache, outside
<1>4. ASSUME NEW i \in VerIds, GetUrl(h, i)
      PROVE  TypeOK'
  <2>1. job[h] \in Job /\ job[h].user \in Users
    BY <1>4, BusyIsJob DEF GetUrl, Waiting, Job
  <2>2. [job[h] EXCEPT !.pc = "create", !.id = i] \in Job
    BY <2>1 DEF Job, Waiting
  <2>3. job' \in [Handlers -> Job \cup {Idle}]
    BY <1>4, <2>1, <2>2, TypeJobStep DEF GetUrl
  <2>. QED
    BY <1>4, <2>1, <2>3 DEF TypeOK, GetUrl, userRow, cache, Issued
<1>5. ASSUME CreatePending(h)
      PROVE  TypeOK'
  <2>1. job[h] \in Job /\ job[h].user \in Users
    BY <1>5, BusyIsJob DEF CreatePending, Waiting, Job
  <2>3. job' \in [Handlers -> Job \cup {Idle}]
    BY <1>5, <2>1, TypeJobStep DEF CreatePending
  <2>. QED
    BY <1>5, <2>1, <2>3 DEF TypeOK, CreatePending, userRow, cache, outside, Row
<1>6. ASSUME MarkProcessed(h)
      PROVE  TypeOK'
  <2>1. job[h] \in Job /\ job[h].user \in Users
    BY <1>6, BusyIsJob DEF MarkProcessed, Waiting, Job
  <2>2. [job[h] EXCEPT !.pc = "tell"] \in Job
    BY <2>1 DEF Job, Waiting
  <2>3. job' \in [Handlers -> Job \cup {Idle}]
    BY <1>6, <2>1, <2>2, TypeJobStep DEF MarkProcessed
  <2>. QED
    BY <1>6, <2>1, <2>3 DEF TypeOK, MarkProcessed, userRow, cache, outside, Row, NoRow
<1>7. ASSUME Tell(h)
      PROVE  TypeOK'
  <2>1. job[h] \in Job /\ job[h].user \in Users
    BY <1>7, BusyIsJob DEF Tell, Waiting, Job
  <2>2. [job[h] EXCEPT !.pc = "verdict"] \in Job
    BY <2>1 DEF Job, Waiting
  <2>3. job' \in [Handlers -> Job \cup {Idle}]
    BY <1>7, <2>1, <2>2, TypeJobStep DEF Tell
  <2>4. told' \in [VerIds -> Nat]
    <3>1. PICK i : i = job[h].id
      OBVIOUS
    <3>2. told' = [told EXCEPT ![i] = told[i] + 1] /\ told \in [VerIds -> Nat]
      BY <1>7, <3>1 DEF Tell, TypeOK
    <3>3. CASE i \in VerIds
      BY <3>2, <3>3
    <3>4. CASE i \notin VerIds
      <4>1. told' = told
        BY <3>2, <3>4, Zenon
      <4>. QED
        BY <3>2, <4>1
    <3>. QED
      BY <3>3, <3>4
  <2>5. UNCHANGED <<userRow, phoneProof, row, cache, outside>>
    BY <1>7 DEF Tell
  <2>. QED
    BY <2>3, <2>4, <2>5 DEF TypeOK, userRow, cache, outside
<1>8. ASSUME SetVerdict(h)
      PROVE  TypeOK'
  <2>1. job[h] \in Job /\ job[h].user \in Users
    BY <1>8, BusyIsJob DEF SetVerdict, Waiting, Job
  <2>3. job' \in [Handlers -> Job \cup {Idle}]
    BY <1>8, <2>1, TypeJobStep DEF SetVerdict
  <2>4. idStatus' \in [Users -> IdStatus]
    BY <1>8, <2>1, VerdictType DEF TypeOK, SetVerdict, IdStatus, Decided
  <2>. QED
    BY <1>8, <2>3, <2>4 DEF TypeOK, SetVerdict, cache, outside
<1>. QED
  BY <1>1, <1>2, <1>3, <1>4, <1>5, <1>6, <1>7, <1>8 DEF Sardine

LEMMA TypeElsewhere ==
  ASSUME TypeOK, Elsewhere
  PROVE  TypeOK'
<1>1. ASSUME NEW u \in Users, CacheExpires(u)
      PROVE  TypeOK'
  BY <1>1 DEF TypeOK, CacheExpires, userRow, outside
<1>2. ASSUME NEW i \in VerIds, NEW level \in RiskLevels, SardineDecides(i, level)
      PROVE  TypeOK'
  <2>1. issued[i] \in Issued
    BY <1>2 DEF TypeOK, SardineDecides, NotIssued
  <2>. QED
    BY <1>2, <2>1 DEF TypeOK, SardineDecides, Issued, userRow, cache
<1>3. ASSUME NEW i \in VerIds, LinkExpires(i)
      PROVE  TypeOK'
  BY <1>3 DEF TypeOK, LinkExpires, userRow, cache
<1>4. ASSUME NEW u \in Users, NEW s \in IdStatus, NEW ok \in BOOLEAN, SetByHand(u, s, ok)
      PROVE  TypeOK'
  BY <1>4 DEF TypeOK, SetByHand, cache, outside
<1>. QED
  BY <1>1, <1>2, <1>3, <1>4 DEF Elsewhere

LEMMA TypeNext == TypeOK /\ [Next]_vars => TypeOK'
<1>. SUFFICES ASSUME TypeOK, [Next]_vars PROVE TypeOK'
  OBVIOUS
<1>1. ASSUME NEW h \in Handlers, Throws(h) PROVE TypeOK'
  <2>1. job' \in [Handlers -> Job \cup {Idle}]
    BY <1>1, TypeJobStep DEF Throws
  <2>. QED
    BY <1>1, <2>1 DEF TypeOK, Throws, userRow, cache, outside
<1>2. ASSUME UNCHANGED vars PROVE TypeOK'
  BY <1>2 DEF TypeOK, vars, userRow, cache, outside
<1>. QED
  BY <1>1, <1>2, TypeBegin, TypePhone, TypeProve, TypeSardine, TypeElsewhere DEF Next

\* Every reachable state has its types.
THEOREM VerificationTypes == Spec => []TypeOK
BY TypeInit, TypeNext, PTL DEF Spec

-----------------------------------------------------------------------------
(***************************************************************************)
(* The inductive invariant                                                 *)
(***************************************************************************)

\* What no step takes back.
Keeps ==
  /\ \A i \in VerIds : row[i].status \in {"processed", "verified"} => row'[i] = row[i]
  /\ \A i \in VerIds : issued[i] # NotIssued =>
       issued'[i].by = issued[i].by /\ issued'[i].user = issued[i].user
  /\ \A i \in VerIds : issued[i].verdict # "open" => issued'[i] = issued[i]
  /\ phoneProof \subseteq phoneProof'

Creating(j) == j.pc \in {"record", "create"}

\* IInv without its types.
Core == RowInv /\ JobInv /\ FreshInv /\ StatusEarned /\ PhoneProven

\* A handler that waits has what the invariant says of it.
LEMMA HandlerHas ==
  ASSUME IInv, NEW h \in Handlers, job[h].pc \in Waiting
  PROVE  /\ job[h] \in Job /\ HandlerInv(job[h])
         /\ job[h].pc \in WithId => job[h].id \in VerIds
BY BusyIsJob DEF IInv, JobInv

\* What a handler relies on stays true.
LEMMA HandlerKeeps ==
  ASSUME Keeps, NEW j, HandlerInv(j), j.pc \in WithId => j.id \in VerIds,
         Creating(j) => row'[j.id] = NoRow
  PROVE  HandlerInv(j)'
<1>1. Creating(j) => issued[j.id] # NotIssued
  BY DEF HandlerInv, Creating, NotIssued
<1>2. j.pc = "mark" => issued[j.id] # NotIssued
  BY DEF HandlerInv, NotIssued
<1>. QED
  BY <1>1, <1>2 DEF Keeps, HandlerInv, WithId, Creating, OnRecord

\* One handler moves on as j, and the rows that are created are its own.
LEMMA JobsKeep ==
  ASSUME IInv, Keeps, NEW h \in Handlers, NEW j \in Job \cup {Idle}, Goes(h, j),
         j # Idle => (j.pc \in WithId => j.id \in VerIds) /\ HandlerInv(j)',
         \A g \in Handlers : g # h /\ Creating(job[g]) =>
            row'[job[g].id] = NoRow /\ (Creating(j) => job[g].id # j.id)
  PROVE  JobInv' /\ FreshInv'
<1>1. /\ job' = [job EXCEPT ![h] = j]
      /\ job \in [Handlers -> Job \cup {Idle}]
  BY DEF Goes, IInv, TypeOK
<1>2. job'[h] = j /\ \A g \in Handlers : g # h => job'[g] = job[g]
  BY <1>1
<1>3. ASSUME NEW g \in Handlers, NEW k, k = job'[g], k # Idle
      PROVE  (k.pc \in WithId => k.id \in VerIds) /\ HandlerInv(k)'
  <2>1. CASE g = h
    BY <1>2, <1>3, <2>1
  <2>2. CASE g # h
    <3>1. k = job[g] /\ Busy(g)
      BY <1>2, <1>3, <2>2 DEF Busy
    <3>2. HandlerInv(k) /\ (k.pc \in WithId => k.id \in VerIds)
      BY <3>1 DEF IInv, JobInv
    <3>3. Creating(k) => row'[k.id] = NoRow
      BY <2>2, <3>1
    <3>4. HandlerInv(k)'
      BY <3>2, <3>3, HandlerKeeps
    <3>. QED
      BY <3>2, <3>4
  <2>. QED
    BY <2>1, <2>2
<1>4. FreshInv'
  BY <1>2 DEF IInv, FreshInv, Creating
<1>5. JobInv'
  BY <1>3 DEF JobInv, Busy, HandlerInv, OnRecord
<1>. QED
  BY <1>4, <1>5

\* A status that stays is still earned.
LEMMA EarnedKeeps ==
  ASSUME StatusEarned, Keeps, UNCHANGED <<idStatus, patched>>
  PROVE  StatusEarned'
BY DEF StatusEarned, Keeps, OnRecord

\* Rows that stay still agree with their providers.
LEMMA RowsKeep ==
  ASSUME TypeOK, RowInv, Keeps, row' = row
  PROVE  RowInv'
<1> SUFFICES ASSUME NEW i \in VerIds, row[i] # NoRow
             PROVE  RowAgrees(i)'
  BY DEF RowInv
<1>1. RowAgrees(i)
  BY DEF RowInv
<1>2. issued[i] # NotIssued
  BY <1>1 DEF TypeOK, RowAgrees, Row, NotIssued
<1>3. /\ issued'[i].by = issued[i].by /\ issued'[i].user = issued[i].user
      /\ issued[i].verdict # "open" => issued'[i] = issued[i]
  BY <1>2 DEF Keeps
<1>. QED
  BY <1>1, <1>3 DEF RowAgrees

LEMMA SameKeeps ==
  ASSUME UNCHANGED <<row, issued>>, phoneProof \subseteq phoneProof'
  PROVE  Keeps
BY DEF Keeps

\* A step that only moves a handler on, within what it may rely on.
LEMMA InvJobStep ==
  ASSUME IInv, NEW h \in Handlers, NEW j \in Job \cup {Idle}, Goes(h, j),
         j # Idle => (j.pc \in WithId => j.id \in VerIds) /\ HandlerInv(j)',
         ~Creating(j), UNCHANGED <<idStatus, patched, row, issued>>,
         phoneProof \subseteq phoneProof', PhoneProven'
  PROVE  Core'
<1>1. Keeps
  BY SameKeeps
<1>2. \A g \in Handlers : g # h /\ Creating(job[g]) => row'[job[g].id] = NoRow
  <2> SUFFICES ASSUME NEW g \in Handlers, Creating(job[g])
               PROVE  row[job[g].id] = NoRow
    OBVIOUS
  <2>1. HandlerInv(job[g])
    BY HandlerHas DEF Creating, Waiting
  <2>. QED
    BY <2>1 DEF HandlerInv, Creating
<1>3. JobInv' /\ FreshInv'
  BY <1>1, <1>2, JobsKeep
<1>4. RowInv' /\ StatusEarned'
  BY <1>1, RowsKeep, EarnedKeeps DEF IInv
<1>. QED
  BY <1>3, <1>4 DEF Core, PhoneProven

\* Most places where a handler waits ask for nothing.
LEMMA InvEasyStep ==
  ASSUME IInv, NEW h \in Handlers, NEW j \in Job \cup {Idle}, Goes(h, j),
         j.pc \notin WithId \cup {"reputation", "flag"},
         UNCHANGED <<idStatus, phoneOk, patched, phoneProof, row, issued>>
  PROVE  Core'
<1>1. HandlerInv(j)' /\ ~Creating(j)
  BY DEF HandlerInv, WithId, Creating
<1>2. PhoneProven' /\ phoneProof \subseteq phoneProof'
  BY DEF IInv, PhoneProven
<1>. QED
  BY <1>1, <1>2, InvJobStep

LEMMA InvInit == Init => IInv
<1>. SUFFICES ASSUME Init PROVE IInv
  OBVIOUS
<1>1. TypeOK
  BY TypeInit
<1>2. RowInv /\ JobInv /\ FreshInv /\ StatusEarned /\ PhoneProven
  BY DEF Init, RowInv, JobInv, FreshInv, StatusEarned, PhoneProven, Busy, Idle, Decided
<1>. QED
  BY <1>1, <1>2 DEF IInv

LEMMA InvBegin ==
  ASSUME IInv, NEW h \in Handlers, Begin(h)
  PROVE  Core'
<1>. USE DEF userRow, cache, outside
<1>1. ASSUME NEW u \in Users, NEW isUsPhone \in BOOLEAN, Start(h, u, isUsPhone)
      PROVE  Core'
  <2>. DEFINE j == IF isUsPhone THEN Idle ELSE NewJob("code", u)
  <2>1. j \in Job \cup {Idle} /\ j.pc \notin WithId \cup {"reputation", "flag"}
    BY NewJobType DEF Waiting, NewJob, Idle, WithId
  <2>2. Goes(h, j)
    BY <1>1 DEF Start
  <2>. QED
    BY <1>1, <2>1, <2>2, InvEasyStep DEF Start
<1>2. ASSUME NEW u \in Users, NEW otp \in Passwords, OtpFinish(h, u, otp)
      PROVE  Core'
  <2>. DEFINE j == [NewJob("otpRow", u) EXCEPT !.ok = verify(u, otp)]
  <2>1. j \in Job \cup {Idle} /\ j.pc \notin WithId \cup {"reputation", "flag"}
    BY DEF verify, Job, Waiting, NewJob, WithId
  <2>. QED
    BY <1>2, <2>1, InvEasyStep DEF OtpFinish
<1>3. ASSUME NEW u \in Users, ProveFinish(h, u)
      PROVE  Core'
  <2>. DEFINE j == NewJob("rows", u)
  <2>1. j \in Job \cup {Idle} /\ j.pc \notin WithId \cup {"reputation", "flag"}
    BY NewJobType DEF Waiting, NewJob, WithId
  <2>. QED
    BY <1>3, <2>1, InvEasyStep DEF ProveFinish
<1>4. ASSUME NEW u \in Users, AskUrl(h, u)
      PROVE  Core'
  <2>. DEFINE j == NewJob("count", u)
  <2>1. j \in Job \cup {Idle} /\ j.pc \notin WithId \cup {"reputation", "flag"}
    BY NewJobType DEF Waiting, NewJob, WithId
  <2>. QED
    BY <1>4, <2>1, InvEasyStep DEF AskUrl
<1>5. ASSUME NEW i \in VerIds, EventArrives(h, i)
      PROVE  Core'
  <2>1. CASE row[i] # NoRow /\ row[i].status = "pending"
    <3>. DEFINE j == [NewJob("mark", row[i].user) EXCEPT !.id = i]
    <3>1. j \in Job /\ j.pc = "mark" /\ j.id = i /\ j.user = row[i].user
      BY <2>1 DEF IInv, TypeOK, NewJob, Job, Row, Waiting
    <3>2. HandlerInv(j)'
      BY <1>5, <2>1, <3>1 DEF IInv, RowInv, RowAgrees, HandlerInv, EventArrives
    <3>3. Goes(h, j)
      BY <1>5, <2>1 DEF EventArrives
    <3>4. PhoneProven' /\ phoneProof \subseteq phoneProof'
      BY <1>5 DEF IInv, PhoneProven, EventArrives
    <3>. QED
      BY <1>5, <3>1, <3>2, <3>3, <3>4, InvJobStep DEF EventArrives, Creating
  <2>2. CASE ~(row[i] # NoRow /\ row[i].status = "pending")
    <3>1. Idle.pc \notin WithId \cup {"reputation", "flag"}
      BY DEF Idle, WithId
    <3>. QED
      BY <1>5, <2>2, <3>1, InvEasyStep DEF EventArrives
  <2>. QED
    BY <2>1, <2>2
<1>. QED
  BY <1>1, <1>2, <1>3, <1>4, <1>5 DEF Begin

LEMMA InvPhone ==
  ASSUME IInv, NEW h \in Handlers, Phone(h)
  PROVE  Core'
<1>. USE DEF userRow, cache, outside
<1>0. /\ Idle.pc \notin WithId \cup {"reputation", "flag"}
      /\ PhoneProven
  BY DEF IInv, Idle, WithId
<1>1. ASSUME SendCode(h)
      PROVE  Core'
  BY <1>0, <1>1, InvEasyStep DEF SendCode
<1>2. ASSUME CheckRows(h)
      PROVE  Core'
  <2>. DEFINE j == IF RowsOf(job[h].user) = {} THEN NewJob("link", job[h].user) ELSE Idle
  <2>1. job[h].user \in Users
    BY <1>2, HandlerHas DEF CheckRows, Waiting, Job
  <2>2. j \in Job \cup {Idle} /\ j.pc \notin WithId \cup {"reputation", "flag"}
    BY <2>1, <1>0, NewJobType DEF Waiting, NewJob, WithId
  <2>3. Goes(h, j)
    BY <1>2 DEF CheckRows
  <2>. HIDE DEF j
  <2>. QED
    BY <1>2, <2>2, <2>3, InvEasyStep DEF CheckRows
<1>3. ASSUME NEW yes \in BOOLEAN, CheckPhoneVerified(h, yes)
      PROVE  Core'
  <2>. DEFINE j == [job[h] EXCEPT !.pc = "proveRow", !.ok = yes]
  <2>1. job[h] \in Job
    BY <1>3, HandlerHas DEF CheckPhoneVerified, Waiting
  <2>2. j \in Job \cup {Idle} /\ j.pc \notin WithId \cup {"reputation", "flag"}
    BY <2>1 DEF Job, Waiting, WithId
  <2>3. Goes(h, j)
    BY <1>3 DEF CheckPhoneVerified
  <2>. HIDE DEF j
  <2>. QED
    BY <1>3, <2>2, <2>3, InvEasyStep DEF CheckPhoneVerified
<1>4. ASSUME CreatePhoneRow(h)
      PROVE  Core'
  <2>0. PICK j : j = IF job[h].ok
                     THEN NewJob(IF job[h].pc = "otpRow" THEN "flag" ELSE "reputation", job[h].user)
                     ELSE Idle
    OBVIOUS
  <2>1. job[h].user \in Users
    BY <1>4, HandlerHas DEF CreatePhoneRow, Waiting, Job
  <2>2. j \in Job \cup {Idle} /\ j.pc \notin WithId
    BY <2>0, <2>1, <1>0, NewJobType DEF Waiting, NewJob, WithId
  <2>3. Goes(h, j)
    BY <1>4, <2>0 DEF CreatePhoneRow, Goes
  <2>4. phoneProof \subseteq phoneProof' /\ PhoneProven'
    BY <1>0, <1>4 DEF CreatePhoneRow, PhoneProven
  <2>5. j # Idle => j.user \in phoneProof'
    BY <1>4, <2>0 DEF CreatePhoneRow, NewJob
  <2>6. ~Creating(j)
    BY <2>2 DEF Creating, WithId
  <2>7. j # Idle => HandlerInv(j)'
    BY <2>2, <2>5 DEF HandlerInv, WithId
  <2>. QED
    BY <1>4, <2>2, <2>3, <2>4, <2>6, <2>7, InvJobStep DEF CreatePhoneRow
<1>5. ASSUME BadReputation(h)
      PROVE  Core'
  <2>0. PICK j : j = NewJob("flag", job[h].user)
    OBVIOUS
  <2>1. job[h].user \in Users /\ job[h].user \in phoneProof
    BY <1>5, HandlerHas DEF BadReputation, Waiting, Job, HandlerInv
  <2>2. j \in Job /\ j.pc \notin WithId /\ j.user \in phoneProof
    BY <2>0, <2>1, NewJobType DEF Waiting, NewJob, WithId
  <2>3. Goes(h, j)
    BY <1>5, <2>0 DEF BadReputation
  <2>4. ~Creating(j) /\ HandlerInv(j)'
    BY <1>5, <2>2 DEF Creating, WithId, HandlerInv, BadReputation
  <2>5. PhoneProven'
    BY <1>0, <1>5 DEF BadReputation, PhoneProven
  <2>. QED
    BY <1>5, <2>2, <2>3, <2>4, <2>5, InvJobStep DEF BadReputation
<1>6. ASSUME SetPhoneVerified(h)
      PROVE  Core'
  <2>1. job[h].user \in phoneProof
    BY <1>6, HandlerHas DEF SetPhoneVerified, Waiting, HandlerInv
  <2>2. PhoneProven'
    BY <1>0, <1>6, <2>1 DEF SetPhoneVerified, PhoneProven
  <2>3. ~Creating(Idle)
    BY <1>0 DEF Creating, WithId
  <2>. QED
    BY <1>6, <2>2, <2>3, InvJobStep DEF SetPhoneVerified
<1>7. ASSUME NEW l \in Handlers, GoodReputation(h, l)
      PROVE  Core'
  <2>1. job[h].user \in Users /\ job[h].user \in phoneProof
    BY <1>7, HandlerHas DEF GoodReputation, Waiting, Job, HandlerInv
  <2>2. PICK a, b : a = NewJob("flag", job[h].user) /\ b = NewJob("verify", job[h].user)
    OBVIOUS
  <2>3. HandlerInv(a)' /\ HandlerInv(b)'
    BY <1>7, <2>1, <2>2 DEF HandlerInv, NewJob, GoodReputation
  <2>4. \A g \in Handlers : job'[g] = job[g] \/ job'[g] = a \/ job'[g] = b
    BY <1>7, <2>2 DEF GoodReputation, IInv, TypeOK
  <2>5. ~Creating(a) /\ ~Creating(b) /\ a.pc \notin WithId /\ b.pc \notin WithId
    BY <2>2 DEF Creating, NewJob, WithId
  <2>6. Keeps
    BY <1>7, SameKeeps DEF GoodReputation
  <2>7. ASSUME NEW g \in Handlers, NEW k, k = job'[g], k # Idle
        PROVE  (k.pc \in WithId => k.id \in VerIds) /\ HandlerInv(k)'
    <3>1. CASE k = a \/ k = b
      BY <2>3, <2>5, <3>1
    <3>2. CASE k = job[g]
      <4>1. HandlerInv(k) /\ (k.pc \in WithId => k.id \in VerIds)
        BY <2>7, <3>2 DEF IInv, JobInv, Busy
      <4>2. Creating(k) => row'[k.id] = NoRow
        BY <1>7, <4>1 DEF HandlerInv, Creating, GoodReputation
      <4>. QED
        BY <2>6, <4>1, <4>2, HandlerKeeps
    <3>. QED
      BY <2>4, <2>7, <3>1, <3>2
  <2>8. JobInv'
    BY <2>7 DEF JobInv, Busy, HandlerInv, OnRecord
  <2>9. FreshInv'
    BY <2>4, <2>5 DEF IInv, FreshInv, Creating
  <2>10. RowInv' /\ StatusEarned' /\ PhoneProven'
    BY <1>7, <2>6, RowsKeep, EarnedKeeps DEF IInv, GoodReputation, PhoneProven
  <2>. QED
    BY <2>8, <2>9, <2>10 DEF Core
<1>. QED
  BY <1>1, <1>2, <1>3, <1>4, <1>5, <1>6, <1>7 DEF Phone

\* A provider that gives out an id nobody has ...
LEMMA Issuing ==
  ASSUME IInv, NEW i \in VerIds, NEW x, issued[i] = NotIssued,
         issued' = [issued EXCEPT ![i] = x], UNCHANGED <<row, phoneProof>>
  PROVE  /\ Keeps
         /\ row'[i] = NoRow /\ issued'[i] = x
         /\ \A g \in Handlers : Creating(job[g]) => row'[job[g].id] = NoRow /\ job[g].id # i
<1>1. issued'[i] = x /\ \A k \in VerIds : k # i => issued'[k] = issued[k]
  BY DEF IInv, TypeOK
<1>2. Keeps
  BY <1>1 DEF Keeps, NotIssued
<1>3. row[i] = NoRow
  BY DEF IInv, TypeOK, RowInv, RowAgrees, Row, NotIssued
<1>4. ASSUME NEW g \in Handlers, Creating(job[g])
      PROVE  row[job[g].id] = NoRow /\ job[g].id # i
  <2>1. HandlerInv(job[g])
    BY <1>4, HandlerHas DEF Creating, Waiting
  <2>. QED
    BY <1>4, <2>1 DEF HandlerInv, Creating, NotIssued
<1>. QED
  BY <1>1, <1>2, <1>3, <1>4

\* ... and the handler that stores what it was given.
LEMMA Recording ==
  ASSUME IInv, NEW h \in Handlers, Creating(job[h]), NEW r \in Row,
         row' = [row EXCEPT ![job[h].id] = r], UNCHANGED <<issued, phoneProof>>,
         r.user = issued[job[h].id].user, r.provider = issued[job[h].id].by,
         r.status = "verified" => r.provider = "prove" /\ issued[job[h].id].verdict = "verified",
         r.status = "pending" => r.provider = "sardine",
         r.status # "processed"
  PROVE  /\ Keeps /\ RowInv' /\ row'[job[h].id] = r
         /\ \A g \in Handlers : g # h /\ Creating(job[g]) =>
               row'[job[g].id] = NoRow /\ job[g].id # job[h].id
<1>1. PICK i : i = job[h].id
  OBVIOUS
<1>2. i \in VerIds /\ row[i] = NoRow
  BY <1>1, HandlerHas DEF Creating, Waiting, WithId, HandlerInv
<1>3. row'[i] = r /\ \A k \in VerIds : k # i => row'[k] = row[k]
  BY <1>1, <1>2 DEF IInv, TypeOK
<1>4. Keeps
  BY <1>2, <1>3 DEF Keeps, NoRow
<1>5. RowInv'
  BY <1>1, <1>3 DEF IInv, RowInv, RowAgrees
<1>6. ASSUME NEW g \in Handlers, g # h, Creating(job[g])
      PROVE  row'[job[g].id] = NoRow /\ job[g].id # i
  <2>1. HandlerInv(job[g]) /\ job[g].id \in VerIds
    BY <1>6, HandlerHas DEF Creating, Waiting, WithId
  <2>2. job[g].id # i
    BY <1>1, <1>6 DEF IInv, FreshInv, Creating
  <2>. QED
    BY <1>3, <1>6, <2>1, <2>2 DEF HandlerInv, Creating
<1>. QED
  BY <1>1, <1>3, <1>4, <1>5, <1>6

LEMMA InvProve ==
  ASSUME IInv, NEW h \in Handlers, Prove(h)
  PROVE  Core'
<1>. USE DEF userRow, cache, outside
<1>0. Idle.pc \notin WithId \cup {"reputation", "flag"} /\ ~Creating(Idle)
  BY DEF Idle, WithId, Creating
<1>1. ASSUME ProveAborts(h)
      PROVE  Core'
  BY <1>0, <1>1, InvEasyStep DEF ProveAborts
<1>2. ASSUME NEW i \in VerIds, NEW v \in {"verified", "unverified"}, ProveVerifies(h, i, v)
      PROVE  Core'
  <2>1. job[h] \in Job
    BY <1>2, HandlerHas DEF ProveVerifies, Waiting
  <2>2. PICK x : x = [by |-> "prove", user |-> job[h].user, verdict |-> v]
    OBVIOUS
  <2>3. PICK j : j = [job[h] EXCEPT !.pc = "record", !.id = i, !.ok = (v = "verified")]
    OBVIOUS
  <2>4. /\ j \in Job /\ j.pc = "record" /\ j.id = i /\ j.user = job[h].user
        /\ j.ok => v = "verified"
    BY <2>1, <2>3 DEF Job, Waiting
  <2>5. /\ Keeps /\ row'[i] = NoRow /\ issued'[i] = x
        /\ \A g \in Handlers : Creating(job[g]) => row'[job[g].id] = NoRow /\ job[g].id # i
    BY <1>2, <2>2, Issuing DEF ProveVerifies
  <2>6. HandlerInv(j)'
    BY <2>2, <2>4, <2>5 DEF HandlerInv
  <2>7. Goes(h, j)
    BY <1>2, <2>3 DEF ProveVerifies, Goes
  <2>8. JobInv' /\ FreshInv'
    BY <2>4, <2>5, <2>6, <2>7, JobsKeep
  <2>9. RowInv' /\ StatusEarned' /\ PhoneProven'
    BY <1>2, <2>5, RowsKeep, EarnedKeeps DEF IInv, ProveVerifies, PhoneProven
  <2>. QED
    BY <2>8, <2>9 DEF Core
<1>3. ASSUME RecordVerification(h)
      PROVE  Core'
  <2>1. PICK j : j = job[h]
    OBVIOUS
  <2>2. j \in Job /\ j.id \in VerIds /\ HandlerInv(j) /\ j.pc = "record"
    BY <1>3, <2>1, HandlerHas DEF RecordVerification, Waiting, WithId
  <2>3. PICK r : r = [user |-> j.user, provider |-> "prove",
                      status |-> IF j.ok THEN "verified" ELSE "unverified"]
    OBVIOUS
  <2>4. r \in Row
    BY <2>2, <2>3 DEF Row, Job
  <2>5. row' = [row EXCEPT ![job[h].id] = r]
    BY <1>3, <2>1, <2>3 DEF RecordVerification
  <2>6. /\ r.user = issued[j.id].user /\ r.provider = issued[j.id].by /\ r.provider = "prove"
        /\ r.status = "verified" => issued[j.id].verdict = "verified"
        /\ r.status \in {"verified", "unverified"}
    BY <2>2, <2>3 DEF HandlerInv
  <2>7. Creating(job[h]) /\ UNCHANGED <<issued, phoneProof>>
    BY <1>3 DEF RecordVerification, Creating
  <2>8. /\ Keeps /\ RowInv' /\ row'[j.id] = r
        /\ \A g \in Handlers : g # h /\ Creating(job[g]) =>
              row'[job[g].id] = NoRow /\ job[g].id # j.id
    <3>1. /\ r.user = issued[job[h].id].user /\ r.provider = issued[job[h].id].by
          /\ r.status = "verified" => r.provider = "prove" /\ issued[job[h].id].verdict = "verified"
          /\ r.status = "pending" => r.provider = "sardine"
          /\ r.status # "processed"
      BY <2>1, <2>6
    <3>2. /\ Keeps /\ RowInv' /\ row'[job[h].id] = r
          /\ \A g \in Handlers : g # h /\ Creating(job[g]) =>
                row'[job[g].id] = NoRow /\ job[g].id # job[h].id
      BY <2>4, <2>5, <2>7, <3>1, Recording
    <3>. QED
      BY <2>1, <3>2
  <2>9. PICK k : k = IF j.ok THEN [j EXCEPT !.pc = "lite"] ELSE Idle
    OBVIOUS
  <2>10. /\ k \in Job \cup {Idle} /\ ~Creating(k)
         /\ k # Idle => k.pc = "lite" /\ k.id = j.id /\ k.user = j.user /\ j.ok
    BY <1>0, <2>2, <2>9 DEF Job, Waiting, Creating
  <2>11. k # Idle => (k.pc \in WithId => k.id \in VerIds) /\ HandlerInv(k)'
    BY <1>3, <2>2, <2>3, <2>8, <2>10 DEF HandlerInv, OnRecord, RecordVerification
  <2>12. Goes(h, k)
    BY <1>3, <2>1, <2>9 DEF RecordVerification, Goes
  <2>13. JobInv' /\ FreshInv'
    BY <2>8, <2>10, <2>11, <2>12, JobsKeep
  <2>14. StatusEarned' /\ PhoneProven'
    BY <1>3, <2>8, EarnedKeeps DEF IInv, RecordVerification, PhoneProven
  <2>. QED
    BY <2>8, <2>13, <2>14 DEF Core
<1>4. ASSUME SetLite(h)
      PROVE  Core'
  <2>1. PICK u, i : u = job[h].user /\ i = job[h].id
    OBVIOUS
  <2>2. /\ u \in Users /\ i \in VerIds
        /\ OnRecord(u, "prove", "verified", i) /\ issued[i].verdict = "verified"
    BY <1>4, <2>1, HandlerHas DEF SetLite, Waiting, WithId, Job, HandlerInv
  <2>3. idStatus' = [idStatus EXCEPT ![u] = "Lite"] /\ UNCHANGED <<phoneOk, patched, phoneProof, row, issued>>
    BY <1>4, <2>1 DEF SetLite
  <2>4. StatusEarned'
    BY <2>2, <2>3 DEF IInv, TypeOK, StatusEarned, OnRecord, Decided
  <2>5. Keeps
    BY <2>3, SameKeeps
  <2>6. \A g \in Handlers : Creating(job[g]) => row'[job[g].id] = NoRow
    BY <2>3, HandlerHas DEF Creating, Waiting, HandlerInv
  <2>7. JobInv' /\ FreshInv'
    BY <1>0, <1>4, <2>5, <2>6, JobsKeep DEF SetLite
  <2>8. RowInv' /\ PhoneProven'
    BY <2>3, <2>5, RowsKeep DEF IInv, PhoneProven
  <2>. QED
    BY <2>4, <2>7, <2>8 DEF Core
<1>. QED
  BY <1>1, <1>2, <1>3, <1>4 DEF Prove

\* The rows about to be created are not there yet.
LEMMA NoRowYet ==
  ASSUME IInv, NEW g \in Handlers, Creating(job[g])
  PROVE  row[job[g].id] = NoRow /\ job[g].id \in VerIds
BY HandlerHas DEF Creating, Waiting, WithId, HandlerInv

LEMMA InvSardine ==
  ASSUME IInv, NEW h \in Handlers, Sardine(h)
  PROVE  Core'
<1>. USE DEF userRow, cache, outside
<1>0. Idle.pc \notin WithId \cup {"reputation", "flag"} /\ ~Creating(Idle)
  BY DEF Idle, WithId, Creating
<1>1. ASSUME CountPending(h)
      PROVE  Core'
  <2>1. PICK j : j = NewJob(IF Pending(job[h].user) = {} THEN "url" ELSE "find", job[h].user)
    OBVIOUS
  <2>2. job[h].user \in Users
    BY <1>1, HandlerHas DEF CountPending, Waiting, Job
  <2>3. j \in Job \cup {Idle} /\ j.pc \notin WithId \cup {"reputation", "flag"}
    BY <2>1, <2>2, NewJobType DEF Waiting, NewJob, WithId
  <2>4. Goes(h, j)
    BY <1>1, <2>1 DEF CountPending
  <2>. QED
    BY <1>1, <2>3, <2>4, InvEasyStep DEF CountPending
<1>2. ASSUME FindPending(h)
      PROVE  Core'
  <2>1. PICK j : j = NewJob("delete", job[h].user)
    OBVIOUS
  <2>2. job[h].user \in Users
    BY <1>2, HandlerHas DEF FindPending, Waiting, Job
  <2>3. j \in Job \cup {Idle} /\ j.pc \notin WithId \cup {"reputation", "flag"}
    BY <2>1, <2>2, NewJobType DEF Waiting, NewJob, WithId
  <2>4. Goes(h, j) \/ Goes(h, Idle)
    BY <1>2, <2>1 DEF FindPending
  <2>. QED
    BY <1>0, <1>2, <2>3, <2>4, InvEasyStep DEF FindPending
<1>3. ASSUME DeletePending(h)
      PROVE  Core'
  <2>1. PICK j : j = NewJob("url", job[h].user)
    OBVIOUS
  <2>2. job[h].user \in Users
    BY <1>3, HandlerHas DEF DeletePending, Waiting, Job
  <2>3. j \in Job \cup {Idle} /\ j.pc = "url"
    BY <2>1, <2>2, NewJobType DEF Waiting, NewJob
  <2>4. Goes(h, j)
    BY <1>3, <2>1 DEF DeletePending
  <2>5. \A i \in VerIds : \/ row'[i] = row[i]
                          \/ row'[i] = NoRow /\ row[i].status = "pending"
    BY <1>3 DEF DeletePending, Pending
  <2>6. UNCHANGED <<idStatus, phoneOk, patched, phoneProof, issued>>
    BY <1>3 DEF DeletePending
  <2>7. Keeps
    BY <2>5, <2>6 DEF Keeps
  <2>8. RowInv'
    BY <2>5, <2>6 DEF IInv, RowInv, RowAgrees
  <2>9. \A g \in Handlers : Creating(job[g]) => row'[job[g].id] = NoRow
    BY <2>5, NoRowYet
  <2>10. HandlerInv(j)' /\ ~Creating(j) /\ j.pc \notin WithId
    BY <2>3 DEF HandlerInv, Creating, WithId
  <2>11. JobInv' /\ FreshInv'
    BY <2>3, <2>4, <2>7, <2>9, <2>10, JobsKeep
  <2>12. StatusEarned' /\ PhoneProven'
    BY <2>6, <2>7, EarnedKeeps DEF IInv, PhoneProven
  <2>. QED
    BY <2>8, <2>11, <2>12 DEF Core
<1>4. ASSUME NEW i \in VerIds, GetUrl(h, i)
      PROVE  Core'
  <2>1. job[h] \in Job
    BY <1>4, HandlerHas DEF GetUrl, Waiting
  <2>2. PICK x : x = [by |-> "sardine", user |-> job[h].user, verdict |-> "open"]
    OBVIOUS
  <2>3. PICK j : j = [job[h] EXCEPT !.pc = "create", !.id = i]
    OBVIOUS
  <2>4. j \in Job /\ j.pc = "create" /\ j.id = i /\ j.user = job[h].user
    BY <2>1, <2>3 DEF Job, Waiting
  <2>5. /\ Keeps /\ row'[i] = NoRow /\ issued'[i] = x
        /\ \A g \in Handlers : Creating(job[g]) => row'[job[g].id] = NoRow /\ job[g].id # i
    BY <1>4, <2>2, Issuing DEF GetUrl
  <2>6. HandlerInv(j)'
    BY <2>2, <2>4, <2>5 DEF HandlerInv
  <2>7. Goes(h, j)
    BY <1>4, <2>3 DEF GetUrl, Goes
  <2>8. JobInv' /\ FreshInv'
    BY <2>4, <2>5, <2>6, <2>7, JobsKeep
  <2>9. RowInv' /\ StatusEarned' /\ PhoneProven'
    BY <1>4, <2>5, RowsKeep, EarnedKeeps DEF IInv, GetUrl, PhoneProven
  <2>. QED
    BY <2>8, <2>9 DEF Core
<1>5. ASSUME CreatePending(h)
      PROVE  Core'
  <2>1. PICK r : r = [user |-> job[h].user, provider |-> "sardine", status |-> "pending"]
    OBVIOUS
  <2>2. Creating(job[h]) /\ job[h].user \in Users /\ HandlerInv(job[h])
    BY <1>5, HandlerHas DEF CreatePending, Creating, Waiting, Job
  <2>3. /\ r \in Row /\ r.status = "pending" /\ r.provider = "sardine"
        /\ r.user = issued[job[h].id].user /\ r.provider = issued[job[h].id].by
    BY <1>5, <2>1, <2>2 DEF CreatePending, Row, HandlerInv
  <2>4. row' = [row EXCEPT ![job[h].id] = r] /\ UNCHANGED <<issued, phoneProof>>
    BY <1>5, <2>1 DEF CreatePending
  <2>5. /\ Keeps /\ RowInv'
        /\ \A g \in Handlers : g # h /\ Creating(job[g]) => row'[job[g].id] = NoRow
    BY <2>2, <2>3, <2>4, Recording
  <2>6. JobInv' /\ FreshInv'
    BY <1>0, <1>5, <2>5, JobsKeep DEF CreatePending
  <2>7. StatusEarned' /\ PhoneProven'
    BY <1>5, <2>5, EarnedKeeps DEF IInv, CreatePending, PhoneProven
  <2>. QED
    BY <2>5, <2>6, <2>7 DEF Core
<1>6. ASSUME MarkProcessed(h)
      PROVE  Core'
  <2>1. CASE row[job[h].id] = NoRow
    BY <1>0, <1>6, <2>1, InvEasyStep DEF MarkProcessed
  <2>2. CASE row[job[h].id] # NoRow
    <3>1. PICK i, j : i = job[h].id /\ j = [job[h] EXCEPT !.pc = "tell"]
      OBVIOUS
    <3>2. /\ job[h] \in Job /\ i \in VerIds
          /\ issued[i].by = "sardine" /\ issued[i].user = job[h].user /\ issued[i].verdict # "open"
      BY <1>6, <3>1, HandlerHas DEF MarkProcessed, Waiting, WithId, HandlerInv
    <3>3. j \in Job /\ j.pc = "tell" /\ j.id = i /\ j.user = job[h].user
      BY <3>1, <3>2 DEF Job, Waiting
    <3>4. row[i] \in Row /\ row[i].user = job[h].user /\ row[i].provider = "sardine"
          /\ row[i].status # "verified"
      BY <2>2, <3>1, <3>2 DEF IInv, TypeOK, RowInv, RowAgrees
    <3>5. PICK r : r = [user |-> job[h].user, provider |-> "sardine", status |-> "processed"]
      OBVIOUS
    <3>6. row' = [row EXCEPT ![i].status = "processed"]
      BY <1>6, <2>2, <3>1 DEF MarkProcessed
    <3>7. row'[i] = r /\ \A k \in VerIds : k # i => row'[k] = row[k]
      BY <3>2, <3>4, <3>5, <3>6 DEF IInv, TypeOK, Row
    <3>8. row[i].status = "processed" => row[i] = r
      BY <3>4, <3>5 DEF Row
    <3>9. UNCHANGED <<idStatus, phoneOk, patched, phoneProof, issued>>
      BY <1>6, <2>2 DEF MarkProcessed
    <3>10. Keeps
      BY <3>4, <3>7, <3>8, <3>9 DEF Keeps
    <3>11. RowInv'
      BY <3>2, <3>5, <3>7, <3>9 DEF IInv, RowInv, RowAgrees
    <3>12. HandlerInv(j)' /\ ~Creating(j)
      BY <3>2, <3>3, <3>5, <3>7, <3>9 DEF HandlerInv, OnRecord, Creating
    <3>13. \A g \in Handlers : Creating(job[g]) => row'[job[g].id] = NoRow
      BY <2>2, <3>1, <3>7, NoRowYet
    <3>14. Goes(h, j)
      BY <1>6, <2>2, <3>1 DEF MarkProcessed, Goes
    <3>15. JobInv' /\ FreshInv'
      BY <3>2, <3>3, <3>10, <3>12, <3>13, <3>14, JobsKeep
    <3>16. StatusEarned' /\ PhoneProven'
      BY <3>9, <3>10, EarnedKeeps DEF IInv, PhoneProven
    <3>. QED
      BY <3>11, <3>15, <3>16 DEF Core
  <2>. QED
    BY <2>1, <2>2
<1>7. ASSUME Tell(h)
      PROVE  Core'
  <2>1. PICK j : j = [job[h] EXCEPT !.pc = "verdict"]
    OBVIOUS
  <2>2. job[h] \in Job /\ job[h].id \in VerIds /\ HandlerInv(job[h])
    BY <1>7, HandlerHas DEF Tell, Waiting, WithId
  <2>3. j \in Job /\ j.pc = "verdict" /\ j.id = job[h].id /\ j.user = job[h].user
    BY <2>1, <2>2 DEF Job, Waiting
  <2>4. HandlerInv(j)
    BY <1>7, <2>2, <2>3 DEF Tell, HandlerInv
  <2>5. UNCHANGED <<idStatus, phoneOk, patched, phoneProof, row, issued>> /\ Goes(h, j)
    BY <1>7, <2>1 DEF Tell, Goes
  <2>6. HandlerInv(j)' /\ ~Creating(j)
    BY <2>3, <2>4, <2>5 DEF HandlerInv, OnRecord, Creating
  <2>7. PhoneProven' /\ phoneProof \subseteq phoneProof'
    BY <2>5 DEF IInv, PhoneProven
  <2>. QED
    BY <2>2, <2>3, <2>5, <2>6, <2>7, InvJobStep
<1>8. ASSUME SetVerdict(h)
      PROVE  Core'
  <2>1. PICK u, i : u = job[h].user /\ i = job[h].id
    OBVIOUS
  <2>2. /\ u \in Users /\ i \in VerIds
        /\ OnRecord(u, "sardine", "processed", i) /\ issued[i].verdict # "open"
    BY <1>8, <2>1, HandlerHas DEF SetVerdict, Waiting, WithId, Job, HandlerInv
  <2>3. PICK s : s = RiskLevelToIdVerificationStatusMap(issued[i].verdict)
    OBVIOUS
  <2>4. idStatus' = [idStatus EXCEPT ![u] = s] /\ UNCHANGED <<phoneOk, patched, phoneProof, row, issued>>
    BY <1>8, <2>1, <2>3 DEF SetVerdict
  <2>5. s # "Lite" /\ RiskLevelToIdVerificationStatusMap(issued[i].verdict)' = s
    BY <2>3, <2>4, VerdictType DEF Decided, RiskLevelToIdVerificationStatusMap
  <2>6. StatusEarned'
    <3>1. \A k \in VerIds :
             RiskLevelToIdVerificationStatusMap(issued[k].verdict)'
               = RiskLevelToIdVerificationStatusMap(issued[k].verdict)
      BY <2>4 DEF RiskLevelToIdVerificationStatusMap
    <3>. QED
      BY <2>2, <2>4, <2>5, <3>1 DEF IInv, TypeOK, StatusEarned, OnRecord
  <2>7. Keeps
    BY <2>4, SameKeeps
  <2>8. \A g \in Handlers : Creating(job[g]) => row'[job[g].id] = NoRow
    BY <2>4, NoRowYet
  <2>9. JobInv' /\ FreshInv'
    BY <1>0, <1>8, <2>7, <2>8, JobsKeep DEF SetVerdict
  <2>10. RowInv' /\ PhoneProven'
    BY <2>4, <2>7, RowsKeep DEF IInv, PhoneProven
  <2>. QED
    BY <2>6, <2>9, <2>10 DEF Core
<1>. QED
  BY <1>1, <1>2, <1>3, <1>4, <1>5, <1>6, <1>7, <1>8 DEF Sardine

\* While no handler moves and no row changes, the handlers keep what they have.
LEMMA JobsStay ==
  ASSUME IInv, Keeps, UNCHANGED <<row, job>>
  PROVE  JobInv' /\ FreshInv'
<1>1. ASSUME NEW g \in Handlers, NEW k, k = job[g], k # Idle
      PROVE  (k.pc \in WithId => k.id \in VerIds) /\ HandlerInv(k)'
  <2>1. HandlerInv(k) /\ (k.pc \in WithId => k.id \in VerIds)
    BY <1>1 DEF IInv, JobInv, Busy
  <2>2. Creating(k) => row'[k.id] = NoRow
    BY <2>1 DEF HandlerInv, Creating
  <2>. QED
    BY <2>1, <2>2, HandlerKeeps
<1>2. JobInv'
  BY <1>1 DEF JobInv, Busy, HandlerInv, OnRecord
<1>3. FreshInv'
  BY DEF IInv, FreshInv
<1>. QED
  BY <1>2, <1>3

\* A step that touches nothing the invariant is about.
LEMMA InvSame ==
  ASSUME IInv, UNCHANGED <<userRow, phoneProof, row, issued, job>>
  PROVE  Core'
<1>1. Keeps
  BY SameKeeps
<1>2. JobInv' /\ FreshInv'
  BY <1>1, JobsStay
<1>3. RowInv' /\ StatusEarned' /\ PhoneProven'
  BY <1>1, RowsKeep, EarnedKeeps DEF IInv, PhoneProven, userRow
<1>. QED
  BY <1>2, <1>3 DEF Core

LEMMA InvElsewhere ==
  ASSUME IInv, Elsewhere
  PROVE  Core'
<1>1. ASSUME NEW u \in Users, CacheExpires(u)
      PROVE  Core'
  BY <1>1, InvSame DEF CacheExpires, outside
<1>2. ASSUME NEW i \in VerIds, NEW level \in RiskLevels, SardineDecides(i, level)
      PROVE  Core'
  <2>1. /\ issued[i] \in Issued /\ issued[i].verdict = "open"
        /\ issued' = [issued EXCEPT ![i].verdict = level]
        /\ UNCHANGED <<userRow, phoneProof, row, job>>
    BY <1>2 DEF IInv, TypeOK, SardineDecides, NotIssued
  <2>2. /\ issued'[i].by = issued[i].by /\ issued'[i].user = issued[i].user
        /\ \A k \in VerIds : k # i => issued'[k] = issued[k]
    BY <2>1 DEF IInv, TypeOK, Issued
  <2>3. Keeps
    BY <2>1, <2>2 DEF Keeps
  <2>4. JobInv' /\ FreshInv'
    BY <2>1, <2>3, JobsStay
  <2>5. RowInv' /\ StatusEarned' /\ PhoneProven'
    BY <2>1, <2>3, RowsKeep, EarnedKeeps DEF IInv, PhoneProven, userRow
  <2>. QED
    BY <2>4, <2>5 DEF Core
<1>3. ASSUME NEW i \in VerIds, LinkExpires(i)
      PROVE  Core'
  BY <1>3, InvSame DEF LinkExpires
<1>4. ASSUME NEW u \in Users, NEW s \in IdStatus, NEW ok \in BOOLEAN, SetByHand(u, s, ok)
      PROVE  Core'
  <2>1. /\ UNCHANGED <<phoneProof, row, issued, job>> /\ patched' = patched \cup {u}
        /\ \A w \in Users \ patched' : idStatus'[w] = idStatus[w]
        /\ phoneOk' \ patched' \subseteq phoneOk \ patched
    BY <1>4 DEF SetByHand, outside, IInv, TypeOK
  <2>2. Keeps
    BY <2>1, SameKeeps
  <2>3. JobInv' /\ FreshInv'
    BY <2>1, <2>2, JobsStay
  <2>4. RowInv' /\ StatusEarned' /\ PhoneProven'
    BY <2>1, <2>2, RowsKeep DEF IInv, StatusEarned, PhoneProven, OnRecord
  <2>. QED
    BY <2>3, <2>4 DEF Core
<1>. QED
  BY <1>1, <1>2, <1>3, <1>4 DEF Elsewhere

LEMMA InvNext == IInv /\ [Next]_vars => IInv'
<1>. SUFFICES ASSUME IInv, [Next]_vars PROVE IInv'
  OBVIOUS
<1>1. TypeOK'
  BY TypeNext DEF IInv
<1>2. ASSUME NEW h \in Handlers, Throws(h) PROVE Core'
  <2>1. Idle.pc \notin WithId \cup {"reputation", "flag"}
    BY DEF Idle, WithId
  <2>. QED
    BY <1>2, <2>1, InvEasyStep DEF Throws, userRow, outside
<1>3. ASSUME UNCHANGED vars PROVE Core'
  BY <1>3, InvSame DEF vars, outside
<1>4. Core'
  BY <1>2, <1>3, InvBegin, InvPhone, InvProve, InvSardine, InvElsewhere DEF Next
<1>. QED
  BY <1>1, <1>4 DEF IInv, Core

\* Whatever overlaps and wherever a handler fails, what each handler carries
\* through its awaits is on record.
THEOREM VerificationsInductive == Spec => []IInv
BY InvInit, InvNext, PTL DEF Spec

\* Nobody is Lite, Full, Reviewing or Blocked without a result of Prove or
\* Sardine on record that says so for this very user: neither the deletion of
\* expired links, nor a repeated or overtaken event, nor a crash between the
\* writes of a handler takes that away.
THEOREM StatusesAreEarned == Spec => []StatusEarned
<1>1. IInv => StatusEarned
  BY DEF IInv
<1>. QED
  BY <1>1, VerificationsInductive, PTL

\* isPhoneVerified is only set for a user with a successful check of the phone
\* on record.
THEOREM PhonesAreProven == Spec => []PhoneProven
<1>1. IInv => PhoneProven
  BY DEF IInv
<1>. QED
  BY <1>1, VerificationsInductive, PTL

-----------------------------------------------------------------------------
(***************************************************************************)
(* Handlers that run one at a time                                         *)
(***************************************************************************)

SerialCore == OneAtATime /\ JobsTrue /\ RowsSerial

\* The bodies of GoodLinkReturned and VerdictFinal.
LinksKept ==
  \A u \in Users, i \in VerIds :
    /\ i \notin Pending(u) /\ i \in Pending(u)' => Pending(u) \subseteq expired
    /\ i \in Pending(u) /\ i \notin expired => row'[i] # NoRow

VerdictsKept ==
  \A u \in Users \ patched' : idStatus[u] \in Decided => idStatus'[u] = idStatus[u]

\* What each step has to show.
SerialNext == SerialCore' /\ LinksKept /\ VerdictsKept

LEMMA HasTrue ==
  ASSUME TypeOK, JobsTrue, NEW h \in Handlers, job[h].pc \in Waiting
  PROVE  Busy(h) /\ job[h] \in Job /\ job[h].user \in Users /\ StillTrue(job[h])
BY BusyIsJob DEF JobsTrue, Job

\* One handler moves on as j; another one is only there when one of the two is
\* about to set the flag.
LEMMA OthersTrue ==
  ASSUME TypeOK, OneAtATime, JobsTrue, NEW h \in Handlers, NEW j \in Job \cup {Idle}, Goes(h, j),
         Busy(h) \/ Quiet,
         job[h].pc = "flag" => j = Idle /\ row' = row,
         job[h].pc \in ListenerAt => j = Idle \/ j.pc \in ListenerAt,
         j # Idle => StillTrue(j)'
  PROVE  OneAtATime' /\ JobsTrue'
<1>1. job'[h] = j /\ \A g \in Handlers : g # h => job'[g] = job[g]
  BY DEF Goes, TypeOK
<1>2. \A g \in Handlers : g # h /\ Busy(g) =>
        \/ job[h].pc = "flag" /\ job[g].pc \in ListenerAt
        \/ job[g].pc = "flag" /\ job[h].pc \in ListenerAt
  BY DEF OneAtATime, Quiet
<1>3. Idle.pc \notin ListenerAt \cup {"flag"}
  BY DEF Idle, ListenerAt
<1>4. ASSUME NEW g \in Handlers, g # h, Busy(g)', ~(j = Idle)
      PROVE  job[g].pc = "flag" /\ j.pc \in ListenerAt
  <2>1. Busy(g)
    BY <1>1, <1>4 DEF Busy
  <2>. QED
    BY <1>2, <1>4, <2>1 DEF ListenerAt
<1>5. OneAtATime'
  <2> SUFFICES ASSUME NEW f \in Handlers, NEW g \in Handlers, f # g, Busy(f)', Busy(g)'
               PROVE  \/ job'[f].pc = "flag" /\ job'[g].pc \in ListenerAt
                      \/ job'[g].pc = "flag" /\ job'[f].pc \in ListenerAt
    BY DEF OneAtATime
  <2>1. CASE f = h
    BY <1>1, <1>4, <2>1 DEF Busy
  <2>2. CASE g = h
    BY <1>1, <1>4, <2>2 DEF Busy
  <2>3. CASE f # h /\ g # h
    BY <1>1, <2>3 DEF Busy, OneAtATime
  <2>. QED
    BY <2>1, <2>2, <2>3
<1>6. ASSUME NEW g \in Handlers, Busy(g)', NEW k, k = job'[g]
      PROVE  StillTrue(k)'
  <2>1. CASE g = h
    BY <1>1, <1>6, <2>1 DEF Busy
  <2>2. CASE g # h
    <3>1. Busy(g) /\ k = job[g] /\ StillTrue(k)
      BY <1>1, <1>6, <2>2 DEF Busy, JobsTrue
    <3>2. CASE k.pc = "flag"
      BY <3>2 DEF StillTrue, ProveWay, SardineWay, ListenerAt
    <3>3. CASE k.pc \in ListenerAt
      <4>1. row' = row
        BY <1>2, <2>2, <3>1, <3>3 DEF ListenerAt
      <4>. QED
        BY <3>1, <3>3, <4>1 DEF StillTrue, ProveWay, SardineWay, ListenerAt, RowsOf
    <3>. QED
      BY <1>2, <2>2, <3>1, <3>2, <3>3
  <2>. QED
    BY <2>1, <2>2
<1>7. JobsTrue'
  BY <1>6 DEF JobsTrue, StillTrue, Busy, RowsOf, Pending
<1>. QED
  BY <1>5, <1>7

\* A step that leaves the rows alone, and the status of whoever is not patched.
LEMMA SameRows ==
  ASSUME RowsSerial, UNCHANGED <<row, told>>, patched \subseteq patched',
         \A u \in Users \ patched' : idStatus'[u] = idStatus[u]
  PROVE  RowsSerial' /\ LinksKept /\ VerdictsKept
<1>1. \A u : Pending(u)' = Pending(u)
  BY DEF Pending, RowsOf
<1>2. \A u : \A i \in Pending(u) : row[i] # NoRow
  BY DEF Pending, RowsOf, NoRow
<1>3. RowsSerial'
  BY <1>1 DEF RowsSerial
<1>. QED
  BY <1>1, <1>2, <1>3 DEF LinksKept, VerdictsKept

\* A step that only moves a handler on.
LEMMA SerialMove ==
  ASSUME TypeOK, SerialCore, NEW h \in Handlers, NEW j \in Job \cup {Idle}, Goes(h, j),
         Busy(h) \/ Quiet,
         job[h].pc = "flag" => j = Idle,
         job[h].pc \in ListenerAt => j = Idle \/ j.pc \in ListenerAt,
         j # Idle => StillTrue(j),
         UNCHANGED <<idStatus, patched, row, told, expired>>
  PROVE  SerialNext
<1>1. StillTrue(j) => StillTrue(j)'
  BY DEF StillTrue, RowsOf, Pending
<1>2. OneAtATime' /\ JobsTrue'
  BY <1>1, OthersTrue DEF SerialCore
<1>3. RowsSerial' /\ LinksKept /\ VerdictsKept
  BY SameRows DEF SerialCore
<1>. QED
  BY <1>2, <1>3 DEF SerialNext, SerialCore

\* Where a handler waits on neither way nothing is asked for.
LEMMA EasyTrue ==
  ASSUME NEW j, j.pc \notin ProveWay \cup SardineWay
  PROVE  StillTrue(j)
BY DEF StillTrue, ProveWay, SardineWay, ListenerAt

LEMMA SerialBegin ==
  ASSUME "overlap" \notin Env, IInv, SerialCore, NEW h \in Handlers, Begin(h)
  PROVE  SerialNext
<1>. USE DEF userRow, cache, outside
<1>0. TypeOK /\ RowInv /\ Quiet /\ job[h] = Idle /\ job[h].pc = "idle"
  <2>1. MayStart(h)
    BY DEF Begin, Start, OtpFinish, ProveFinish, AskUrl, EventArrives
  <2>2. Quiet /\ job[h] = Idle
    BY <2>1 DEF MayStart, Busy
  <2>. QED
    BY <2>2 DEF IInv, Idle
<1>1. ASSUME NEW j \in Job \cup {Idle}, Goes(h, j), j # Idle => StillTrue(j),
             UNCHANGED <<idStatus, patched, row, told, expired>>
      PROVE  SerialNext
  BY <1>0, <1>1, SerialMove DEF ListenerAt
<1>2. ASSUME NEW u \in Users, NEW isUsPhone \in BOOLEAN, Start(h, u, isUsPhone)
      PROVE  SerialNext
  <2>1. NewJob("code", u) \in Job /\ StillTrue(NewJob("code", u))
    BY NewJobType DEF Waiting, StillTrue, NewJob, ProveWay, SardineWay, ListenerAt
  <2>2. PICK j : j = IF isUsPhone THEN Idle ELSE NewJob("code", u)
    OBVIOUS
  <2>3. j \in Job \cup {Idle} /\ (j # Idle => StillTrue(j))
    BY <2>1, <2>2
  <2>. QED
    BY <1>1, <1>2, <2>2, <2>3 DEF Start
<1>3. ASSUME NEW u \in Users, NEW otp \in Passwords, OtpFinish(h, u, otp)
      PROVE  SerialNext
  <2>1. PICK j : j = [NewJob("otpRow", u) EXCEPT !.ok = verify(u, otp)]
    OBVIOUS
  <2>2. j \in Job /\ j.pc = "otpRow"
    BY <2>1 DEF verify, Waiting, NewJob, Job
  <2>3. StillTrue(j)
    BY <2>2, EasyTrue DEF ProveWay, SardineWay, ListenerAt
  <2>. QED
    BY <1>1, <1>3, <2>1, <2>2, <2>3 DEF OtpFinish
<1>4. ASSUME NEW u \in Users, ProveFinish(h, u)
      PROVE  SerialNext
  <2>1. NewJob("rows", u) \in Job /\ StillTrue(NewJob("rows", u))
    BY NewJobType DEF Waiting, StillTrue, NewJob, ProveWay, SardineWay, ListenerAt
  <2>. QED
    BY <1>1, <1>4, <2>1 DEF ProveFinish
<1>5. ASSUME NEW u \in Users, AskUrl(h, u)
      PROVE  SerialNext
  <2>1. PICK j : j = NewJob("count", u)
    OBVIOUS
  <2>2. j \in Job /\ j.pc = "count" /\ j.user = u
    BY <2>1, NewJobType DEF Waiting, NewJob
  <2>3. StillTrue(j)
    BY <1>5, <2>2 DEF AskUrl, StillTrue, ProveWay, ListenerAt
  <2>. QED
    BY <1>1, <1>5, <2>1, <2>2, <2>3 DEF AskUrl
<1>6. ASSUME NEW i \in VerIds, EventArrives(h, i)
      PROVE  SerialNext
  <2>1. PICK j : j = IF row[i] # NoRow /\ row[i].status = "pending"
                     THEN [NewJob("mark", row[i].user) EXCEPT !.id = i] ELSE Idle
    OBVIOUS
  <2>2. Goes(h, j) /\ UNCHANGED <<idStatus, patched, row, told, expired>>
    BY <1>6, <2>1 DEF EventArrives
  <2>3. CASE j = Idle
    BY <1>1, <2>2, <2>3
  <2>4. CASE row[i] # NoRow /\ row[i].status = "pending"
    <3>1. /\ row[i] \in Row /\ row[i].user \in Users /\ row[i].provider = "sardine"
          /\ i \in Pending(row[i].user)
      BY <1>0, <2>4 DEF TypeOK, Row, RowInv, RowAgrees, Pending, RowsOf
    <3>2. j \in Job /\ j.pc = "mark" /\ j.user = row[i].user /\ j.id = i
      BY <2>1, <2>4, <3>1 DEF Waiting, NewJob, Job
    <3>3. j.user \notin patched => idStatus[j.user] \notin Decided
      BY <3>1, <3>2 DEF SerialCore, RowsSerial
    <3>4. StillTrue(j)
      BY <3>1, <3>2, <3>3 DEF StillTrue, ProveWay, ListenerAt
    <3>. QED
      BY <1>1, <2>2, <3>2, <3>4
  <2>. QED
    BY <2>1, <2>3, <2>4
<1>. QED
  BY <1>2, <1>3, <1>4, <1>5, <1>6 DEF Begin

LEMMA SerialPhone ==
  ASSUME "overlap" \notin Env, IInv, SerialCore, NEW h \in Handlers, Phone(h)
  PROVE  SerialNext
<1>. USE DEF userRow, cache, outside
<1>0. TypeOK /\ OneAtATime /\ JobsTrue /\ RowsSerial /\ Idle.pc = "idle"
  BY DEF IInv, SerialCore, Idle
<1>1. ASSUME NEW at \in Waiting \ ({"flag"} \cup ListenerAt), job[h].pc = at,
             NEW j \in Job \cup {Idle}, Goes(h, j), j # Idle => StillTrue(j),
             UNCHANGED <<idStatus, patched, row, told, expired>>
      PROVE  SerialNext
  BY <1>0, <1>1, HasTrue, SerialMove
<1>2. ASSUME SendCode(h)
      PROVE  SerialNext
  BY <1>1, <1>2 DEF SendCode, Waiting, ListenerAt
<1>3. ASSUME CheckRows(h)
      PROVE  SerialNext
  <2>1. PICK u : u = job[h].user
    OBVIOUS
  <2>2. u \in Users /\ job[h].pc = "rows"
    BY <1>0, <1>3, <2>1, HasTrue DEF CheckRows, Waiting
  <2>3. NewJob("link", u) \in Job /\ (RowsOf(u) = {} => StillTrue(NewJob("link", u)))
    BY <2>2, NewJobType DEF Waiting, StillTrue, NewJob, SardineWay
  <2>4. PICK j : j = IF RowsOf(u) = {} THEN NewJob("link", u) ELSE Idle
    OBVIOUS
  <2>5. j \in Job \cup {Idle} /\ (j # Idle => StillTrue(j))
    BY <2>3, <2>4
  <2>. QED
    BY <1>1, <1>3, <2>1, <2>2, <2>4, <2>5 DEF CheckRows, Waiting, ListenerAt
<1>4. ASSUME NEW yes \in BOOLEAN, CheckPhoneVerified(h, yes)
      PROVE  SerialNext
  <2>1. job[h].pc = "link" /\ job[h] \in Job /\ StillTrue(job[h])
    BY <1>0, <1>4, HasTrue DEF CheckPhoneVerified, Waiting
  <2>2. PICK j : j = [job[h] EXCEPT !.pc = "proveRow", !.ok = yes]
    OBVIOUS
  <2>3. j \in Job /\ j.pc = "proveRow" /\ j.user = job[h].user
    BY <2>1, <2>2 DEF Job, Waiting
  <2>4. StillTrue(j)
    BY <2>1, <2>3 DEF StillTrue, ProveWay, SardineWay
  <2>. QED
    BY <1>1, <1>4, <2>1, <2>2, <2>3, <2>4 DEF CheckPhoneVerified, Waiting, ListenerAt
<1>5. ASSUME CreatePhoneRow(h)
      PROVE  SerialNext
  <2>1. PICK u : u = job[h].user
    OBVIOUS
  <2>2. job[h].pc \in {"otpRow", "proveRow"} /\ u \in Users /\ StillTrue(job[h])
    BY <1>0, <1>5, <2>1, HasTrue DEF CreatePhoneRow, Waiting
  <2>3. NewJob("flag", u) \in Job /\ StillTrue(NewJob("flag", u))
    BY <2>2, NewJobType DEF Waiting, StillTrue, NewJob, ProveWay, SardineWay, ListenerAt
  <2>4. /\ NewJob("reputation", u) \in Job
        /\ job[h].pc = "proveRow" => StillTrue(NewJob("reputation", u))
    BY <2>1, <2>2, NewJobType DEF Waiting, StillTrue, NewJob, ProveWay, SardineWay
  <2>5. PICK j : /\ j \in {Idle, NewJob(IF job[h].pc = "otpRow" THEN "flag" ELSE "reputation", u)}
                 /\ Goes(h, j)
    BY <1>5, <2>1 DEF CreatePhoneRow
  <2>6. j \in Job \cup {Idle} /\ (j # Idle => StillTrue(j))
    BY <2>2, <2>3, <2>4, <2>5
  <2>. QED
    BY <1>1, <1>5, <2>2, <2>5, <2>6 DEF CreatePhoneRow, Waiting, ListenerAt
<1>6. ASSUME BadReputation(h)
      PROVE  SerialNext
  <2>1. PICK u : u = job[h].user
    OBVIOUS
  <2>2. u \in Users /\ job[h].pc = "reputation"
    BY <1>0, <1>6, <2>1, HasTrue DEF BadReputation, Waiting
  <2>3. NewJob("flag", u) \in Job /\ StillTrue(NewJob("flag", u))
    BY <2>2, NewJobType DEF Waiting, StillTrue, NewJob, ProveWay, SardineWay, ListenerAt
  <2>. QED
    BY <1>1, <1>6, <2>1, <2>2, <2>3 DEF BadReputation, Waiting, ListenerAt
<1>7. ASSUME NEW l \in Handlers, GoodReputation(h, l)
      PROVE  SerialNext
  <2>1. PICK u, j, k : u = job[h].user /\ j = NewJob("flag", u) /\ k = NewJob("verify", u)
    OBVIOUS
  <2>2. /\ job[h].pc = "reputation" /\ Busy(h) /\ u \in Users /\ StillTrue(job[h]) /\ ~Busy(l)
        /\ UNCHANGED <<idStatus, patched, row, told, expired>>
    BY <1>0, <1>7, <2>1, HasTrue DEF GoodReputation, Waiting
  <2>3. \A g \in Handlers : g # h => ~Busy(g)
    BY <1>0, <2>2 DEF OneAtATime, ListenerAt
  <2>4. j.pc = "flag" /\ k.pc = "verify" /\ k.user = u
    BY <2>1 DEF NewJob
  <2>5. \A g \in Handlers : job'[g] = IF g = l THEN k ELSE IF g = h THEN j ELSE job[g]
    BY <1>0, <1>7, <2>1 DEF GoodReputation, TypeOK
  <2>6. \A g \in Handlers : Busy(g)' => g \in {h, l}
    BY <2>3, <2>5 DEF Busy
  <2>7. OneAtATime'
    BY <2>4, <2>5, <2>6 DEF OneAtATime, ListenerAt
  <2>8. StillTrue(j) /\ StillTrue(k)
    BY <2>1, <2>2, <2>4 DEF StillTrue, ProveWay, SardineWay, ListenerAt
  <2>9. StillTrue(j)' /\ StillTrue(k)'
    BY <2>2, <2>8 DEF StillTrue, RowsOf, Pending
  <2>10. ASSUME NEW g \in Handlers, Busy(g)', NEW m, m = job'[g] PROVE StillTrue(m)'
    BY <2>5, <2>6, <2>9, <2>10
  <2>11. JobsTrue'
    BY <2>10 DEF JobsTrue, StillTrue, Busy, RowsOf, Pending
  <2>12. RowsSerial' /\ LinksKept /\ VerdictsKept
    BY <1>0, <2>2, SameRows
  <2>. QED
    BY <2>7, <2>11, <2>12 DEF SerialNext, SerialCore
<1>8. ASSUME SetPhoneVerified(h)
      PROVE  SerialNext
  <2>1. job[h].pc = "flag" /\ Busy(h)
    BY <1>0, <1>8, HasTrue DEF SetPhoneVerified, Waiting
  <2>. QED
    BY <1>0, <1>8, <2>1, SerialMove DEF SetPhoneVerified, SerialCore, ListenerAt
<1>. QED
  BY <1>2, <1>3, <1>4, <1>5, <1>6, <1>7, <1>8 DEF Phone

LEMMA SerialProve ==
  ASSUME "overlap" \notin Env, IInv, SerialCore, NEW h \in Handlers, Prove(h)
  PROVE  SerialNext
<1>. USE DEF userRow, cache, outside
<1>0. TypeOK /\ OneAtATime /\ JobsTrue /\ RowsSerial /\ Idle.pc = "idle"
  BY DEF IInv, SerialCore, Idle
<1>1. job[h].pc \in ListenerAt /\ Busy(h) /\ job[h] \in Job /\ StillTrue(job[h])
  <2>1. job[h].pc \in ListenerAt
    BY DEF Prove, ProveAborts, ProveVerifies, RecordVerification, SetLite, ListenerAt
  <2>2. job[h].pc \in Waiting
    BY <2>1 DEF ListenerAt, Waiting
  <2>. QED
    BY <1>0, <2>1, <2>2, HasTrue
<1>2. ASSUME ProveAborts(h)
      PROVE  SerialNext
  BY <1>0, <1>1, <1>2, SerialMove DEF ProveAborts, SerialCore, ListenerAt
<1>3. ASSUME NEW i \in VerIds, NEW v \in {"verified", "unverified"}, ProveVerifies(h, i, v)
      PROVE  SerialNext
  <2>1. PICK j : j = [job[h] EXCEPT !.pc = "record", !.id = i, !.ok = (v = "verified")]
    OBVIOUS
  <2>2. j \in Job /\ j.pc = "record" /\ j.user = job[h].user
    BY <1>1, <2>1 DEF Job, Waiting
  <2>3. StillTrue(j)
    BY <1>1, <2>2 DEF StillTrue, ProveWay, SardineWay, ListenerAt
  <2>. QED
    BY <1>0, <1>1, <1>3, <2>1, <2>2, <2>3, SerialMove DEF ProveVerifies, SerialCore, ListenerAt
<1>4. ASSUME RecordVerification(h)
      PROVE  SerialNext
  <2>1. PICK i, r, j : /\ i = job[h].id /\ j = IF job[h].ok THEN [job[h] EXCEPT !.pc = "lite"] ELSE Idle
                       /\ r = [user |-> job[h].user, provider |-> "prove",
                               status |-> IF job[h].ok THEN "verified" ELSE "unverified"]
    OBVIOUS
  <2>2. /\ Goes(h, j) /\ row' = [row EXCEPT ![i] = r] /\ job[h].pc = "record"
        /\ UNCHANGED <<idStatus, patched, told, expired>>
    BY <1>4, <2>1 DEF RecordVerification
  <2>3. i \in VerIds /\ row[i] = NoRow
    BY <2>1, <2>2, HandlerHas DEF HandlerInv, WithId, Waiting
  <2>4. row'[i] = r /\ \A k \in VerIds : k # i => row'[k] = row[k]
    BY <1>0, <2>2, <2>3 DEF TypeOK
  <2>5. /\ r.provider = "prove" /\ row[i].provider = "none" /\ row[i].status = "none"
        /\ r # NoRow
    BY <2>1, <2>3 DEF NoRow
  <2>6. \A u : Pending(u)' = Pending(u)
    BY <2>4, <2>5 DEF Pending, RowsOf
  <2>7. j \in Job \cup {Idle} /\ (j # Idle => j.pc = "lite" /\ j.user = job[h].user)
    BY <1>1, <2>1 DEF Job, Waiting
  <2>8. j # Idle => StillTrue(j)'
    BY <1>1, <2>4, <2>5, <2>7 DEF StillTrue, ProveWay, SardineWay, ListenerAt, RowsOf
  <2>9. OneAtATime' /\ JobsTrue'
    BY <1>0, <1>1, <2>2, <2>7, <2>8, OthersTrue DEF ListenerAt
  <2>10. RowsSerial'
    BY <1>0, <2>2, <2>4, <2>5, <2>6 DEF RowsSerial
  <2>11. LinksKept /\ VerdictsKept
    <3>1. \A u : \A k \in Pending(u) : row'[k] # NoRow
      BY <2>4, <2>5 DEF Pending, RowsOf, NoRow
    <3>. QED
      BY <2>2, <2>6, <3>1 DEF LinksKept, VerdictsKept
  <2>. QED
    BY <2>9, <2>10, <2>11 DEF SerialNext, SerialCore
<1>5. ASSUME SetLite(h)
      PROVE  SerialNext
  <2>1. PICK u : u = job[h].user
    OBVIOUS
  <2>2. /\ Goes(h, Idle) /\ idStatus' = [idStatus EXCEPT ![u] = "Lite"] /\ job[h].pc = "lite"
        /\ UNCHANGED <<row, patched, told, expired>>
    BY <1>5, <2>1 DEF SetLite
  <2>3. OneAtATime' /\ JobsTrue'
    BY <1>0, <1>1, <2>2, OthersTrue DEF ListenerAt
  <2>4. u \in Users \ patched => idStatus[u] \notin Decided
    <3>1. \A i \in RowsOf(u) : row[i].provider = "prove"
      BY <1>1, <2>1, <2>2 DEF StillTrue, ProveWay, ListenerAt
    <3>2. \A i \in VerIds : ~OnRecord(u, "sardine", "processed", i)
      BY <3>1 DEF OnRecord, RowsOf
    <3>. QED
      BY <3>2 DEF IInv, StatusEarned
  <2>5. "Lite" \notin Decided
    BY DEF Decided
  <2>6. \A w \in Users \ patched : /\ idStatus[w] \in Decided => idStatus'[w] = idStatus[w]
                                   /\ idStatus'[w] \in Decided => idStatus'[w] = idStatus[w]
    BY <1>0, <2>2, <2>4, <2>5 DEF TypeOK
  <2>7. (\A w : Pending(w)' = Pending(w)) /\ \A w : \A i \in Pending(w) : row[i] # NoRow
    BY <2>2 DEF Pending, RowsOf, NoRow
  <2>8. RowsSerial' /\ LinksKept /\ VerdictsKept
    BY <1>0, <2>2, <2>6, <2>7 DEF RowsSerial, LinksKept, VerdictsKept
  <2>. QED
    BY <2>3, <2>8 DEF SerialNext, SerialCore
<1>. QED
  BY <1>2, <1>3, <1>4, <1>5 DEF Prove

LEMMA SerialSardine ==
  ASSUME "overlap" \notin Env, IInv, SerialCore, NEW h \in Handlers, Sardine(h)
  PROVE  SerialNext
<1>. USE DEF userRow, cache, outside
<1>0. TypeOK /\ OneAtATime /\ JobsTrue /\ RowsSerial /\ Idle.pc = "idle"
  BY DEF IInv, SerialCore, Idle
<1>1. PICK u, i : u = job[h].user /\ i = job[h].id
  OBVIOUS
<1>2. /\ job[h].pc \in SardineWay /\ Busy(h) /\ job[h] \in Job /\ StillTrue(job[h]) /\ u \in Users
      /\ HandlerInv(job[h]) /\ (job[h].pc \in WithId => i \in VerIds)
  <2>1. job[h].pc \in SardineWay
    BY DEF Sardine, CountPending, FindPending, DeletePending, GetUrl, CreatePending, MarkProcessed,
           Tell, SetVerdict, SardineWay
  <2>2. job[h].pc \in Waiting
    BY <2>1 DEF SardineWay, Waiting
  <2>. QED
    BY <1>0, <1>1, <2>1, <2>2, HasTrue, HandlerHas
<1>3. job[h].pc \notin ListenerAt \cup {"flag"} /\ (u \notin patched => idStatus[u] \notin Decided)
  BY <1>1, <1>2 DEF SardineWay, ListenerAt, StillTrue
<1>4. ASSUME NEW j \in Job \cup {Idle}, Goes(h, j), j # Idle => StillTrue(j),
             UNCHANGED <<idStatus, patched, row, told, expired>>
      PROVE  SerialNext
  BY <1>0, <1>2, <1>3, <1>4, SerialMove DEF SerialCore
<1>5. ASSUME NEW j \in Job \cup {Idle}, Goes(h, j), j # Idle => StillTrue(j)'
      PROVE  OneAtATime' /\ JobsTrue'
  BY <1>0, <1>2, <1>3, <1>5, OthersTrue
<1>6. ASSUME CountPending(h)
      PROVE  SerialNext
  <2>1. PICK j : j = NewJob(IF Pending(u) = {} THEN "url" ELSE "find", u)
    OBVIOUS
  <2>2. /\ j \in Job /\ j.pc \in {"url", "find"} /\ j.user = u
        /\ j.pc = "url" => Pending(u) = {}
    BY <1>2, <2>1, NewJobType DEF Waiting, NewJob
  <2>3. StillTrue(j)
    BY <1>3, <2>2 DEF StillTrue, ProveWay, ListenerAt
  <2>. QED
    BY <1>1, <1>4, <1>6, <2>1, <2>2, <2>3 DEF CountPending
<1>7. ASSUME FindPending(h)
      PROVE  SerialNext
  <2>1. PICK j : j = NewJob("delete", u)
    OBVIOUS
  <2>2. j \in Job /\ j.pc = "delete" /\ j.user = u
    BY <1>2, <2>1, NewJobType DEF Waiting, NewJob
  <2>3. ASSUME NEW k \in Pending(u), k \in expired PROVE StillTrue(j)
    <3>1. Pending(u) \subseteq expired
      BY <1>0, <1>2, <2>3 DEF RowsSerial
    <3>. QED
      BY <1>3, <2>2, <3>1 DEF StillTrue, ProveWay, ListenerAt
  <2>4. Goes(h, Idle) \/ (Goes(h, j) /\ \E k \in Pending(u) : k \in expired)
    BY <1>1, <1>7, <2>1 DEF FindPending
  <2>5. UNCHANGED <<idStatus, patched, row, told, expired>>
    BY <1>7 DEF FindPending
  <2>. QED
    BY <1>4, <2>2, <2>3, <2>4, <2>5
<1>8. ASSUME DeletePending(h)
      PROVE  SerialNext
  <2>1. PICK j : j = NewJob("url", u)
    OBVIOUS
  <2>2. /\ j \in Job /\ j.pc = "url" /\ j.user = u
    BY <1>2, <2>1, NewJobType DEF Waiting, NewJob
  <2>3. /\ Goes(h, j) /\ job[h].pc = "delete" /\ UNCHANGED <<idStatus, patched, told, expired>>
        /\ \A k \in VerIds : row'[k] = IF k \in Pending(u) THEN NoRow ELSE row[k]
    BY <1>1, <1>8, <2>1 DEF DeletePending
  <2>4. Pending(u)' = {} /\ \A w \in Users : Pending(w)' \subseteq Pending(w)
    BY <2>3 DEF Pending, RowsOf, NoRow
  <2>5. StillTrue(j)'
    BY <1>3, <2>2, <2>3, <2>4 DEF StillTrue, ProveWay, ListenerAt
  <2>6. OneAtATime' /\ JobsTrue'
    BY <1>5, <2>2, <2>3, <2>5
  <2>7. \A k \in Pending(u) : row[k].status = "pending" /\ row[k].user = u /\ k \in expired
    BY <1>1, <1>2, <2>3 DEF Pending, RowsOf, StillTrue
  <2>8. RowsSerial'
    BY <1>0, <2>3, <2>4, <2>7 DEF RowsSerial
  <2>9. LinksKept /\ VerdictsKept
    <3>1. \A w : \A k \in Pending(w) : k \in VerIds /\ row[k] # NoRow
      BY DEF Pending, RowsOf, NoRow
    <3>. QED
      BY <2>3, <2>4, <2>7, <3>1 DEF LinksKept, VerdictsKept
  <2>. QED
    BY <2>6, <2>8, <2>9 DEF SerialNext, SerialCore
<1>9. ASSUME NEW k \in VerIds, GetUrl(h, k)
      PROVE  SerialNext
  <2>1. PICK j : j = [job[h] EXCEPT !.pc = "create", !.id = k]
    OBVIOUS
  <2>2. j \in Job /\ j.pc = "create" /\ j.user = u /\ Pending(u) = {}
    BY <1>1, <1>2, <1>9, <2>1 DEF GetUrl, Job, Waiting, StillTrue
  <2>3. StillTrue(j)
    BY <1>3, <2>2 DEF StillTrue, ProveWay, ListenerAt
  <2>. QED
    BY <1>4, <1>9, <2>1, <2>2, <2>3 DEF GetUrl
<1>10. ASSUME CreatePending(h)
       PROVE  SerialNext
  <2>1. PICK r : r = [user |-> u, provider |-> "sardine", status |-> "pending"]
    OBVIOUS
  <2>2. /\ Goes(h, Idle) /\ row' = [row EXCEPT ![i] = r] /\ job[h].pc = "create"
        /\ UNCHANGED <<idStatus, patched, told, expired>>
    BY <1>1, <1>10, <2>1 DEF CreatePending
  <2>3. i \in VerIds /\ row[i] = NoRow /\ Pending(u) = {}
    BY <1>1, <1>2, <2>2 DEF HandlerInv, WithId, StillTrue
  <2>4. row'[i] = r /\ \A k \in VerIds : k # i => row'[k] = row[k]
    BY <1>0, <2>2, <2>3 DEF TypeOK
  <2>5. /\ Pending(u)' = {i} /\ (\A w \in Users : w # u => Pending(w)' = Pending(w))
    BY <2>1, <2>3, <2>4 DEF Pending, RowsOf, NoRow
  <2>6. OneAtATime' /\ JobsTrue'
    BY <1>5, <2>2
  <2>7. RowsSerial'
    <3>1. told[i] = 0
      BY <1>0, <2>3 DEF RowsSerial, NoRow
    <3>. QED
      BY <1>0, <1>3, <2>2, <2>4, <2>5, <3>1 DEF RowsSerial
  <2>8. LinksKept /\ VerdictsKept
    <3>1. \A w : \A k \in Pending(w) : k \in VerIds /\ row[k] # NoRow
      BY DEF Pending, RowsOf, NoRow
    <3>. QED
      BY <2>2, <2>3, <2>4, <2>5, <3>1 DEF LinksKept, VerdictsKept
  <2>. QED
    BY <2>6, <2>7, <2>8 DEF SerialNext, SerialCore
<1>11. ASSUME MarkProcessed(h)
       PROVE  SerialNext
  <2>1. job[h].pc = "mark" /\ i \in Pending(u) /\ i \in VerIds
    BY <1>1, <1>2, <1>11 DEF MarkProcessed, StillTrue, WithId
  <2>2. row[i] \in Row /\ row[i] # NoRow /\ row[i].status = "pending" /\ row[i].user = u
    BY <1>0, <2>1 DEF TypeOK, Pending, RowsOf, NoRow
  <2>3. PICK j : j = [job[h] EXCEPT !.pc = "tell"]
    OBVIOUS
  <2>4. j \in Job /\ j.pc = "tell" /\ j.user = u /\ j.id = i
    BY <1>1, <1>2, <2>3 DEF Job, Waiting
  <2>5. /\ Goes(h, j) /\ row' = [row EXCEPT ![i].status = "processed"]
        /\ UNCHANGED <<idStatus, patched, told, expired>>
    BY <1>1, <1>11, <2>2, <2>3 DEF MarkProcessed
  <2>6. /\ row'[i].status = "processed" /\ row'[i] # NoRow
        /\ \A k \in VerIds : k # i => row'[k] = row[k]
    BY <1>0, <2>1, <2>2, <2>5 DEF TypeOK, Row, NoRow
  <2>7. \A w \in Users : Pending(w)' = Pending(w) \ {i}
    <3>1. \A w \in Users, k \in VerIds : k \in Pending(w)' <=> k \in Pending(w) /\ k # i
      BY <2>6 DEF Pending, RowsOf
    <3>. QED
      BY <3>1 DEF Pending, RowsOf
  <2>8. Pending(u)' = {}
    BY <1>0, <1>2, <2>1, <2>7 DEF RowsSerial
  <2>9. told[i] = 0
    BY <1>0, <2>1, <2>2 DEF RowsSerial
  <2>10. StillTrue(j)'
    BY <1>3, <2>4, <2>5, <2>8, <2>9 DEF StillTrue, ProveWay, ListenerAt
  <2>11. OneAtATime' /\ JobsTrue'
    BY <1>5, <2>4, <2>5, <2>10
  <2>12. RowsSerial'
    BY <1>0, <2>5, <2>6, <2>7 DEF RowsSerial
  <2>13. LinksKept /\ VerdictsKept
    <3>1. \A w : \A k \in Pending(w) : k \in VerIds /\ row[k] # NoRow
      BY DEF Pending, RowsOf, NoRow
    <3>. QED
      BY <2>5, <2>6, <2>7, <3>1 DEF LinksKept, VerdictsKept
  <2>. QED
    BY <2>11, <2>12, <2>13 DEF SerialNext, SerialCore
<1>12. ASSUME Tell(h)
       PROVE  SerialNext
  <2>1. /\ job[h].pc = "tell" /\ i \in VerIds /\ row[i].status = "processed" /\ told[i] = 0
        /\ Pending(u) = {}
    BY <1>1, <1>2, <1>12 DEF Tell, HandlerInv, OnRecord, WithId, StillTrue
  <2>2. PICK j : j = [job[h] EXCEPT !.pc = "verdict"]
    OBVIOUS
  <2>3. j \in Job /\ j.pc = "verdict" /\ j.user = u
    BY <1>1, <1>2, <2>2 DEF Job, Waiting
  <2>4. /\ Goes(h, j) /\ told' = [told EXCEPT ![i] = @ + 1]
        /\ UNCHANGED <<idStatus, patched, row, expired>>
    BY <1>1, <1>12, <2>2 DEF Tell
  <2>5. told'[i] = 1 /\ \A k \in VerIds : k # i => told'[k] = told[k]
    BY <1>0, <2>1, <2>4 DEF TypeOK
  <2>6. \A w : Pending(w)' = Pending(w)
    BY <2>4 DEF Pending, RowsOf
  <2>7. StillTrue(j)'
    BY <1>3, <2>1, <2>3, <2>4, <2>6 DEF StillTrue, ProveWay, ListenerAt
  <2>8. OneAtATime' /\ JobsTrue'
    BY <1>5, <2>3, <2>4, <2>7
  <2>9. RowsSerial'
    BY <1>0, <2>1, <2>4, <2>5, <2>6 DEF RowsSerial
  <2>10. LinksKept /\ VerdictsKept
    <3>1. \A w : \A k \in Pending(w) : row[k] # NoRow
      BY DEF Pending, RowsOf, NoRow
    <3>. QED
      BY <2>4, <2>6, <3>1 DEF LinksKept, VerdictsKept
  <2>. QED
    BY <2>8, <2>9, <2>10 DEF SerialNext, SerialCore
<1>13. ASSUME SetVerdict(h)
       PROVE  SerialNext
  <2>1. PICK s : s = RiskLevelToIdVerificationStatusMap(issued[i].verdict)
    OBVIOUS
  <2>2. /\ Goes(h, Idle) /\ idStatus' = [idStatus EXCEPT ![u] = s]
        /\ UNCHANGED <<row, patched, told, expired>> /\ Pending(u) = {}
    BY <1>1, <1>2, <1>13, <2>1 DEF SetVerdict, StillTrue
  <2>3. \A w \in Users : w # u => idStatus'[w] = idStatus[w]
    BY <1>0, <2>2 DEF TypeOK
  <2>4. OneAtATime' /\ JobsTrue'
    BY <1>5, <2>2
  <2>5. (\A w : Pending(w)' = Pending(w)) /\ \A w : \A k \in Pending(w) : row[k] # NoRow
    BY <2>2 DEF Pending, RowsOf, NoRow
  <2>6. RowsSerial'
    BY <1>0, <2>2, <2>3, <2>5 DEF RowsSerial
  <2>7. LinksKept /\ VerdictsKept
    BY <1>3, <2>2, <2>3, <2>5 DEF LinksKept, VerdictsKept
  <2>. QED
    BY <2>4, <2>6, <2>7 DEF SerialNext, SerialCore
<1>. QED
  BY <1>6, <1>7, <1>8, <1>9, <1>10, <1>11, <1>12, <1>13 DEF Sardine

\* What happens elsewhere leaves the handlers where they are.
LEMMA SerialAside ==
  ASSUME SerialCore, UNCHANGED <<row, told, job>>, patched \subseteq patched',
         expired \subseteq expired', \A u \in Users \ patched' : idStatus'[u] = idStatus[u],
         TypeOK
  PROVE  SerialNext
<1>1. \A u : Pending(u)' = Pending(u) /\ RowsOf(u)' = RowsOf(u)
  BY DEF Pending, RowsOf
<1>2. ASSUME NEW h \in Handlers, Busy(h), NEW j, j = job[h]
      PROVE  StillTrue(j)'
  <2>1. j.user \in Users /\ StillTrue(j)
    BY <1>2 DEF SerialCore, JobsTrue, Busy, TypeOK, Job
  <2>. QED
    BY <1>1, <2>1 DEF StillTrue
<1>3. JobsTrue'
  BY <1>2 DEF JobsTrue, StillTrue, Busy, RowsOf, Pending
<1>4. OneAtATime'
  BY DEF SerialCore, OneAtATime, Busy
<1>5. RowsSerial' /\ LinksKept /\ VerdictsKept
  BY SameRows DEF SerialCore
<1>. QED
  BY <1>3, <1>4, <1>5 DEF SerialNext, SerialCore

LEMMA SerialStep ==
  ASSUME "overlap" \notin Env, IInv, SerialCore, [Next]_vars
  PROVE  SerialNext
<1>. USE DEF userRow, cache, outside
<1>0. TypeOK
  BY DEF IInv
<1>1. ASSUME NEW h \in Handlers, Throws(h)
      PROVE  SerialNext
  BY <1>0, <1>1, SerialMove DEF Throws
<1>2. ASSUME Elsewhere
      PROVE  SerialNext
  <2>1. ASSUME NEW u \in Users, CacheExpires(u) PROVE SerialNext
    BY <1>0, <2>1, SerialAside DEF CacheExpires
  <2>2. ASSUME NEW i \in VerIds, NEW level \in RiskLevels, SardineDecides(i, level)
        PROVE  SerialNext
    BY <1>0, <2>2, SerialAside DEF SardineDecides
  <2>3. ASSUME NEW i \in VerIds, LinkExpires(i) PROVE SerialNext
    BY <1>0, <2>3, SerialAside DEF LinkExpires
  <2>4. ASSUME NEW u \in Users, NEW s \in IdStatus, NEW ok \in BOOLEAN, SetByHand(u, s, ok)
        PROVE  SerialNext
    <3>1. \A w \in Users \ patched' : idStatus'[w] = idStatus[w]
      BY <1>0, <2>4 DEF SetByHand, TypeOK
    <3>2. UNCHANGED <<row, told, job, expired>> /\ patched \subseteq patched'
      BY <2>4 DEF SetByHand
    <3>. QED
      BY <1>0, <3>1, <3>2, SerialAside
  <2>. QED
    BY <1>2, <2>1, <2>2, <2>3, <2>4 DEF Elsewhere
<1>3. ASSUME UNCHANGED vars
      PROVE  SerialNext
  BY <1>0, <1>3, SerialAside DEF vars
<1>. QED
  BY <1>1, <1>2, <1>3, SerialBegin, SerialPhone, SerialProve, SerialSardine DEF Next

\* When no request or event starts while a handler waits, what each handler
\* has read is still true where it waits (but for finish and the listener it
\* starts, which run side by side).
THEOREM VerificationsSerial == "overlap" \notin Env => (Spec => [](IInv /\ SerialInv))
<1> SUFFICES ASSUME "overlap" \notin Env PROVE Spec => [](IInv /\ SerialInv)
  OBVIOUS
<1>1. Init => SerialCore
  <2> SUFFICES ASSUME Init PROVE SerialCore
    OBVIOUS
  <2>1. \A u \in Users : Pending(u) = {}
    BY DEF Init, Pending, RowsOf, NoRow
  <2>. QED
    BY <2>1 DEF Init, SerialCore, OneAtATime, JobsTrue, RowsSerial, Busy
<1>2. IInv /\ SerialCore /\ [Next]_vars => SerialCore'
  BY SerialStep DEF SerialNext
<1>3. SerialCore => SerialInv
  BY DEF SerialCore, SerialInv
<1>. QED
  BY <1>1, <1>2, <1>3, VerificationsInductive, PTL DEF Spec

LEMMA SerialParts == "overlap" \notin Env /\ SerialInv => SerialCore
BY DEF SerialInv, SerialCore

\* The outcome of a verification is acted on once, however often Sardine
\* reports it and wherever the handler of an earlier report has failed.
THEOREM OutcomeOnce == "overlap" \notin Env => (Spec => []ProcessedOnce)
<1> SUFFICES ASSUME "overlap" \notin Env PROVE Spec => []ProcessedOnce
  OBVIOUS
<1>1. SerialInv => ProcessedOnce
  BY SerialParts DEF SerialCore, RowsSerial, ProcessedOnce
<1>. QED
  BY <1>1, VerificationsSerial, PTL

\* A pending verification whose link is good is neither deleted nor doubled.
THEOREM GoodLinksStay == "overlap" \notin Env => (Spec => GoodLinkReturned)
<1> SUFFICES ASSUME "overlap" \notin Env PROVE Spec => GoodLinkReturned
  OBVIOUS
<1>1. IInv /\ SerialInv /\ [Next]_vars => [LinksKept]_vars
  BY SerialParts, SerialStep DEF SerialNext
<1>. QED
  BY <1>1, VerificationsSerial, PTL DEF Spec, GoodLinkReturned, LinksKept

\* What the documents decided is final, unless a PATCH sets it.
THEOREM VerdictsAreFinal == "overlap" \notin Env => (Spec => VerdictFinal)
<1> SUFFICES ASSUME "overlap" \notin Env PROVE Spec => VerdictFinal
  OBVIOUS
<1>1. IInv /\ SerialInv /\ [Next]_vars => [VerdictsKept]_vars
  BY SerialParts, SerialStep DEF SerialNext
<1>. QED
  BY <1>1, VerificationsSerial, PTL DEF Spec, VerdictFinal, VerdictsKept
=============================================================================
