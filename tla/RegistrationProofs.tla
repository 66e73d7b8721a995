------------------------- MODULE RegistrationProofs -------------------------
(***************************************************************************)
(* The types of Registration, and its three properties, for any number of  *)
(* people and handlers.  The argument: what a sign-up or a listener has    *)
(* written is never taken back (Keeps), so what a handler found written    *)
(* when it went on is still there when it writes the next thing.           *)
(***************************************************************************)
EXTENDS Registration, TLAPS

-----------------------------------------------------------------------------
(***************************************************************************)
(* Types                                                                   *)
(***************************************************************************)

\* A handler that waits has a job.
LEMMA BusyIsJob ==
  ASSUME TypeOK, NEW h \in Handlers, job[h].pc \in Waiting
  PROVE  job[h] \in Job /\ Busy(h)
<1>1. job[h] \in Job \cup {Idle}
  BY DEF TypeOK
<1>2. job[h] # Idle
  BY DEF Idle, Waiting
<1>. QED
  BY <1>1, <1>2 DEF Busy

LEMMA NewJobType ==
  ASSUME NEW pc \in Waiting, NEW p \in People \cup {Nothing}, NEW a \in Founders
  PROVE  NewJob(pc, p, a) \in Job
BY DEF NewJob, Job

LEMMA StatusType == ASSUME NEW s PROVE StatusOf(s) \in OrgStatus /\ StatusOf(s) # "none"
BY DEF StatusOf, OrgStatus

LEMMA TypeInit == Init => TypeOK
BY DEF Init, TypeOK, OrgStatus, Idle

\* A step that only moves a job on.
LEMMA TypeJobStep ==
  ASSUME TypeOK, NEW h \in Handlers, NEW j \in Job \cup {Idle}, Goes(h, j)
  PROVE  job' \in [Handlers -> Job \cup {Idle}]
BY DEF TypeOK, Goes

LEMMA TypeBegin ==
  ASSUME TypeOK, NEW h \in Handlers, Begin(h)
  PROVE  TypeOK'
<1>1. ASSUME NEW p \in People, NEW a \in Founders, NEW withOrg \in BOOLEAN, SignUp(h, p, a, withOrg)
      PROVE  TypeOK'
  <2>1. [NewJob(IF p \in Founders THEN "account" ELSE "user", p, a) EXCEPT !.withOrg = withOrg] \in Job
    BY DEF NewJob, Job, Waiting
  <2>2. job' \in [Handlers -> Job \cup {Idle}]
    BY <1>1, <2>1, TypeJobStep DEF SignUp
  <2>. QED
    BY <1>1, <2>2 DEF TypeOK, SignUp, people, outside
<1>2. ASSUME NEW p \in People, PostOrganization(h, p)
      PROVE  TypeOK'
  <2>1. NewJob("org", p, user[p]) \in Job
    BY <1>2 DEF PostOrganization, TypeOK, NewJob, Job, Waiting
  <2>2. job' \in [Handlers -> Job \cup {Idle}]
    BY <1>2, <2>1, TypeJobStep DEF PostOrganization
  <2>. QED
    BY <1>2, <2>2 DEF TypeOK, PostOrganization, people, outside
<1>3. ASSUME NEW a \in Founders, NEW s \in MiddeskStatus, EventArrives(h, a, s)
      PROVE  TypeOK'
  <2>1. [NewJob("update", Nothing, a) EXCEPT !.status = s] \in Job
    BY DEF NewJob, Job, Waiting
  <2>2. job' \in [Handlers -> Job \cup {Idle}]
    BY <1>3, <2>1, TypeJobStep DEF EventArrives
  <2>. QED
    BY <1>3, <2>2 DEF TypeOK, EventArrives, people, outside
<1>. QED
  BY <1>1, <1>2, <1>3 DEF Begin

LEMMA TypeSignUp ==
  ASSUME TypeOK, JobInv, NEW h \in Handlers, ForSignUp(h)
  PROVE  TypeOK'
<1>1. ASSUME CreateAccount(h)
      PROVE  TypeOK'
  <2>1. job[h] \in Job /\ [job[h] EXCEPT !.pc = "token"] \in Job /\ job[h].account \in Founders
    BY <1>1, BusyIsJob DEF CreateAccount, Waiting, Job
  <2>2. job' \in [Handlers -> Job \cup {Idle}]
    BY <1>1, <2>1, TypeJobStep DEF CreateAccount
  <2>. QED
    BY <1>1, <2>1, <2>2 DEF TypeOK, CreateAccount, outside
<1>2. ASSUME SaveToken(h)
      PROVE  TypeOK'
  <2>1. job[h] \in Job /\ [job[h] EXCEPT !.pc = "user"] \in Job /\ job[h].account \in Founders
    BY <1>2, BusyIsJob DEF SaveToken, Waiting, Job
  <2>2. job' \in [Handlers -> Job \cup {Idle}]
    BY <1>2, <2>1, TypeJobStep DEF SaveToken
  <2>. QED
    BY <1>2, <2>1, <2>2 DEF TypeOK, SaveToken, outside
<1>3. ASSUME CreateUser(h)
      PROVE  TypeOK'
  <2>1. job[h] \in Job /\ [job[h] EXCEPT !.pc = "link"] \in Job /\ job[h].account \in Founders
    BY <1>3, BusyIsJob DEF CreateUser, Waiting, Job
  <2>2. job' \in [Handlers -> Job \cup {Idle}]
    BY <1>3, <2>1, TypeJobStep DEF CreateUser
  <2>3. user' \in [People -> Founders \cup {Nothing}]
    BY <1>3, <2>1 DEF CreateUser, TypeOK
  <2>. QED
    BY <1>3, <2>2, <2>3 DEF TypeOK, CreateUser, outside
<1>4. ASSUME NEW ok \in BOOLEAN, LinkAtAuth0(h, ok)
      PROVE  TypeOK'
  <2>1. job[h] \in Job /\ job[h].person \in People
    BY <1>4, BusyIsJob DEF LinkAtAuth0, Waiting, JobInv, HandlerInv
  <2>2. [job[h] EXCEPT !.pc = "own"] \in Job /\ AfterAuth0(job[h]) \in Job \cup {Idle}
    BY <2>1 DEF Job, Waiting, AfterAuth0
  <2>3. job' \in [Handlers -> Job \cup {Idle}]
    BY <1>4, <2>2, TypeJobStep DEF LinkAtAuth0
  <2>. QED
    BY <1>4, <2>1, <2>3 DEF TypeOK, LinkAtAuth0, outside
<1>5. ASSUME NEW ok \in BOOLEAN, OwnAtAuth0(h, ok)
      PROVE  TypeOK'
  <2>1. job[h] \in Job /\ job[h].person \in People
    BY <1>5, BusyIsJob DEF OwnAtAuth0, Waiting, JobInv, HandlerInv
  <2>2. AfterAuth0(job[h]) \in Job \cup {Idle}
    BY <2>1 DEF Job, Waiting, AfterAuth0
  <2>3. job' \in [Handlers -> Job \cup {Idle}]
    BY <1>5, <2>2, TypeJobStep DEF OwnAtAuth0
  <2>. QED
    BY <1>5, <2>1, <2>3 DEF TypeOK, OwnAtAuth0, outside
<1>6. ASSUME NEW l \in Handlers, CreateOrg(h, l)
      PROVE  TypeOK'
  <2>1. job[h].account \in Founders
    BY <1>6, BusyIsJob DEF CreateOrg, Waiting, Job
  <2>2. NewJob("business", Nothing, job[h].account) \in Job
    BY <2>1, NewJobType DEF Waiting
  <2>3. job' \in [Handlers -> Job \cup {Idle}]
    BY <1>6, <2>2 DEF CreateOrg, TypeOK
  <2>. QED
    BY <1>6, <2>1, <2>3 DEF TypeOK, CreateOrg, OrgStatus, people, outside
<1>7. ASSUME CreateOrgAbroad(h)
      PROVE  TypeOK'
  <2>1. job' \in [Handlers -> Job \cup {Idle}]
    BY <1>7, TypeJobStep DEF CreateOrgAbroad
  <2>. QED
    BY <1>7, <2>1 DEF TypeOK, CreateOrgAbroad, OrgStatus, people, outside
<1>8. ASSUME SecondOrg(h)
      PROVE  TypeOK'
  <2>1. job' \in [Handlers -> Job \cup {Idle}]
    BY <1>8, TypeJobStep DEF SecondOrg
  <2>. QED
    BY <1>8, <2>1 DEF TypeOK, SecondOrg, people, outside
<1>. QED
  BY <1>1, <1>2, <1>3, <1>4, <1>5, <1>6, <1>7, <1>8 DEF ForSignUp

LEMMA TypeMiddesk ==
  ASSUME TypeOK, NEW h \in Handlers, ForMiddesk(h)
  PROVE  TypeOK'
<1>1. ASSUME CreateBusiness(h)
      PROVE  TypeOK'
  <2>1. [job[h] EXCEPT !.pc = "row"] \in Job
    BY <1>1, BusyIsJob DEF CreateBusiness, Waiting, Job
  <2>2. job' \in [Handlers -> Job \cup {Idle}]
    BY <1>1, <2>1, TypeJobStep DEF CreateBusiness
  <2>. QED
    BY <1>1, <2>2 DEF TypeOK, CreateBusiness, people
<1>2. ASSUME CreateRow(h)
      PROVE  TypeOK'
  <2>1. job' \in [Handlers -> Job \cup {Idle}]
    BY <1>2, TypeJobStep DEF CreateRow
  <2>. QED
    BY <1>2, <2>1 DEF TypeOK, CreateRow, OrgStatus, people, outside
<1>3. ASSUME UpdateRow(h)
      PROVE  TypeOK'
  <2>1. [job[h] EXCEPT !.pc = "summary"] \in Job
    BY <1>3, BusyIsJob DEF UpdateRow, Waiting, Job
  <2>2. job' \in [Handlers -> Job \cup {Idle}]
    BY <1>3, <2>1, TypeJobStep DEF UpdateRow
  <2>3. row' \in [Founders -> OrgStatus \cup {"none"}]
    BY <1>3, StatusType DEF UpdateRow, TypeOK
  <2>. QED
    BY <1>3, <2>2, <2>3 DEF TypeOK, UpdateRow, people, outside
<1>4. ASSUME UpdateOrg(h)
      PROVE  TypeOK'
  <2>1. job' \in [Handlers -> Job \cup {Idle}]
    BY <1>4, TypeJobStep DEF UpdateOrg
  <2>2. org' \in [Founders -> OrgStatus \cup {"none"}]
    BY <1>4, StatusType DEF UpdateOrg, TypeOK
  <2>. QED
    BY <1>4, <2>1, <2>2 DEF TypeOK, UpdateOrg, people, outside
<1>. QED
  BY <1>1, <1>2, <1>3, <1>4 DEF ForMiddesk

LEMMA TypeNext == TypeOK /\ JobInv /\ [Next]_vars => TypeOK'
<1>. SUFFICES ASSUME TypeOK, JobInv, [Next]_vars PROVE TypeOK'
  OBVIOUS
<1>1. ASSUME NEW h \in Handlers, Throws(h) PROVE TypeOK'
  <2>1. job' \in [Handlers -> Job \cup {Idle}]
    BY <1>1, TypeJobStep DEF Throws
  <2>2. job[h].account \in Founders
    BY <1>1 DEF Throws, Busy, TypeOK, Job
  <2>. QED
    BY <1>1, <2>1, <2>2 DEF TypeOK, Throws, people, outside
<1>2. ASSUME NEW a \in Founders, NEW s \in MiddeskStatus, MiddeskReports(a, s) PROVE TypeOK'
  BY <1>2 DEF TypeOK, MiddeskReports, people
<1>3. ASSUME UNCHANGED vars PROVE TypeOK'
  BY <1>3 DEF TypeOK, vars, people, outside
<1>. QED
  BY <1>1, <1>2, <1>3, TypeBegin, TypeSignUp, TypeMiddesk DEF Next

-----------------------------------------------------------------------------
(***************************************************************************)
(* What steps keep                                                         *)
(***************************************************************************)

\* IInv without its types.
Core ==
  /\ JobInv /\ ListenerInv /\ EventInv
  /\ WrittenInOrder /\ OrgStatusEarned /\ OrgFollowsRow

\* What no step takes back.
Keeps ==
  /\ account \subseteq account' /\ token \subseteq token' /\ sent \subseteq sent'
  /\ \A p \in People : user[p] # Nothing => user'[p] # Nothing
  /\ \A a \in Founders : /\ org[a] # "none" => org'[a] # "none"
                         /\ business[a] # "none" => business'[a] # "none"
                         /\ row[a] # "none" => row'[a] # "none"

\* What Middesk's listener is there to do first is still to do.
StillToDo(j) ==
  /\ j.pc = "business" => business'[j.account] = "none"
  /\ j.pc = "row" => row'[j.account] = "none"

\* A handler may go on relying on what it relied on.
LEMMA HandlerKeeps ==
  ASSUME Keeps, NEW j \in Job, HandlerInv(j), StillToDo(j)
  PROVE  HandlerInv(j)'
BY DEF Keeps, StillToDo, HandlerInv, Job

\* The handlers that do not move keep what they have, and the one that moves
\* gets what it needs.
LEMMA JobsKeep ==
  ASSUME TypeOK, JobInv, Keeps, NEW h \in Handlers, NEW j \in Job \cup {Idle},
         Goes(h, j), j # Idle => HandlerInv(j)',
         \A g \in Handlers \ {h} : StillToDo(job[g])
  PROVE  JobInv'
<1>1. \A g \in Handlers : job'[g] = IF g = h THEN j ELSE job[g]
  BY DEF Goes, TypeOK
<1>2. ASSUME NEW g \in Handlers, NEW k, k = job'[g], k # Idle
      PROVE  HandlerInv(k)'
  <2>1. CASE g = h
    BY <1>1, <1>2, <2>1
  <2>2. CASE g # h
    <3>1. k = job[g]
      BY <1>1, <1>2, <2>2
    <3>2. k \in Job /\ HandlerInv(k) /\ StillToDo(k)
      BY <1>2, <2>2, <3>1 DEF TypeOK, JobInv, Busy, StillToDo
    <3>. QED
      BY <3>2, HandlerKeeps
  <2>. QED
    BY <2>1, <2>2
<1>. QED
  BY <1>2 DEF JobInv, Busy, HandlerInv

LEMMA Moved ==
  ASSUME TypeOK, NEW h \in Handlers, NEW j, Goes(h, j)
  PROVE  \A g \in Handlers : job'[g] = IF g = h THEN j ELSE job[g]
BY DEF Goes, TypeOK

\* The statuses and the handlers about them are the same when another handler
\* moves.
LEMMA StatusesStay ==
  ASSUME IInv, NEW h \in Handlers, NEW j, Goes(h, j),
         UNCHANGED <<org, row, sent, mixed>>,
         j.pc \notin {"business", "row", "update", "summary"}, job[h].pc # "summary"
  PROVE  ListenerInv' /\ EventInv' /\ OrgStatusEarned' /\ OrgFollowsRow'
<1>1. \A g \in Handlers : job'[g] = IF g = h THEN j ELSE job[g]
  BY Moved DEF IInv
<1>2. ListenerInv'
  BY <1>1 DEF IInv, ListenerInv
<1>3. EventInv'
  BY <1>1 DEF IInv, EventInv, Updating, StatusOf
<1>4. OrgStatusEarned'
  BY DEF IInv, OrgStatusEarned, StatusOf
<1>5. OrgFollowsRow'
  BY <1>1 DEF IInv, OrgFollowsRow, Updating
<1>. QED
  BY <1>2, <1>3, <1>4, <1>5

\* A handler that Middesk's listener is waiting behind keeps its work to do when
\* only people change.
LEMMA WorkStays ==
  ASSUME IInv, UNCHANGED <<row, business>>, NEW g \in Handlers
  PROVE  StillToDo(job[g])
<1>1. job[g].pc \in {"business", "row"} => job[g] # Idle
  BY DEF Idle
<1>2. JobInv
  BY DEF IInv
<1>3. job[g].pc \in {"business", "row"} => HandlerInv(job[g])
  BY <1>1, <1>2 DEF JobInv, Busy
<1>. QED
  BY <1>3 DEF HandlerInv, StillToDo

LEMMA CoreInit == Init => Core
BY RegistrationAssumption
   DEF Init, Core, JobInv, Busy, ListenerInv, Idle, EventInv, Updating, WrittenInOrder,
       OrgStatusEarned, OrgFollowsRow, People

LEMMA CoreBegin ==
  ASSUME IInv, NEW h \in Handlers, Begin(h)
  PROVE  Core'
<1>1. ASSUME NEW p \in People, NEW a \in Founders, NEW withOrg \in BOOLEAN, SignUp(h, p, a, withOrg)
      PROVE  Core'
  <2>1. PICK j : j = [NewJob(IF p \in Founders THEN "account" ELSE "user", p, a) EXCEPT !.withOrg = withOrg]
    OBVIOUS
  <2>2. /\ j \in Job /\ j.person = p /\ j.account = a
        /\ j.pc = IF p \in Founders THEN "account" ELSE "user"
    BY <2>1 DEF NewJob, Job, Waiting
  <2>3. Goes(h, j) /\ UNCHANGED <<people, org, row, outside, mixed>> /\ (p \in Founders => a = p)
        /\ job[h] = Idle
    BY <1>1, <2>1 DEF SignUp, MayStart, Busy, Goes
  <2>4. Keeps
    BY <2>3 DEF Keeps, people, outside
  <2>5. HandlerInv(j)'
    BY <2>2, <2>3 DEF HandlerInv
  <2>6. JobInv'
    BY <2>2, <2>3, <2>4, <2>5, WorkStays, JobsKeep DEF IInv, outside
  <2>7. ListenerInv' /\ EventInv' /\ OrgStatusEarned' /\ OrgFollowsRow'
    BY <2>2, <2>3, StatusesStay DEF outside, Idle
  <2>8. WrittenInOrder'
    BY <2>3 DEF IInv, WrittenInOrder, people, outside
  <2>. QED
    BY <2>6, <2>7, <2>8 DEF Core
<1>2. ASSUME NEW p \in People, PostOrganization(h, p)
      PROVE  Core'
  <2>1. PICK j : j = NewJob("org", p, user[p])
    OBVIOUS
  <2>2. j \in Job /\ j.person = p /\ j.account = user[p] /\ j.pc = "org"
    BY <1>2, <2>1 DEF PostOrganization, NewJob, Job, Waiting, IInv, TypeOK
  <2>3. Goes(h, j) /\ UNCHANGED <<people, org, row, outside, mixed>> /\ user[p] # Nothing
        /\ job[h] = Idle
    BY <1>2, <2>1 DEF PostOrganization, MayStart, Busy, Goes
  <2>4. Keeps
    BY <2>3 DEF Keeps, people, outside
  <2>5. HandlerInv(j)'
    BY <2>2, <2>3 DEF HandlerInv, IInv, WrittenInOrder, people, People
  <2>6. JobInv'
    BY <2>2, <2>3, <2>4, <2>5, WorkStays, JobsKeep DEF IInv, outside
  <2>7. ListenerInv' /\ EventInv' /\ OrgStatusEarned' /\ OrgFollowsRow'
    BY <2>2, <2>3, StatusesStay DEF outside, Idle
  <2>8. WrittenInOrder'
    BY <2>3 DEF IInv, WrittenInOrder, people, outside
  <2>. QED
    BY <2>6, <2>7, <2>8 DEF Core
<1>3. ASSUME NEW a \in Founders, NEW s \in MiddeskStatus, EventArrives(h, a, s)
      PROVE  Core'
  <2>1. PICK j : j = [NewJob("update", Nothing, a) EXCEPT !.status = s]
    OBVIOUS
  <2>2. j \in Job /\ j.person = Nothing /\ j.account = a /\ j.pc = "update" /\ j.status = s
    BY <2>1 DEF NewJob, Job, Waiting
  <2>3. Goes(h, j) /\ UNCHANGED <<people, org, row, outside>> /\ <<a, s>> \in sent /\ job[h] = Idle
    BY <1>3, <2>1 DEF EventArrives, MayStart, Busy, Goes
  <2>4. Keeps
    BY <2>3 DEF Keeps, people, outside
  <2>5. HandlerInv(j)'
    BY <2>2, <2>3, RegistrationAssumption DEF HandlerInv, outside
  <2>6. JobInv'
    BY <2>2, <2>3, <2>4, <2>5, WorkStays, JobsKeep DEF IInv, outside
  <2>7. \A g \in Handlers : job'[g] = IF g = h THEN j ELSE job[g]
    BY <2>3, Moved DEF IInv
  <2>8. ListenerInv'
    BY <2>2, <2>3, <2>7 DEF IInv, ListenerInv
  <2>9. mixed' = IF Updating(a) # {} THEN mixed \cup {a} ELSE mixed
    BY <1>3 DEF EventArrives
  <2>10. EventInv'
    BY <2>2, <2>3, <2>7, <2>9 DEF IInv, EventInv, Updating, StatusOf
  <2>11. OrgStatusEarned'
    BY <2>3 DEF IInv, OrgStatusEarned, StatusOf, outside
  <2>12. OrgFollowsRow'
    BY <2>2, <2>3, <2>7, <2>9 DEF IInv, OrgFollowsRow, Updating, Idle
  <2>13. WrittenInOrder'
    BY <2>3 DEF IInv, WrittenInOrder, people, outside
  <2>. QED
    BY <2>6, <2>8, <2>10, <2>11, <2>12, <2>13 DEF Core
<1>. QED
  BY <1>1, <1>2, <1>3 DEF Begin

LEMMA CoreSignUp ==
  ASSUME IInv, NEW h \in Handlers, ForSignUp(h)
  PROVE  Core'
<1>0. TypeOK /\ WrittenInOrder /\ ListenerInv /\ OrgFollowsRow
  BY DEF IInv
<1>1. ASSUME CreateAccount(h)
      PROVE  Core'
  <2>1. PICK a, j : a = job[h].account /\ j = IF a \in account THEN Idle ELSE [job[h] EXCEPT !.pc = "token"]
    OBVIOUS
  <2>2. job[h] \in Job /\ HandlerInv(job[h]) /\ job[h].pc = "account" /\ a \in Founders
    BY <1>0, <1>1, <2>1, BusyIsJob DEF CreateAccount, Waiting, IInv, JobInv, Job
  <2>3. /\ j \in Job \cup {Idle} /\ j.pc \in {"token", "idle"}
        /\ j # Idle => j.pc = "token" /\ j.person = job[h].person /\ j.account = a
    BY <2>1, <2>2 DEF Job, Waiting, Idle
  <2>4. /\ Goes(h, j) /\ account' = account \cup {a}
        /\ UNCHANGED <<token, user, linked, owner, org, row, outside, mixed>>
    BY <1>1, <2>1 DEF CreateAccount
  <2>5. Keeps
    BY <2>4 DEF Keeps, outside
  <2>6. j # Idle => HandlerInv(j)'
    BY <2>1, <2>2, <2>3, <2>4 DEF HandlerInv
  <2>7. JobInv'
    BY <2>3, <2>4, <2>5, <2>6, WorkStays, JobsKeep DEF IInv, outside
  <2>8. ListenerInv' /\ EventInv' /\ OrgStatusEarned' /\ OrgFollowsRow'
    BY <2>2, <2>3, <2>4, StatusesStay DEF outside
  <2>9. WrittenInOrder'
    BY <1>0, <2>4 DEF WrittenInOrder, outside
  <2>. QED
    BY <2>7, <2>8, <2>9 DEF Core
<1>2. ASSUME SaveToken(h)
      PROVE  Core'
  <2>1. PICK a, j : a = job[h].account /\ j = [job[h] EXCEPT !.pc = "user"]
    OBVIOUS
  <2>2. job[h] \in Job /\ HandlerInv(job[h]) /\ job[h].pc = "token" /\ a \in Founders
    BY <1>0, <1>2, <2>1, BusyIsJob DEF SaveToken, Waiting, IInv, JobInv, Job
  <2>3. j \in Job /\ j.pc = "user" /\ j.person = job[h].person /\ j.account = a
    BY <2>1, <2>2 DEF Job, Waiting
  <2>4. /\ Goes(h, j) /\ token' = token \cup {a}
        /\ UNCHANGED <<account, user, linked, owner, org, row, outside, mixed>>
    BY <1>2, <2>1 DEF SaveToken
  <2>5. Keeps
    BY <2>4 DEF Keeps, outside
  <2>6. HandlerInv(j)'
    BY <2>1, <2>2, <2>3, <2>4 DEF HandlerInv
  <2>7. JobInv'
    BY <2>3, <2>4, <2>5, <2>6, WorkStays, JobsKeep DEF IInv, outside
  <2>8. ListenerInv' /\ EventInv' /\ OrgStatusEarned' /\ OrgFollowsRow'
    BY <2>2, <2>3, <2>4, StatusesStay DEF outside
  <2>9. WrittenInOrder'
    BY <1>0, <2>1, <2>2, <2>4 DEF WrittenInOrder, HandlerInv, outside
  <2>. QED
    BY <2>7, <2>8, <2>9 DEF Core
<1>3. ASSUME CreateUser(h)
      PROVE  Core'
  <2>1. PICK p, a : p = job[h].person /\ a = job[h].account
    OBVIOUS
  <2>2. /\ job[h] \in Job /\ HandlerInv(job[h]) /\ job[h].pc = "user" /\ a \in Founders /\ p \in People
        /\ p \in Founders => p = a /\ a \in token
    BY <1>0, <1>3, <2>1, BusyIsJob DEF CreateUser, Waiting, IInv, JobInv, Job, HandlerInv
  <2>3. PICK j : j = IF user[p] = Nothing /\ a \in account THEN [job[h] EXCEPT !.pc = "link"] ELSE Idle
    OBVIOUS
  <2>4. /\ j \in Job \cup {Idle} /\ j.pc \in {"link", "idle"}
        /\ j # Idle => /\ j.pc = "link" /\ j.person = p /\ j.account = a
                       /\ user[p] = Nothing /\ a \in account
    BY <2>1, <2>2, <2>3 DEF Job, Waiting, Idle
  <2>5. /\ Goes(h, j) /\ user' = IF j # Idle THEN [user EXCEPT ![p] = a] ELSE user
        /\ UNCHANGED <<account, token, linked, owner, org, row, outside, mixed>>
    <3>1. [job[h] EXCEPT !.pc = "link"] # Idle
      BY <2>2 DEF Job, Idle, Waiting
    <3>. QED
      BY <1>3, <2>1, <2>3, <3>1 DEF CreateUser
  <2>6. /\ \A q \in People : q # p => user'[q] = user[q]
        /\ j # Idle => user'[p] = a /\ user'[p] # Nothing
        /\ j = Idle => user'[p] = user[p]
    BY <1>0, <2>2, <2>5, RegistrationAssumption DEF TypeOK
  <2>7. Keeps
    BY <2>2, <2>4, <2>5, <2>6 DEF Keeps, outside
  <2>8. j # Idle => HandlerInv(j)'
    BY <2>2, <2>4, <2>5, <2>6 DEF HandlerInv
  <2>9. JobInv'
    BY <2>4, <2>5, <2>7, <2>8, WorkStays, JobsKeep DEF IInv, outside
  <2>10. ListenerInv' /\ EventInv' /\ OrgStatusEarned' /\ OrgFollowsRow'
    BY <2>2, <2>4, <2>5, StatusesStay DEF outside
  <2>11. WrittenInOrder'
    <3>1. \A q \in Founders : user'[q] # Nothing => user'[q] = q /\ q \in token
      BY <1>0, <2>2, <2>6 DEF WrittenInOrder, People
    <3>2. \A q \in Invited : user'[q] # Nothing => user'[q] \in account
      BY <1>0, <2>2, <2>4, <2>6 DEF WrittenInOrder, People
    <3>3. \A q \in linked \cup owner : user'[q] # Nothing
      BY <1>0, <2>4, <2>6 DEF WrittenInOrder, TypeOK
    <3>. QED
      BY <1>0, <2>5, <3>1, <3>2, <3>3 DEF WrittenInOrder, outside
  <2>. QED
    BY <2>9, <2>10, <2>11 DEF Core
<1>4. ASSUME NEW ok \in BOOLEAN, LinkAtAuth0(h, ok)
      PROVE  Core'
  <2>1. PICK p, j : /\ p = job[h].person
                    /\ j = IF p \in Founders THEN [job[h] EXCEPT !.pc = "own"] ELSE AfterAuth0(job[h])
    OBVIOUS
  <2>2. /\ job[h] \in Job /\ HandlerInv(job[h]) /\ job[h].pc = "link" /\ job[h].account \in Founders
        /\ p \in People /\ user[p] # Nothing
    BY <1>0, <1>4, <2>1, BusyIsJob DEF LinkAtAuth0, Waiting, IInv, JobInv, Job, HandlerInv
  <2>3. job[h].account \in account
    BY <2>2 DEF HandlerInv
  <2>4. /\ j \in Job \cup {Idle} /\ j.pc \in {"own", "org", "idle"}
        /\ j # Idle => j.person = p /\ j.account = job[h].account /\ (j.pc = "own" => p \in Founders)
    BY <2>1, <2>2 DEF Job, Waiting, Idle, AfterAuth0
  <2>5. /\ Goes(h, j) /\ linked \subseteq linked' /\ linked' \subseteq linked \cup {p}
        /\ UNCHANGED <<account, token, user, owner, org, row, outside, mixed>>
    BY <1>4, <2>1 DEF LinkAtAuth0
  <2>6. Keeps
    BY <2>5 DEF Keeps, outside
  <2>7. j # Idle => HandlerInv(j)'
    BY <2>1, <2>2, <2>3, <2>4, <2>5 DEF HandlerInv
  <2>8. JobInv'
    BY <2>4, <2>5, <2>6, <2>7, WorkStays, JobsKeep DEF IInv, outside
  <2>9. ListenerInv' /\ EventInv' /\ OrgStatusEarned' /\ OrgFollowsRow'
    BY <2>2, <2>4, <2>5, StatusesStay DEF outside
  <2>10. WrittenInOrder'
    BY <1>0, <2>2, <2>5 DEF WrittenInOrder, outside
  <2>. QED
    BY <2>8, <2>9, <2>10 DEF Core
<1>5. ASSUME NEW ok \in BOOLEAN, OwnAtAuth0(h, ok)
      PROVE  Core'
  <2>1. PICK p, j : p = job[h].person /\ j = AfterAuth0(job[h])
    OBVIOUS
  <2>2. /\ job[h] \in Job /\ HandlerInv(job[h]) /\ job[h].pc = "own" /\ job[h].account \in Founders
        /\ p \in Founders /\ user[p] # Nothing
    BY <1>0, <1>5, <2>1, BusyIsJob DEF OwnAtAuth0, Waiting, IInv, JobInv, Job, HandlerInv
  <2>3. job[h].account \in account
    BY <2>2 DEF HandlerInv
  <2>4. /\ j \in Job \cup {Idle} /\ j.pc \in {"org", "idle"}
        /\ j # Idle => j.person = p /\ j.account = job[h].account
    BY <2>1, <2>2 DEF Job, Waiting, Idle, AfterAuth0
  <2>5. /\ Goes(h, j) /\ owner \subseteq owner' /\ owner' \subseteq owner \cup {p}
        /\ UNCHANGED <<account, token, user, linked, org, row, outside, mixed>>
    BY <1>5, <2>1 DEF OwnAtAuth0
  <2>6. Keeps
    BY <2>5 DEF Keeps, outside
  <2>7. j # Idle => HandlerInv(j)'
    BY <2>1, <2>2, <2>3, <2>4, <2>5 DEF HandlerInv
  <2>8. JobInv'
    BY <2>4, <2>5, <2>6, <2>7, WorkStays, JobsKeep DEF IInv, outside
  <2>9. ListenerInv' /\ EventInv' /\ OrgStatusEarned' /\ OrgFollowsRow'
    BY <2>2, <2>4, <2>5, StatusesStay DEF outside
  <2>10. WrittenInOrder'
    BY <1>0, <2>2, <2>5 DEF WrittenInOrder, outside
  <2>. QED
    BY <2>8, <2>9, <2>10 DEF Core
<1>6. ASSUME NEW l \in Handlers, CreateOrg(h, l)
      PROVE  Core'
  <2>1. PICK a, j : a = job[h].account /\ j = NewJob("business", Nothing, a)
    OBVIOUS
  <2>2. /\ job[h] \in Job /\ HandlerInv(job[h]) /\ job[h].pc = "org" /\ a \in Founders /\ a \in account
        /\ h # l
    BY <1>0, <1>6, <2>1, BusyIsJob DEF CreateOrg, Waiting, IInv, JobInv, Job, HandlerInv
  <2>3. j \in Job /\ j.person = Nothing /\ j.account = a /\ j.pc = "business"
    BY <2>1, <2>2 DEF NewJob, Job, Waiting
  <2>4. /\ job' = [job EXCEPT ![h] = Idle, ![l] = j] /\ job[l] = Idle
        /\ org[a] = "none" /\ org' = [org EXCEPT ![a] = "Unverified"]
        /\ UNCHANGED <<people, row, outside, mixed>>
    BY <1>6, <2>1 DEF CreateOrg, Busy
  <2>5. \A g \in Handlers : job'[g] = IF g = l THEN j ELSE IF g = h THEN Idle ELSE job[g]
    BY <1>0, <2>2, <2>4 DEF TypeOK
  <2>6. org'[a] = "Unverified" /\ \A b \in Founders : b # a => org'[b] = org[b]
    BY <1>0, <2>2, <2>4 DEF TypeOK
  <2>7. Keeps
    BY <2>2, <2>4, <2>6 DEF Keeps, people, outside
  <2>8. business[a] = "none" /\ row[a] = "none"
    BY <1>0, <2>2, <2>4 DEF WrittenInOrder
  <2>9. HandlerInv(j)'
    BY <2>2, <2>3, <2>4, <2>6, <2>8, RegistrationAssumption DEF HandlerInv, outside
  <2>10. JobInv'
    <3>1. ASSUME NEW g \in Handlers, NEW k, k = job'[g], k # Idle
          PROVE  HandlerInv(k)'
      <4>1. CASE g = l
        BY <2>5, <2>9, <3>1, <4>1
      <4>2. CASE g # l
        <5>1. k = job[g]
          BY <2>5, <3>1, <4>2
        <5>2. StillToDo(job[g])
          BY <2>4, WorkStays DEF outside
        <5>3. k \in Job /\ HandlerInv(k) /\ StillToDo(k)
          BY <3>1, <5>1, <5>2 DEF IInv, TypeOK, JobInv, Busy, StillToDo
        <5>. QED
          BY <2>7, <5>3, HandlerKeeps
      <4>. QED
        BY <4>1, <4>2
    <3>. QED
      BY <3>1 DEF JobInv, Busy, HandlerInv
  <2>11. \A g \in Handlers : job[g].pc \in {"business", "row"} => job[g].account # a
    <3>1. ASSUME NEW g \in Handlers, job[g].pc \in {"business", "row"}, job[g].account = a
          PROVE  FALSE
      <4>1. HandlerInv(job[g])
        BY <1>0, <3>1, BusyIsJob DEF Waiting, IInv, JobInv
      <4>. QED
        BY <2>4, <2>8, <3>1, <4>1 DEF HandlerInv
    <3>. QED
      BY <3>1
  <2>12. ListenerInv'
    <3>1. ASSUME NEW f \in Handlers, NEW g \in Handlers,
                 job'[f].pc \in {"business", "row"}, job'[g].pc \in {"business", "row"},
                 job'[f].account = job'[g].account
          PROVE  f = g
      <4>1. \A k \in {f, g} : k # l => job'[k] = job[k]
        BY <2>5, <3>1 DEF Idle
      <4>2. CASE f = l \/ g = l
        BY <2>3, <2>5, <2>11, <3>1, <4>1, <4>2
      <4>3. CASE f # l /\ g # l
        BY <1>0, <3>1, <4>1, <4>3 DEF ListenerInv
      <4>. QED
        BY <4>2, <4>3
    <3>. QED
      BY <3>1 DEF ListenerInv
  <2>13. EventInv'
    <3>1. \A g \in Handlers : job'[g].pc \in {"update", "summary"} => job'[g] = job[g]
      BY <2>3, <2>5 DEF Idle
    <3>2. EventInv /\ row' = row /\ mixed' = mixed
      BY <2>4 DEF IInv
    <3>3. ASSUME NEW b \in Founders \ mixed, NEW f \in Handlers, NEW g \in Handlers,
                 f \in Updating(b)', g \in Updating(b)'
          PROVE  f = g /\ (job'[g].pc = "summary" => row[b] = StatusOf(job'[g].status))
      BY <3>1, <3>2, <3>3 DEF EventInv, Updating
    <3>. QED
      BY <3>2, <3>3 DEF EventInv, Updating
  <2>14. OrgStatusEarned'
    BY <2>4, <2>6 DEF IInv, OrgStatusEarned, StatusOf, outside
  <2>15. OrgFollowsRow'
    <3>1. ASSUME NEW b \in Founders \ mixed, \A g \in Updating(b)' : job'[g].pc # "summary"
          PROVE  \/ org'[b] = row[b]
                 \/ org'[b] = "Unverified" /\ row[b] \in {"none", "Pending"}
      <4>1. \A g \in Updating(b) : job[g].pc # "summary"
        BY <2>2, <2>4, <2>5, <3>1 DEF Updating, Idle
      <4>. QED
        BY <1>0, <2>6, <2>8, <3>1, <4>1 DEF OrgFollowsRow, Updating
    <3>. QED
      BY <2>4, <3>1 DEF OrgFollowsRow
  <2>16. WrittenInOrder'
    BY <1>0, <2>2, <2>4, <2>6 DEF WrittenInOrder, people, outside
  <2>. QED
    BY <2>10, <2>12, <2>13, <2>14, <2>15, <2>16 DEF Core
<1>7. ASSUME CreateOrgAbroad(h)
      PROVE  Core'
  <2>1. PICK a : a = job[h].account
    OBVIOUS
  <2>2. job[h] \in Job /\ HandlerInv(job[h]) /\ job[h].pc = "org" /\ a \in Founders /\ a \in account
    BY <1>0, <1>7, <2>1, BusyIsJob DEF CreateOrgAbroad, Waiting, IInv, JobInv, Job, HandlerInv
  <2>3. /\ Goes(h, Idle) /\ org[a] = "none" /\ org' = [org EXCEPT ![a] = "Unverified"]
        /\ UNCHANGED <<people, row, outside, mixed>>
    BY <1>7, <2>1 DEF CreateOrgAbroad
  <2>4. org'[a] = "Unverified" /\ \A b \in Founders : b # a => org'[b] = org[b]
    BY <1>0, <2>2, <2>3 DEF TypeOK
  <2>5. Keeps
    BY <2>2, <2>3, <2>4 DEF Keeps, people, outside
  <2>6. JobInv'
    BY <2>3, <2>5, WorkStays, JobsKeep DEF IInv, outside
  <2>7. \A g \in Handlers : job'[g] = IF g = h THEN Idle ELSE job[g]
    BY <1>0, <2>3, Moved
  <2>8. business[a] = "none" /\ row[a] = "none"
    BY <1>0, <2>2, <2>3 DEF WrittenInOrder
  <2>9. ListenerInv'
    BY <2>7 DEF IInv, ListenerInv, Idle
  <2>10. EventInv'
    BY <2>3, <2>7 DEF IInv, EventInv, Updating, StatusOf, Idle
  <2>11. OrgStatusEarned'
    BY <2>3, <2>4 DEF IInv, OrgStatusEarned, StatusOf, outside
  <2>12. OrgFollowsRow'
    <3>1. ASSUME NEW b \in Founders \ mixed, \A g \in Updating(b)' : job'[g].pc # "summary"
          PROVE  \/ org'[b] = row[b]
                 \/ org'[b] = "Unverified" /\ row[b] \in {"none", "Pending"}
      <4>1. \A g \in Updating(b) : job[g].pc # "summary"
        BY <2>2, <2>7, <3>1 DEF Updating, Idle
      <4>. QED
        BY <1>0, <2>4, <2>8, <3>1, <4>1 DEF OrgFollowsRow, Updating
    <3>. QED
      BY <2>3, <3>1 DEF OrgFollowsRow
  <2>13. WrittenInOrder'
    BY <1>0, <2>2, <2>3, <2>4 DEF WrittenInOrder, people, outside
  <2>. QED
    BY <2>6, <2>9, <2>10, <2>11, <2>12, <2>13 DEF Core
<1>8. ASSUME SecondOrg(h)
      PROVE  Core'
  <2>1. Goes(h, Idle) /\ job[h].pc = "org" /\ UNCHANGED <<people, org, row, outside, mixed>>
    BY <1>8 DEF SecondOrg
  <2>2. Keeps
    BY <2>1 DEF Keeps, people, outside
  <2>3. JobInv'
    BY <2>1, <2>2, WorkStays, JobsKeep DEF IInv, outside
  <2>4. ListenerInv' /\ EventInv' /\ OrgStatusEarned' /\ OrgFollowsRow'
    BY <2>1, StatusesStay DEF outside, Idle
  <2>5. WrittenInOrder'
    BY <1>0, <2>1 DEF WrittenInOrder, people, outside
  <2>. QED
    BY <2>3, <2>4, <2>5 DEF Core
<1>. QED
  BY <1>1, <1>2, <1>3, <1>4, <1>5, <1>6, <1>7, <1>8 DEF ForSignUp

\* A handler of Middesk's listener moves within it, or another one moves.
LEMMA ListenersStay ==
  ASSUME ListenerInv,
         \A g \in Handlers : job'[g].pc \in {"business", "row"} =>
           job[g].pc \in {"business", "row"} /\ job'[g].account = job[g].account
  PROVE  ListenerInv'
<1>1. ASSUME NEW f \in Handlers, NEW g \in Handlers,
             job'[f].pc \in {"business", "row"}, job'[g].pc \in {"business", "row"},
             job'[f].account = job'[g].account
      PROVE  f = g
  BY <1>1 DEF ListenerInv
<1>. QED
  BY <1>1 DEF ListenerInv

LEMMA CoreMiddesk ==
  ASSUME IInv, NEW h \in Handlers, ForMiddesk(h)
  PROVE  Core'
<1>0. TypeOK /\ JobInv /\ WrittenInOrder /\ ListenerInv /\ EventInv /\ OrgStatusEarned /\ OrgFollowsRow
  BY DEF IInv
<1>1. ASSUME CreateBusiness(h)
      PROVE  Core'
  <2>1. PICK a, j : a = job[h].account /\ j = [job[h] EXCEPT !.pc = "row"]
    OBVIOUS
  <2>2. job[h] \in Job /\ HandlerInv(job[h]) /\ job[h].pc = "business" /\ a \in Founders
    BY <1>0, <1>1, <2>1, BusyIsJob DEF CreateBusiness, Waiting, JobInv, Job
  <2>3. /\ j \in Job /\ j.pc = "row" /\ j.account = a /\ j.person = job[h].person
    BY <2>1, <2>2 DEF Job, Waiting
  <2>4. /\ Goes(h, j) /\ business' = [business EXCEPT ![a] = "new"]
        /\ UNCHANGED <<people, org, row, sent, mixed>>
    BY <1>1, <2>1 DEF CreateBusiness
  <2>5. business'[a] = "new" /\ \A b \in Founders : b # a => business'[b] = business[b]
    BY <1>0, <2>2, <2>4 DEF TypeOK
  <2>6. Keeps
    BY <2>4, <2>5 DEF Keeps, people
  <2>7. org[a] # "none" /\ business[a] = "none" /\ row[a] = "none"
    BY <1>0, <2>1, <2>2 DEF HandlerInv, WrittenInOrder
  <2>8. HandlerInv(j)'
    BY <2>1, <2>2, <2>3, <2>4, <2>5, <2>7 DEF HandlerInv, people
  <2>9. \A g \in Handlers \ {h} : StillToDo(job[g])
    <3>1. ASSUME NEW g \in Handlers, g # h, job[g].pc \in {"business", "row"}
          PROVE  StillToDo(job[g])
      <4>1. job[g] \in Job /\ HandlerInv(job[g])
        BY <1>0, <3>1, BusyIsJob DEF Waiting, JobInv
      <4>2. job[g].account # a
        BY <1>0, <2>1, <2>2, <3>1 DEF ListenerInv
      <4>. QED
        BY <2>4, <2>5, <3>1, <4>1, <4>2 DEF StillToDo, HandlerInv, Job
    <3>. QED
      BY <3>1 DEF StillToDo
  <2>10. JobInv'
    BY <1>0, <2>3, <2>4, <2>6, <2>8, <2>9, JobsKeep
  <2>11. \A g \in Handlers : job'[g] = IF g = h THEN j ELSE job[g]
    BY <1>0, <2>4, Moved
  <2>12. ListenerInv'
    BY <1>0, <2>1, <2>2, <2>3, <2>11, ListenersStay
  <2>13. EventInv' /\ OrgStatusEarned' /\ OrgFollowsRow'
    <3>1. \A g \in Handlers : \/ job'[g] = job[g]
                              \/ /\ job[g].pc \notin {"update", "summary"}
                                 /\ job'[g].pc \notin {"update", "summary"}
      BY <2>2, <2>3, <2>11
    <3>2. ASSUME NEW b \in Founders
          PROVE  /\ Updating(b)' = Updating(b)
                 /\ \A g \in Updating(b) : job'[g] = job[g]
      BY <3>1 DEF Updating
    <3>3. EventInv'
      BY <1>0, <2>4, <3>2 DEF EventInv, StatusOf
    <3>4. OrgStatusEarned'
      BY <1>0, <2>4 DEF OrgStatusEarned, StatusOf
    <3>5. OrgFollowsRow'
      BY <1>0, <2>4, <3>2 DEF OrgFollowsRow
    <3>. QED
      BY <3>3, <3>4, <3>5
  <2>14. WrittenInOrder'
    BY <1>0, <2>4, <2>5, <2>7 DEF WrittenInOrder, people
  <2>. QED
    BY <2>10, <2>12, <2>13, <2>14 DEF Core
<1>2. ASSUME CreateRow(h)
      PROVE  Core'
  <2>1. PICK a : a = job[h].account
    OBVIOUS
  <2>2. job[h] \in Job /\ HandlerInv(job[h]) /\ job[h].pc = "row" /\ a \in Founders
    BY <1>0, <1>2, <2>1, BusyIsJob DEF CreateRow, Waiting, JobInv, Job
  <2>3. /\ Goes(h, Idle) /\ row' = [row EXCEPT ![a] = "Pending"]
        /\ UNCHANGED <<people, org, outside, mixed>>
    BY <1>2, <2>1 DEF CreateRow
  <2>4. row'[a] = "Pending" /\ \A b \in Founders : b # a => row'[b] = row[b]
    BY <1>0, <2>2, <2>3 DEF TypeOK
  <2>5. Keeps
    BY <2>3, <2>4 DEF Keeps, people, outside
  <2>6. business[a] # "none" /\ row[a] = "none" /\ org[a] # "none"
    BY <1>0, <2>1, <2>2 DEF HandlerInv, WrittenInOrder
  <2>7. \A g \in Handlers \ {h} : StillToDo(job[g])
    <3>1. ASSUME NEW g \in Handlers, g # h, job[g].pc \in {"business", "row"}
          PROVE  StillToDo(job[g])
      <4>1. job[g] \in Job /\ HandlerInv(job[g])
        BY <1>0, <3>1, BusyIsJob DEF Waiting, JobInv
      <4>2. job[g].account # a
        BY <1>0, <2>1, <2>2, <3>1 DEF ListenerInv
      <4>. QED
        BY <2>3, <2>4, <3>1, <4>1, <4>2 DEF StillToDo, HandlerInv, Job, outside
    <3>. QED
      BY <3>1 DEF StillToDo
  <2>8. JobInv'
    BY <1>0, <2>3, <2>5, <2>7, JobsKeep
  <2>9. \A g \in Handlers : job'[g] = IF g = h THEN Idle ELSE job[g]
    BY <1>0, <2>3, Moved
  <2>10. ListenerInv'
    BY <1>0, <2>9 DEF ListenerInv, Idle
  <2>11. \A b : Updating(b)' = Updating(b)
    BY <2>2, <2>9 DEF Updating, Idle
  <2>12. \A b : \A g \in Updating(b) : job'[g] = job[g]
    BY <2>2, <2>9 DEF Updating
  <2>13. \A g \in Updating(a) : job[g].pc # "summary"
    <3>1. ASSUME NEW g \in Updating(a), job[g].pc = "summary" PROVE FALSE
      <4>1. HandlerInv(job[g]) /\ job[g].account = a
        BY <1>0, <3>1, BusyIsJob DEF Updating, Waiting, JobInv
      <4>. QED
        BY <2>6, <3>1, <4>1 DEF HandlerInv
    <3>. QED
      BY <3>1
  <2>14. EventInv'
    <3>1. ASSUME NEW b \in Founders \ mixed, NEW f \in Updating(b), NEW g \in Updating(b)
          PROVE  f = g /\ (job[g].pc = "summary" => row'[b] = StatusOf(job[g].status))
      BY <1>0, <2>4, <2>13, <3>1 DEF EventInv
    <3>. QED
      BY <2>3, <2>11, <2>12, <3>1 DEF EventInv, StatusOf
  <2>15. OrgStatusEarned'
    BY <1>0, <2>3, <2>4 DEF OrgStatusEarned, StatusOf, outside
  <2>16. OrgFollowsRow'
    <3>1. ASSUME NEW b \in Founders \ mixed, \A g \in Updating(b) : job[g].pc # "summary"
          PROVE  \/ org[b] = row'[b]
                 \/ org[b] = "Unverified" /\ row'[b] \in {"none", "Pending"}
      BY <1>0, <2>4, <2>6, <3>1 DEF OrgFollowsRow
    <3>. QED
      BY <2>3, <2>11, <2>12, <3>1 DEF OrgFollowsRow
  <2>17. WrittenInOrder'
    BY <1>0, <2>3, <2>4, <2>6 DEF WrittenInOrder, people, outside
  <2>. QED
    BY <2>8, <2>10, <2>14, <2>15, <2>16, <2>17 DEF Core
<1>3. ASSUME UpdateRow(h), row[job[h].account] = "none"
      PROVE  Core'
  <2>1. Goes(h, Idle) /\ job[h].pc = "update" /\ UNCHANGED <<people, org, row, outside, mixed>>
    BY <1>3 DEF UpdateRow
  <2>2. Keeps
    BY <2>1 DEF Keeps, people, outside
  <2>3. JobInv'
    BY <1>0, <2>1, <2>2, WorkStays, JobsKeep DEF outside
  <2>4. ListenerInv' /\ EventInv' /\ OrgStatusEarned' /\ OrgFollowsRow'
    BY <2>1, StatusesStay DEF outside, Idle
  <2>5. WrittenInOrder'
    BY <1>0, <2>1 DEF WrittenInOrder, people, outside
  <2>. QED
    BY <2>3, <2>4, <2>5 DEF Core
<1>4. ASSUME UpdateRow(h), row[job[h].account] # "none"
      PROVE  Core'
  <2>1. PICK a, s, j : a = job[h].account /\ s = job[h].status /\ j = [job[h] EXCEPT !.pc = "summary"]
    OBVIOUS
  <2>2. /\ job[h] \in Job /\ HandlerInv(job[h]) /\ job[h].pc = "update" /\ a \in Founders
        /\ s \in MiddeskStatus /\ row[a] # "none"
    BY <1>0, <1>4, <2>1, BusyIsJob DEF UpdateRow, Waiting, JobInv, Job, HandlerInv
  <2>3. j \in Job /\ j.pc = "summary" /\ j.account = a /\ j.status = s /\ j.person = job[h].person
    BY <2>1, <2>2 DEF Job, Waiting
  <2>4. PICK v : v = StatusOf(s)
    OBVIOUS
  <2>5. /\ Goes(h, j) /\ row' = [row EXCEPT ![a] = v]
        /\ UNCHANGED <<people, org, outside, mixed>>
    BY <1>4, <2>1, <2>4 DEF UpdateRow
  <2>6. v # "none" /\ row'[a] = v /\ \A b \in Founders : b # a => row'[b] = row[b]
    BY <1>0, <2>2, <2>4, <2>5, StatusType DEF TypeOK
  <2>7. Keeps
    BY <2>5, <2>6 DEF Keeps, people, outside
  <2>8. HandlerInv(j)'
    BY <2>1, <2>2, <2>3, <2>5, <2>6 DEF HandlerInv, outside
  <2>9. \A g \in Handlers \ {h} : StillToDo(job[g])
    <3>1. ASSUME NEW g \in Handlers, g # h, job[g].pc \in {"business", "row"}
          PROVE  StillToDo(job[g])
      <4>1. job[g] \in Job /\ HandlerInv(job[g])
        BY <1>0, <3>1, BusyIsJob DEF Waiting, JobInv
      <4>2. row[job[g].account] = "none"
        BY <1>0, <3>1, <4>1 DEF HandlerInv, WrittenInOrder, Job
      <4>. QED
        BY <2>2, <2>5, <2>6, <3>1, <4>1, <4>2 DEF StillToDo, HandlerInv, Job, outside
    <3>. QED
      BY <3>1 DEF StillToDo
  <2>10. JobInv'
    BY <1>0, <2>3, <2>5, <2>7, <2>8, <2>9, JobsKeep
  <2>11. \A g \in Handlers : job'[g] = IF g = h THEN j ELSE job[g]
    BY <1>0, <2>5, Moved
  <2>12. ListenerInv'
    BY <1>0, <2>3, <2>11 DEF ListenerInv
  <2>13. h \in Updating(a) /\ \A b : Updating(b)' = Updating(b)
    <3>1. h \in Updating(a)
      BY <2>1, <2>2 DEF Updating
    <3>2. \A g \in Handlers : /\ job'[g].pc \in {"update", "summary"} <=> job[g].pc \in {"update", "summary"}
                              /\ job'[g].account = job[g].account
      BY <2>1, <2>2, <2>3, <2>11
    <3>. QED
      BY <3>1, <3>2 DEF Updating
  <2>14. EventInv'
    <3>1. ASSUME NEW b \in Founders \ mixed, NEW f \in Updating(b), NEW g \in Updating(b)
          PROVE  f = g /\ (job'[g].pc = "summary" => row'[b] = StatusOf(job'[g].status))
      <4>1. f = g /\ (job[g].pc = "summary" => row[b] = StatusOf(job[g].status)) /\ job[g].account = b
        BY <1>0, <3>1 DEF EventInv, Updating
      <4>2. CASE g = h
        BY <2>1, <2>3, <2>4, <2>6, <2>11, <4>1, <4>2
      <4>3. CASE g # h
        <5>1. b # a
          BY <1>0, <2>13, <3>1, <4>3 DEF EventInv
        <5>. QED
          BY <2>6, <2>11, <3>1, <4>1, <4>3, <5>1 DEF Updating
      <4>. QED
        BY <4>2, <4>3
    <3>. QED
      BY <2>5, <2>13, <3>1 DEF EventInv, StatusOf
  <2>15. OrgStatusEarned'
    BY <1>0, <2>5, <2>6 DEF OrgStatusEarned, StatusOf, outside
  <2>16. OrgFollowsRow'
    <3>1. ASSUME NEW b \in Founders \ mixed, \A g \in Updating(b) : job'[g].pc # "summary"
          PROVE  \/ org[b] = row'[b]
                 \/ org[b] = "Unverified" /\ row'[b] \in {"none", "Pending"}
      <4>1. b # a
        BY <2>3, <2>11, <2>13, <3>1
      <4>2. \A g \in Updating(b) : job[g].pc # "summary"
        BY <2>2, <2>11, <3>1 DEF Updating
      <4>. QED
        BY <1>0, <2>6, <3>1, <4>1, <4>2 DEF OrgFollowsRow
    <3>. QED
      BY <2>5, <2>13, <3>1 DEF OrgFollowsRow
  <2>17. WrittenInOrder'
    BY <1>0, <2>2, <2>5, <2>6 DEF WrittenInOrder, people, outside
  <2>. QED
    BY <2>10, <2>12, <2>14, <2>15, <2>16, <2>17 DEF Core
<1>5. ASSUME UpdateOrg(h)
      PROVE  Core'
  <2>1. PICK a, s : a = job[h].account /\ s = job[h].status
    OBVIOUS
  <2>2. /\ job[h] \in Job /\ job[h].pc = "summary" /\ a \in Founders
        /\ s \in MiddeskStatus /\ <<a, s>> \in sent /\ row[a] # "none"
    BY <1>0, <1>5, <2>1, BusyIsJob DEF UpdateOrg, Waiting, JobInv, Job, HandlerInv
  <2>3. PICK v : v = StatusOf(s)
    OBVIOUS
  <2>4. /\ Goes(h, Idle) /\ org' = [org EXCEPT ![a] = v]
        /\ UNCHANGED <<people, row, outside, mixed>>
    BY <1>5, <2>1, <2>3 DEF UpdateOrg
  <2>5. v # "none" /\ org'[a] = v /\ \A b \in Founders : b # a => org'[b] = org[b]
    BY <1>0, <2>2, <2>3, <2>4, StatusType DEF TypeOK
  <2>6. Keeps
    BY <2>4, <2>5 DEF Keeps, people, outside
  <2>7. JobInv'
    BY <1>0, <2>4, <2>6, WorkStays, JobsKeep DEF outside
  <2>8. \A g \in Handlers : job'[g] = IF g = h THEN Idle ELSE job[g]
    BY <1>0, <2>4, Moved
  <2>9. ListenerInv'
    BY <1>0, <2>8 DEF ListenerInv, Idle
  <2>10. h \in Updating(a) /\ \A b : Updating(b)' = Updating(b) \ {h}
    BY <2>1, <2>2, <2>8 DEF Updating, Idle
  <2>11. \A b : \A g \in Updating(b)' : job'[g] = job[g]
    BY <2>8 DEF Updating, Idle
  <2>12. EventInv'
    BY <1>0, <2>4, <2>10, <2>11 DEF EventInv, StatusOf
  <2>13. OrgStatusEarned'
    <3>1. ASSUME NEW b \in Founders, org'[b] \notin {"none", "Unverified"}
          PROVE  row[b] # "none" /\ \E t \in MiddeskStatus : <<b, t>> \in sent /\ org'[b] = StatusOf(t)
      BY <1>0, <2>2, <2>3, <2>5, <3>1 DEF OrgStatusEarned
    <3>. QED
      BY <2>4, <3>1 DEF OrgStatusEarned, StatusOf, outside
  <2>14. OrgFollowsRow'
    <3>1. ASSUME NEW b \in Founders \ mixed, \A g \in Updating(b)' : job'[g].pc # "summary"
          PROVE  \/ org'[b] = row[b]
                 \/ org'[b] = "Unverified" /\ row[b] \in {"none", "Pending"}
      <4>1. CASE b = a
        BY <1>0, <2>1, <2>2, <2>3, <2>5, <2>10, <3>1, <4>1 DEF EventInv
      <4>2. CASE b # a
        <5>1. \A g \in Updating(b) : job[g].pc # "summary"
          BY <2>1, <2>8, <3>1, <4>2 DEF Updating, Idle
        <5>. QED
          BY <1>0, <2>5, <3>1, <4>2, <5>1 DEF OrgFollowsRow
      <4>. QED
        BY <4>1, <4>2
    <3>. QED
      BY <2>4, <3>1 DEF OrgFollowsRow
  <2>15. WrittenInOrder'
    BY <1>0, <2>2, <2>4, <2>5 DEF WrittenInOrder, people, outside
  <2>. QED
    BY <2>7, <2>9, <2>12, <2>13, <2>14, <2>15 DEF Core
<1>. QED
  BY <1>1, <1>2, <1>3, <1>4, <1>5 DEF ForMiddesk

LEMMA InvNext == IInv /\ [Next]_vars => IInv'
<1>. SUFFICES ASSUME IInv, [Next]_vars PROVE IInv'
  OBVIOUS
<1>0. TypeOK /\ JobInv /\ WrittenInOrder /\ ListenerInv /\ EventInv /\ OrgStatusEarned /\ OrgFollowsRow
  BY DEF IInv
<1>1. TypeOK'
  BY TypeNext DEF IInv
<1>2. ASSUME NEW h \in Handlers, Throws(h) PROVE Core'
  <2>1. /\ Goes(h, Idle) /\ UNCHANGED <<people, org, row, outside>>
        /\ mixed' = IF job[h].pc = "summary" THEN mixed \cup {job[h].account} ELSE mixed
    BY <1>2 DEF Throws
  <2>2. Keeps
    BY <2>1 DEF Keeps, people, outside
  <2>3. JobInv'
    BY <1>0, <2>1, <2>2, WorkStays, JobsKeep DEF outside
  <2>4. \A g \in Handlers : job'[g] = IF g = h THEN Idle ELSE job[g]
    BY <1>0, <2>1, Moved
  <2>5. ListenerInv'
    BY <1>0, <2>4 DEF ListenerInv, Idle
  <2>6. \A b : Updating(b)' = Updating(b) \ {h}
    BY <2>4 DEF Updating, Idle
  <2>7. \A b : \A g \in Updating(b)' : job'[g] = job[g]
    BY <2>4 DEF Updating, Idle
  <2>8. EventInv'
    BY <1>0, <2>1, <2>6, <2>7 DEF EventInv, StatusOf
  <2>9. OrgStatusEarned'
    BY <1>0, <2>1 DEF OrgStatusEarned, StatusOf, outside
  <2>10. OrgFollowsRow'
    <3>1. ASSUME NEW b \in Founders \ mixed', \A g \in Updating(b)' : job'[g].pc # "summary"
          PROVE  \/ org[b] = row[b]
                 \/ org[b] = "Unverified" /\ row[b] \in {"none", "Pending"}
      <4>1. \A g \in Updating(b) : job[g].pc # "summary"
        BY <2>1, <2>6, <2>7, <3>1 DEF Updating
      <4>. QED
        BY <1>0, <2>1, <3>1, <4>1 DEF OrgFollowsRow
    <3>. QED
      BY <2>1, <3>1 DEF OrgFollowsRow
  <2>11. WrittenInOrder'
    BY <1>0, <2>1 DEF WrittenInOrder, people, outside
  <2>. QED
    BY <2>3, <2>5, <2>8, <2>9, <2>10, <2>11 DEF Core
<1>3. ASSUME NEW a \in Founders, NEW s \in MiddeskStatus, MiddeskReports(a, s) PROVE Core'
  <2>1. /\ business[a] # "none" /\ business' = [business EXCEPT ![a] = s]
        /\ sent' = sent \cup {<<a, s>>} /\ UNCHANGED <<people, org, row, mixed, job>>
    BY <1>3 DEF MiddeskReports
  <2>2. business'[a] = s /\ s # "none" /\ \A b \in Founders : b # a => business'[b] = business[b]
    BY <1>0, <2>1, RegistrationAssumption DEF TypeOK
  <2>3. Keeps
    BY <2>1, <2>2 DEF Keeps, people
  <2>4. \A g \in Handlers : job[g] # Idle => job[g] \in Job /\ HandlerInv(job[g])
    BY <1>0 DEF TypeOK, JobInv, Busy
  <2>5. \A g \in Handlers : job[g] # Idle => StillToDo(job[g])
    BY <2>1, <2>2, <2>4 DEF StillToDo, HandlerInv, Job
  <2>6. ASSUME NEW g \in Handlers, NEW k, k = job[g], k # Idle
        PROVE  HandlerInv(k)'
    <3>1. k \in Job /\ HandlerInv(k) /\ StillToDo(k)
      BY <2>4, <2>5, <2>6 DEF StillToDo
    <3>. QED
      BY <2>3, <3>1, HandlerKeeps
  <2>7. JobInv'
    BY <2>1, <2>6 DEF JobInv, Busy, HandlerInv
  <2>8. ListenerInv' /\ EventInv' /\ OrgFollowsRow' /\ OrgStatusEarned'
    BY <1>0, <2>1 DEF ListenerInv, EventInv, OrgFollowsRow, OrgStatusEarned, Updating, StatusOf
  <2>9. WrittenInOrder'
    BY <1>0, <2>1, <2>2 DEF WrittenInOrder, people
  <2>. QED
    BY <2>7, <2>8, <2>9 DEF Core
<1>4. ASSUME UNCHANGED vars PROVE Core'
  <2>1. UNCHANGED <<account, token, user, linked, owner, sent, org, business, row, mixed, job>>
    BY <1>4 DEF vars, people, outside
  <2>2. JobInv'
    BY <1>0, <2>1 DEF JobInv, Busy, HandlerInv
  <2>3. ListenerInv'
    BY <1>0, <2>1 DEF ListenerInv
  <2>4. EventInv' /\ OrgFollowsRow'
    BY <1>0, <2>1 DEF EventInv, OrgFollowsRow, Updating, StatusOf
  <2>5. OrgStatusEarned' /\ WrittenInOrder'
    BY <1>0, <2>1 DEF OrgStatusEarned, WrittenInOrder, StatusOf
  <2>. QED
    BY <2>2, <2>3, <2>4, <2>5 DEF Core
<1>5. Core'
  BY <1>2, <1>3, <1>4, CoreBegin, CoreSignUp, CoreMiddesk DEF Next
<1>. QED
  BY <1>1, <1>5 DEF IInv, Core

LEMMA InvInit == Init => IInv
BY TypeInit, CoreInit DEF IInv, Core

-----------------------------------------------------------------------------
(***************************************************************************)
(* Theorems                                                                *)
(***************************************************************************)

\* Whatever overlaps, comes twice or fails, every handler finds what it goes
\* on from, and the three properties below hold.
THEOREM RegistrationInductive == Spec => []IInv
BY InvInit, InvNext, PTL DEF Spec

\* What sign-ups and listeners leave behind, wherever they end, is written in
\* the order of the code: no user without account and token, no organization
\* without account, no check without business and organization.
THEOREM RegistrationOrdered == Spec => []WrittenInOrder
<1>1. IInv => WrittenInOrder
  BY DEF IInv
<1>. QED
  BY <1>1, RegistrationInductive, PTL

\* No organization is Pending, Approved or Rejected that Middesk has not
\* reported to be.
THEOREM OrgStatusesEarned == Spec => []OrgStatusEarned
<1>1. IInv => OrgStatusEarned
  BY DEF IInv
<1>. QED
  BY <1>1, RegistrationInductive, PTL

\* While its events come one at a time, an organization says what the check
\* on record says.
THEOREM OrgsFollowRows == Spec => []OrgFollowsRow
<1>1. IInv => OrgFollowsRow
  BY DEF IInv
<1>. QED
  BY <1>1, RegistrationInductive, PTL
=============================================================================
