--------------------------- MODULE MembersProofs ---------------------------
(***************************************************************************)
(* The types of Members and its properties but for the one of liveness,    *)
(* for any number of members, permissions and handlers.  The argument: a   *)
(* handler concerns one member only, so what the invariant says of the     *)
(* others stays (OtherMembers), and a handler that nothing disturbed is    *)
(* the only one on its member, so what it knows of it is still true.       *)
(***************************************************************************)
EXTENDS Members, TLAPS

-----------------------------------------------------------------------------
(***************************************************************************)
(* Types                                                                   *)
(***************************************************************************)

\* A handler that waits has a job.
LEMMA BusyIsJob ==
  ASSUME TypeOK, NEW h \in Handlers, job[h].pc \in Waiting
  PROVE  job[h] \in Job /\ Busy(h) /\ h \in On(job[h].member) /\ job[h].member \in Members
<1>1. job[h] \in Job \cup {Idle}
  BY DEF TypeOK
<1>2. job[h] # Idle
  BY DEF Idle, Waiting
<1>. QED
  BY <1>1, <1>2 DEF Busy, On, Job

LEMMA JobIsNotIdle == ASSUME NEW j \in Job PROVE j # Idle
BY DEF Job, Idle, Waiting

LEMMA Moved ==
  ASSUME TypeOK, NEW h \in Handlers, NEW j, Goes(h, j)
  PROVE  \A g \in Handlers : job'[g] = IF g = h THEN j ELSE job[g]
BY DEF Goes, TypeOK

LEMMA TypeJobStep ==
  ASSUME TypeOK, NEW h \in Handlers, NEW j \in Job \cup {Idle}, Goes(h, j)
  PROVE  job' \in [Handlers -> Job \cup {Idle}]
BY DEF TypeOK, Goes

LEMMA NewJobType ==
  ASSUME NEW kind \in Kind, NEW m \in Members, NEW by \in Tokens \cup {{}}, NEW ask \in Requested \cup {{}}
  PROVE  NewJob(kind, m, by, ask) \in Job
BY DEF NewJob, Job, Waiting

LEMMA IntendedType ==
  ASSUME NEW j \in Job
  PROVE  /\ Intended(j) \in SUBSET Permission
         /\ ToAdd(j) \in SUBSET Permission /\ ToRemove(j) \in SUBSET Permission
<1>1. j.known \in SUBSET Permission /\ j.ask \in SUBSET Permission
  BY MembersAssumption DEF Job
<1>. QED
  BY <1>1 DEF Intended, ToAdd, ToRemove

LEMMA TypeInit == Init => TypeOK
BY DEF Init, TypeOK

LEMMA TypeEnters ==
  ASSUME TypeOK, NEW h \in Handlers, NEW m \in Members, Enters(h, m)
  PROVE  alone' \in SUBSET Handlers /\ settled' \in SUBSET Members /\ parted' \in SUBSET Members
BY DEF TypeOK, Enters

LEMMA TypeLeaves ==
  ASSUME TypeOK, NEW h \in Handlers, job[h].pc \in Waiting, Leaves(h)
  PROVE  alone' \in SUBSET Handlers /\ settled' \in SUBSET Members
BY BusyIsJob DEF TypeOK, Leaves

LEMMA TypeBegin ==
  ASSUME TypeOK, NEW h \in Handlers, Begin(h)
  PROVE  TypeOK'
<1>1. ASSUME NEW m \in Members, Show(h, m) PROVE TypeOK'
  <2>1. NewJob("show", m, {}, {}) \in Job
    BY NewJobType DEF Kind
  <2>2. job' \in [Handlers -> Job \cup {Idle}]
    BY <1>1, <2>1, TypeJobStep DEF Show
  <2>. QED
    BY <1>1, <2>2, TypeEnters DEF Show, TypeOK, outside
<1>2. ASSUME NEW m \in Members, NEW kind \in {"add", "remove", "edit", "block"},
             NEW by \in Tokens, NEW ask \in Requested \cup {{}}, Change(h, m, kind, by, ask)
      PROVE  TypeOK'
  <2>1. NewJob(kind, m, by, ask) \in Job
    BY NewJobType DEF Kind
  <2>2. job' \in [Handlers -> Job \cup {Idle}]
    BY <1>2, <2>1, TypeJobStep DEF Change
  <2>. QED
    BY <1>2, <2>2, TypeEnters DEF Change, TypeOK, outside
<1>3. ASSUME NEW m \in Members, NEW to \in BOOLEAN, Platform(h, m, to) PROVE TypeOK'
  <2>1. [NewJob("platform", m, {}, {}) EXCEPT !.pc = "authBlock", !.to = to] \in Job
    BY DEF NewJob, Job, Kind, Waiting
  <2>2. job' \in [Handlers -> Job \cup {Idle}]
    BY <1>3, <2>1, TypeJobStep DEF Platform
  <2>. QED
    BY <1>3, <2>2, TypeEnters DEF Platform, TypeOK, outside
<1>. QED
  BY <1>1, <1>2, <1>3 DEF Begin

LEMMA TypeProceeds ==
  ASSUME TypeOK, NEW h \in Handlers, Proceeds(h)
  PROVE  TypeOK'
<1>1. ASSUME Read(h) PROVE TypeOK'
  <2>1. job[h] \in Job /\ perms[job[h].member] \in SUBSET Permission
    BY <1>1, BusyIsJob DEF Read, Waiting, TypeOK
  <2>2. [job[h] EXCEPT !.pc = "save", !.known = perms[job[h].member]] \in Job
    BY <2>1 DEF Job, Waiting
  <2>3. job' \in [Handlers -> Job \cup {Idle}]
    BY <1>1, <2>2, TypeJobStep DEF Read
  <2>. QED
    BY <1>1, <2>3 DEF Read, TypeOK, outside, history
<1>2. ASSUME Save(h) PROVE TypeOK'
  <2>1. job[h] \in Job /\ job[h].member \in Members /\ job[h].known \in SUBSET Permission
    BY <1>2, BusyIsJob DEF Save, Waiting, Job
  <2>2. [job[h] EXCEPT !.pc = FirstStep(job[h])] \in Job
    BY <2>1 DEF Job, Waiting, FirstStep, AfterAdding
  <2>3. job' \in [Handlers -> Job \cup {Idle}]
    BY <1>2, <2>2, TypeJobStep DEF Save
  <2>4. alone' \in SUBSET Handlers /\ settled' \in SUBSET Members
    BY <1>2, TypeLeaves DEF Save, Waiting, TypeOK
  <2>5. cached' \in [Members -> SUBSET (SUBSET Permission)]
    BY <1>2, <2>1 DEF Save, TypeOK
  <2>. QED
    BY <1>2, <2>3, <2>4, <2>5 DEF Save, TypeOK, outside
<1>3. ASSUME NEW ok \in BOOLEAN, AddAtAuth0(h, ok) PROVE TypeOK'
  <2>1. job[h] \in Job /\ job[h].member \in Members /\ ToAdd(job[h]) \in SUBSET Permission
    BY <1>3, BusyIsJob, IntendedType DEF AddAtAuth0, Waiting
  <2>2. [job[h] EXCEPT !.pc = AfterAdding(job[h])] \in Job
    BY <2>1 DEF Job, Waiting, AfterAdding
  <2>3. job' \in [Handlers -> Job \cup {Idle}]
    BY <1>3, <2>2, TypeJobStep DEF AddAtAuth0
  <2>4. perms' \in [Members -> SUBSET Permission]
    BY <1>3, <2>1 DEF AddAtAuth0, TypeOK
  <2>. QED
    BY <1>3, <2>3, <2>4 DEF AddAtAuth0, TypeOK, Disturbed
<1>4. ASSUME NEW ok \in BOOLEAN, RemoveAtAuth0(h, ok) PROVE TypeOK'
  <2>1. job[h] \in Job /\ job[h].member \in Members /\ ToRemove(job[h]) \in SUBSET Permission
    BY <1>4, BusyIsJob, IntendedType DEF RemoveAtAuth0, Waiting
  <2>2. [job[h] EXCEPT !.pc = "cache"] \in Job
    BY <2>1 DEF Job, Waiting
  <2>3. job' \in [Handlers -> Job \cup {Idle}]
    BY <1>4, <2>2, TypeJobStep DEF RemoveAtAuth0
  <2>4. perms' \in [Members -> SUBSET Permission]
    BY <1>4, <2>1 DEF RemoveAtAuth0, TypeOK
  <2>. QED
    BY <1>4, <2>3, <2>4 DEF RemoveAtAuth0, TypeOK, Disturbed
<1>5. ASSUME NEW ok \in BOOLEAN, BlockAtAuth0(h, ok) PROVE TypeOK'
  <2>1. job[h] \in Job /\ job[h].member \in Members
    BY <1>5, BusyIsJob DEF BlockAtAuth0, Waiting
  <2>2. [job[h] EXCEPT !.pc = "dbBlock"] \in Job
    BY <2>1 DEF Job, Waiting
  <2>3. job' \in [Handlers -> Job \cup {Idle}]
    BY <1>5, <2>2, TypeJobStep DEF BlockAtAuth0
  <2>. QED
    BY <1>5, <2>1, <2>3 DEF BlockAtAuth0, TypeOK, Disturbed
<1>6. ASSUME CacheIntended(h) PROVE TypeOK'
  <2>1. job[h] \in Job /\ job[h].member \in Members /\ Intended(job[h]) \in SUBSET Permission
    BY <1>6, BusyIsJob, IntendedType DEF CacheIntended, Waiting
  <2>2. job' \in [Handlers -> Job \cup {Idle}]
    BY <1>6, TypeJobStep DEF CacheIntended
  <2>3. alone' \in SUBSET Handlers /\ settled' \in SUBSET Members
    BY <1>6, TypeLeaves DEF CacheIntended, Waiting
  <2>4. cached' \in [Members -> SUBSET (SUBSET Permission)]
    BY <1>6, <2>1 DEF CacheIntended, TypeOK
  <2>. QED
    BY <1>6, <2>2, <2>3, <2>4 DEF CacheIntended, TypeOK, outside
<1>7. ASSUME BlockInDb(h) PROVE TypeOK'
  <2>1. job[h] \in Job /\ job[h].member \in Members
    BY <1>7, BusyIsJob DEF BlockInDb, Waiting
  <2>2. job' \in [Handlers -> Job \cup {Idle}]
    BY <1>7, TypeJobStep DEF BlockInDb
  <2>3. alone' \in SUBSET Handlers /\ settled' \in SUBSET Members
    BY <1>7, TypeLeaves DEF BlockInDb, Waiting
  <2>. QED
    BY <1>7, <2>1, <2>2, <2>3 DEF BlockInDb, TypeOK, outside
<1>. QED
  BY <1>1, <1>2, <1>3, <1>4, <1>5, <1>6, <1>7 DEF Proceeds

LEMMA TypeNext == TypeOK /\ [Next]_vars => TypeOK'
<1>. SUFFICES ASSUME TypeOK, [Next]_vars PROVE TypeOK'
  OBVIOUS
<1>1. ASSUME NEW h \in Handlers, Throws(h) PROVE TypeOK'
  <2>1. job' \in [Handlers -> Job \cup {Idle}] /\ job[h].member \in Members
    BY <1>1, TypeJobStep DEF Throws, Busy, TypeOK, Job
  <2>. QED
    BY <1>1, <2>1 DEF Throws, TypeOK, outside
<1>2. ASSUME NEW m \in Members, CacheExpires(m) PROVE TypeOK'
  BY <1>2 DEF CacheExpires, TypeOK, outside, history
<1>3. ASSUME UNCHANGED vars PROVE TypeOK'
  BY <1>3 DEF TypeOK, vars, outside, history
<1>4. ASSUME NEW m \in Members, NEW b \in BOOLEAN, CompleteProfile(m, b) PROVE TypeOK'
  BY <1>4 DEF CompleteProfile, TypeOK, outside
<1>. QED
  BY <1>1, <1>2, <1>3, <1>4, TypeBegin, TypeProceeds DEF Next

\* Every reachable state has its types.
THEOREM MembersTypes == Spec => []TypeOK
BY TypeInit, TypeNext, PTL DEF Spec

-----------------------------------------------------------------------------
(***************************************************************************)
(* The invariant, member by member                                         *)
(***************************************************************************)

AloneOn(m) == \A h \in alone \cap On(m) : On(m) = {h} /\ Knows(job[h])

SettledAt(m) == m \in settled => On(m) = {} /\ cached[m] \subseteq {perms[m]}

PartedAt(m) ==
  m \notin parted =>
    /\ \A h \in On(m) : job[h].pc = "dbBlock" => On(m) = {h} /\ (m \in authBlocked <=> job[h].to)
    /\ (\A h \in On(m) : job[h].pc # "dbBlock") => (m \in authBlocked <=> m \in dbBlocked)

MemberInv(m) == AloneOn(m) /\ SettledAt(m) /\ PartedAt(m)

AloneBusy == \A h \in alone : Busy(h)

LEMMA OnType ==
  ASSUME TypeOK, NEW m \in Members, NEW h \in On(m)
  PROVE  h \in Handlers /\ job[h] \in Job /\ job[h].member = m
BY DEF TypeOK, On, Busy

LEMMA Parts ==
  ASSUME TypeOK
  PROVE  IInv <=> JobInv /\ AloneBusy /\ \A m \in Members : MemberInv(m)
<1>1. ASSUME IInv PROVE JobInv /\ AloneBusy /\ \A m \in Members : MemberInv(m)
  <2>1. ASSUME NEW m \in Members PROVE MemberInv(m)
    <3>1. AloneOn(m)
      BY <1>1, OnType DEF IInv, AloneInv, AloneOn
    <3>2. SettledAt(m)
      BY <1>1 DEF IInv, SettledInv, CacheTrue, SettledAt
    <3>3. PartedAt(m)
      BY <1>1, OnType DEF IInv, PartedInv, BlockedBoth, PartedAt
    <3>. QED
      BY <3>1, <3>2, <3>3 DEF MemberInv
  <2>. QED
    BY <1>1, <2>1 DEF IInv, AloneInv, AloneBusy
<1>2. ASSUME JobInv, AloneBusy, \A m \in Members : MemberInv(m) PROVE IInv
  <2>1. \A h \in Handlers : Busy(h) => job[h].member \in Members /\ h \in On(job[h].member)
    BY DEF TypeOK, Busy, On, Job
  <2>2. AloneInv
    BY <1>2, <2>1 DEF AloneBusy, MemberInv, AloneOn, AloneInv, TypeOK
  <2>3. SettledInv /\ CacheTrue
    BY <1>2 DEF MemberInv, SettledAt, SettledInv, CacheTrue, TypeOK
  <2>4. PartedInv
    <3>1. \A h \in Handlers : job[h].pc = "dbBlock" => Busy(h)
      BY DEF Busy, Idle
    <3>. QED
      BY <1>2, <2>1, <3>1 DEF MemberInv, PartedAt, PartedInv
  <2>5. BlockedBoth
    BY <1>2 DEF MemberInv, PartedAt, BlockedBoth
  <2>. QED
    BY <1>2, <2>2, <2>3, <2>4, <2>5 DEF IInv
<1>. QED
  BY <1>1, <1>2

\* Who is on a member after a step of a handler of that member.
LEMMA OnMoves ==
  ASSUME TypeOK, NEW h \in Handlers, NEW m \in Members, NEW j \in Job \cup {Idle}, Goes(h, j),
         j \in Job => j.member = m, Busy(h) => job[h].member = m
  PROVE  /\ On(m)' = IF j \in Job THEN On(m) \cup {h} ELSE On(m) \ {h}
         /\ \A g \in On(m)' : g # h => job'[g] = job[g] /\ g \in On(m)
         /\ \A n \in Members : n # m =>
               On(n)' = On(n) /\ h \notin On(n) /\ \A g \in On(n) : job'[g] = job[g]
<1>1. \A g \in Handlers : job'[g] = IF g = h THEN j ELSE job[g]
  BY Moved
<1>2. j \in Job <=> j # Idle
  BY JobIsNotIdle
<1>. QED
  BY <1>1, <1>2 DEF On, Busy

\* What the invariant says of one member stays when a handler moves that is on
\* another.
LEMMA OtherMembers ==
  ASSUME TypeOK, NEW h \in Handlers, NEW m \in Members, NEW j \in Job \cup {Idle}, Goes(h, j),
         j \in Job => j.member = m, Busy(h) => job[h].member = m,
         \A g \in alone' : g \in alone \/ g = h,
         NEW n \in Members, n # m, MemberInv(n),
         perms'[n] = perms[n], cached'[n] = cached[n],
         n \in settled' => n \in settled, n \in parted => n \in parted',
         n \in authBlocked' <=> n \in authBlocked, n \in dbBlocked' <=> n \in dbBlocked
  PROVE  MemberInv(n)'
<1>1. On(n)' = On(n) /\ h \notin On(n) /\ \A g \in On(n) : job'[g] = job[g]
  BY OnMoves
<1>2. ASSUME NEW g \in alone', g \in On(n), NEW k, k = job'[g]
      PROVE  On(n) = {g} /\ Knows(k)'
  <2>1. k = job[g] /\ k.member = n /\ On(n) = {g} /\ Knows(k)
    BY <1>1, <1>2, OnType DEF MemberInv, AloneOn, Knows
  <2>. QED
    BY <2>1 DEF Knows
<1>3. AloneOn(n)'
  BY <1>1, <1>2 DEF AloneOn, Knows
<1>4. SettledAt(n)'
  BY <1>1 DEF MemberInv, SettledAt
<1>5. PartedAt(n)'
  BY <1>1 DEF MemberInv, PartedAt
<1>. QED
  BY <1>3, <1>4, <1>5 DEF MemberInv

\* A handler that starts.
LEMMA InvEnters ==
  ASSUME TypeOK, IInv, NEW h \in Handlers, NEW m \in Members, NEW j \in Job, Goes(h, j),
         job[h] = Idle, Enters(h, m), j.member = m,
         j.pc \in {"read", "authBlock"}, j.pc = "authBlock" => j.kind = "platform",
         UNCHANGED <<outside, cached, dbBlocked>>
  PROVE  \A n \in Members : MemberInv(n)'
<1>0. JobInv /\ AloneBusy /\ \A n \in Members : MemberInv(n)
  BY Parts
<1>1. /\ On(m)' = On(m) \cup {h}
      /\ \A g \in On(m)' : g # h => job'[g] = job[g] /\ g \in On(m)
      /\ job'[h] = j
  BY OnMoves, Moved DEF Busy
<1>2. h \notin On(m) /\ h \notin alone
  BY <1>0 DEF AloneBusy, On, Busy
<1>3. AloneOn(m)'
  <2>1. CASE On(m) = {}
    <3>1. On(m)' = {h}
      BY <1>1, <2>1
    <3>2. ASSUME NEW k, k = job'[h] PROVE Knows(k)'
      BY <1>1, <3>2 DEF Knows
    <3>. QED
      BY <3>1, <3>2 DEF AloneOn, Knows
  <2>2. CASE On(m) # {}
    <3>1. alone' \cap On(m)' = {}
      BY <1>1, <1>2, <2>2 DEF Enters
    <3>. QED
      BY <3>1 DEF AloneOn
  <2>. QED
    BY <2>1, <2>2
<1>4. SettledAt(m)'
  BY DEF Enters, SettledAt
<1>5. PartedAt(m)'
  <2>1. ASSUME m \notin parted' PROVE m \notin parted /\ \A g \in On(m) : job[g].pc # "dbBlock"
    <3>1. m \notin parted /\ \A g \in On(m) : ~Blocks(job[g])
      BY <2>1 DEF Enters
    <3>2. \A g \in On(m) : HandlerInv(job[g])
      BY <1>0 DEF JobInv, On
    <3>. QED
      BY <3>1, <3>2 DEF HandlerInv
  <2>2. m \notin parted' => \A g \in On(m)' : job'[g].pc # "dbBlock"
    BY <1>1, <2>1
  <2>. QED
    BY <1>0, <2>1, <2>2 DEF PartedAt, MemberInv, outside
<1>6. ASSUME NEW n \in Members, n # m PROVE MemberInv(n)'
  <2>1. /\ \A g \in alone' : g \in alone \/ g = h
        /\ n \in settled' => n \in settled
        /\ n \in parted => n \in parted'
    BY <1>6 DEF Enters
  <2>. QED
    BY <1>0, <1>6, <2>1, OtherMembers DEF outside, Busy
<1>. QED
  BY <1>3, <1>4, <1>5, <1>6 DEF MemberInv

\* A handler that is not about blocking goes on: what it knows is all there is
\* to show.
LEMMA InvGoesOn ==
  ASSUME TypeOK, IInv, NEW h \in Handlers, NEW m \in Members, NEW j \in Job, Goes(h, j),
         Busy(h), job[h].member = m, j.member = m,
         job[h].pc # "dbBlock", j.pc # "dbBlock",
         alone' \subseteq alone,
         h \in alone' => Knows(j)',
         \A n \in Members : n # m => perms'[n] = perms[n] /\ cached'[n] = cached[n],
         UNCHANGED <<authBlocked, dbBlocked, settled, parted>>
  PROVE  \A n \in Members : MemberInv(n)'
<1>0. JobInv /\ AloneBusy /\ \A n \in Members : MemberInv(n)
  BY Parts
<1>1. /\ On(m)' = On(m) /\ h \in On(m)
      /\ \A g \in On(m)' : g # h => job'[g] = job[g] /\ g \in On(m)
      /\ job'[h] = j
  BY OnMoves, Moved DEF On
<1>2. AloneOn(m)'
  <2>1. ASSUME NEW g \in alone', g \in On(m) PROVE g = h /\ On(m) = {h}
    BY <1>0, <1>1, <2>1 DEF MemberInv, AloneOn
  <2>2. ASSUME h \in alone', NEW k, k = job'[h] PROVE Knows(k)'
    BY <1>1, <2>2
  <2>. QED
    BY <1>1, <2>1, <2>2 DEF AloneOn, Knows
<1>3. SettledAt(m)'
  BY <1>0, <1>1 DEF MemberInv, SettledAt
<1>4. PartedAt(m)'
  <2>1. ASSUME m \notin parted, NEW g \in On(m) PROVE job[g].pc # "dbBlock"
    <3>1. CASE g = h
      BY <3>1
    <3>2. CASE g # h
      BY <1>0, <1>1, <2>1, <3>2 DEF MemberInv, PartedAt
    <3>. QED
      BY <3>1, <3>2
  <2>2. m \notin parted => \A g \in On(m)' : job'[g].pc # "dbBlock"
    BY <1>1, <2>1
  <2>. QED
    BY <1>0, <2>1, <2>2 DEF MemberInv, PartedAt
<1>5. ASSUME NEW n \in Members, n # m PROVE MemberInv(n)'
  <2>1. \A g \in alone' : g \in alone \/ g = h
    OBVIOUS
  <2>. QED
    BY <1>0, <1>5, <2>1, OtherMembers
<1>. QED
  BY <1>2, <1>3, <1>4, <1>5 DEF MemberInv

\* A handler ends and leaves its member to the others, or to nobody.
LEMMA InvEnds ==
  ASSUME TypeOK, IInv, NEW h \in Handlers, NEW m \in Members, Goes(h, Idle),
         Busy(h), job[h].member = m,
         alone' = alone \ {h},
         m \in settled' => h \in alone /\ cached'[m] \subseteq {perms'[m]},
         \A n \in Members : n # m => /\ perms'[n] = perms[n] /\ cached'[n] = cached[n]
                                     /\ n \in settled' => n \in settled
                                     /\ n \in parted => n \in parted'
                                     /\ n \in dbBlocked' <=> n \in dbBlocked,
         UNCHANGED authBlocked,
         m \notin parted' => \/ (m \in authBlocked <=> m \in dbBlocked')
                             \/ \E g \in On(m) \ {h} : job[g].pc = "dbBlock",
         m \in parted => m \in parted'
  PROVE  \A n \in Members : MemberInv(n)'
<1>0. JobInv /\ AloneBusy /\ \A n \in Members : MemberInv(n)
  BY Parts
<1>1. /\ On(m)' = On(m) \ {h} /\ h \in On(m)
      /\ \A g \in On(m)' : job'[g] = job[g] /\ g \in On(m)
  BY OnMoves, JobIsNotIdle DEF On
<1>2. AloneOn(m)'
  <2>1. ASSUME NEW g \in alone', g \in On(m)' PROVE FALSE
    BY <1>0, <1>1, <2>1 DEF MemberInv, AloneOn
  <2>. QED
    BY <2>1 DEF AloneOn
<1>3. SettledAt(m)'
  BY <1>0, <1>1 DEF MemberInv, AloneOn, SettledAt
<1>4. PartedAt(m)'
  <2>1. ASSUME m \notin parted, NEW g \in On(m) \ {h} PROVE job[g].pc # "dbBlock"
    BY <1>0, <1>1, <2>1 DEF MemberInv, PartedAt
  <2>. QED
    BY <1>1, <2>1 DEF PartedAt
<1>5. ASSUME NEW n \in Members, n # m PROVE MemberInv(n)'
  <2>1. \A g \in alone' : g \in alone \/ g = h
    OBVIOUS
  <2>. QED
    BY <1>0, <1>5, <2>1, JobIsNotIdle, OtherMembers
<1>. QED
  BY <1>2, <1>3, <1>4, <1>5 DEF MemberInv

-----------------------------------------------------------------------------
(***************************************************************************)
(* The actions                                                             *)
(***************************************************************************)

\* IInv without its types, member by member.
Core == JobInv /\ AloneBusy /\ \A m \in Members : MemberInv(m)

LEMMA PartsAreAll == TypeOK => (IInv <=> Core)
BY Parts DEF Core

LEMMA JobsStay ==
  ASSUME TypeOK, JobInv, NEW h \in Handlers, NEW j, Goes(h, j), j # Idle => HandlerInv(j)
  PROVE  JobInv'
<1>1. \A g \in Handlers : job'[g] = IF g = h THEN j ELSE job[g]
  BY Moved
<1>. QED
  BY <1>1 DEF JobInv, Busy

LEMMA AloneStay ==
  ASSUME TypeOK, AloneBusy, NEW h \in Handlers, NEW j, Goes(h, j),
         \A g \in alone' : g \in alone \/ g = h, h \in alone' => j # Idle
  PROVE  AloneBusy'
<1>1. \A g \in Handlers : job'[g] = IF g = h THEN j ELSE job[g]
  BY Moved
<1>2. alone \subseteq Handlers
  BY DEF TypeOK
<1>. QED
  BY <1>1, <1>2 DEF AloneBusy, Busy

\* A handler has what the invariant says of it, and of its member if nothing
\* disturbed it.
LEMMA HandlerHas ==
  ASSUME TypeOK, IInv, NEW h \in Handlers, job[h].pc \in Waiting
  PROVE  /\ job[h] \in Job /\ Busy(h) /\ HandlerInv(job[h]) /\ job[h].member \in Members
         /\ h \in On(job[h].member)
         /\ h \in alone => On(job[h].member) = {h} /\ Knows(job[h])
BY BusyIsJob DEF IInv, JobInv, AloneInv

LEMMA CoreBegin ==
  ASSUME TypeOK, IInv, NEW h \in Handlers, Begin(h)
  PROVE  Core'
<1>0. JobInv /\ AloneBusy
  BY Parts
<1>1. ASSUME NEW m \in Members, NEW j \in Job, Goes(h, j), MayStart(h), Enters(h, m), j.member = m,
             j.pc \in {"read", "authBlock"}, j.pc = "authBlock" => j.kind = "platform",
             HandlerInv(j), UNCHANGED <<outside, cached, dbBlocked>>
      PROVE  Core'
  <2>1. \A n \in Members : MemberInv(n)'
    BY <1>1, InvEnters DEF MayStart, Busy
  <2>2. JobInv'
    BY <1>0, <1>1, JobsStay
  <2>3. AloneBusy'
    BY <1>0, <1>1, AloneStay, JobIsNotIdle DEF Enters
  <2>. QED
    BY <2>1, <2>2, <2>3 DEF Core
<1>2. ASSUME NEW m \in Members, Show(h, m) PROVE Core'
  <2>1. PICK j : j = NewJob("show", m, {}, {})
    OBVIOUS
  <2>2. j \in Job /\ j.pc = "read" /\ j.kind = "show" /\ j.member = m
    BY <2>1, NewJobType DEF Kind, NewJob
  <2>3. HandlerInv(j)
    BY <2>2 DEF HandlerInv
  <2>. QED
    BY <1>1, <1>2, <2>1, <2>2, <2>3 DEF Show
<1>3. ASSUME NEW m \in Members, NEW kind \in {"add", "remove", "edit", "block"},
             NEW by \in Tokens, NEW ask \in Requested \cup {{}}, Change(h, m, kind, by, ask)
      PROVE  Core'
  <2>1. PICK j : j = NewJob(kind, m, by, ask)
    OBVIOUS
  <2>2. j \in Job /\ j.pc = "read" /\ j.kind = kind /\ j.member = m /\ j.by = by
    BY <2>1, NewJobType DEF Kind, NewJob
  <2>3. HandlerInv(j)
    BY <2>2 DEF HandlerInv
  <2>. QED
    BY <1>1, <1>3, <2>1, <2>2, <2>3 DEF Change
<1>4. ASSUME NEW m \in Members, NEW to \in BOOLEAN, Platform(h, m, to) PROVE Core'
  <2>1. PICK j : j = [NewJob("platform", m, {}, {}) EXCEPT !.pc = "authBlock", !.to = to]
    OBVIOUS
  <2>2. j \in Job /\ j.pc = "authBlock" /\ j.kind = "platform" /\ j.member = m
    BY <2>1 DEF NewJob, Job, Kind, Waiting
  <2>3. HandlerInv(j)
    BY <2>2 DEF HandlerInv, Blocks
  <2>. QED
    BY <1>1, <1>4, <2>1, <2>2, <2>3 DEF Platform
<1>. QED
  BY <1>2, <1>3, <1>4 DEF Begin

LEMMA CoreRead ==
  ASSUME TypeOK, IInv, NEW h \in Handlers, Read(h)
  PROVE  Core'
<1>0. JobInv /\ AloneBusy
  BY Parts
<1>1. PICK m, j : m = job[h].member /\ j = [job[h] EXCEPT !.pc = "save", !.known = perms[m]]
  OBVIOUS
<1>2. /\ job[h] \in Job /\ job[h].pc = "read" /\ HandlerInv(job[h]) /\ Busy(h)
      /\ m \in Members /\ perms[m] \in SUBSET Permission
  BY <1>1, HandlerHas DEF Read, Waiting, TypeOK
<1>3. /\ j \in Job /\ j.pc = "save" /\ j.member = m /\ j.known = perms[m]
      /\ j.kind = job[h].kind /\ j.by = job[h].by
  BY <1>1, <1>2 DEF Job, Waiting
<1>4. Goes(h, j) /\ UNCHANGED <<outside, cached, dbBlocked, history>>
  BY <1>1 DEF Read
<1>5. HandlerInv(j)
  BY <1>2, <1>3 DEF HandlerInv
<1>6. Knows(j)'
  BY <1>3, <1>4 DEF Knows, outside
<1>7. \A n \in Members : MemberInv(n)'
  BY <1>1, <1>2, <1>3, <1>4, <1>6, InvGoesOn DEF outside, history
<1>8. JobInv' /\ AloneBusy'
  BY <1>0, <1>3, <1>4, <1>5, JobsStay, AloneStay, JobIsNotIdle DEF history
<1>. QED
  BY <1>7, <1>8 DEF Core

LEMMA CoreSave ==
  ASSUME TypeOK, IInv, NEW h \in Handlers, Save(h)
  PROVE  Core'
<1>0. JobInv /\ AloneBusy
  BY Parts
<1>1. PICK m, j : m = job[h].member /\ j = [job[h] EXCEPT !.pc = FirstStep(job[h])]
  OBVIOUS
<1>2. /\ job[h] \in Job /\ job[h].pc = "save" /\ HandlerInv(job[h]) /\ Busy(h) /\ m \in Members
      /\ h \in alone => perms[m] = job[h].known
  BY <1>1, HandlerHas DEF Save, Waiting, Knows
<1>3. /\ cached' = [cached EXCEPT ![m] = {job[h].known}]
      /\ UNCHANGED <<outside, dbBlocked, parted>>
  BY <1>1 DEF Save
<1>4. cached'[m] = {job[h].known} /\ \A n \in Members : n # m => cached'[n] = cached[n]
  BY <1>2, <1>3 DEF TypeOK
<1>5. CASE job[h].kind # "show" /\ Allowed(job[h])
  <2>1. Goes(h, j) /\ UNCHANGED <<alone, settled>>
    BY <1>1, <1>5 DEF Save
  <2>2. /\ j \in Job /\ j.pc = FirstStep(job[h]) /\ j.pc \in {"add", "remove", "cache", "authBlock"}
        /\ j.member = m /\ j.known = job[h].known /\ j.kind = job[h].kind /\ j.by = job[h].by
        /\ j.ask = job[h].ask
    BY <1>1, <1>2 DEF Job, Waiting, FirstStep, AfterAdding
  <2>3. Intended(j) = Intended(job[h]) /\ ToAdd(j) = ToAdd(job[h]) /\ ToRemove(j) = ToRemove(job[h])
    BY <2>2 DEF Intended, ToAdd, ToRemove
  <2>4. Allowed(j)
    BY <1>5, <2>2, <2>3 DEF Allowed
  <2>5. job[h].kind \in {"add", "remove", "edit", "block"}
    BY <1>2, <1>5 DEF HandlerInv, Job, Kind
  <2>6. HandlerInv(j)
    BY <1>2, <2>2, <2>4, <2>5 DEF HandlerInv, FirstStep, AfterAdding, Blocks, ToAdd, ToRemove
  <2>7. ASSUME h \in alone PROVE Knows(j)'
    <3>1. /\ perms'[m] = j.known /\ perms'[m] = perms[m]
          /\ cached'[m] \subseteq {perms'[m]}
      BY <1>2, <1>3, <1>4, <2>2, <2>7 DEF outside
    <3>2. CASE j.pc = "remove"
      <4>1. j.kind = "remove" \/ (j.kind = "edit" /\ ToAdd(j) = {})
        BY <2>2, <2>3, <2>5, <3>2 DEF FirstStep
      <4>2. ToAdd(j) = {}
        BY <4>1 DEF ToAdd
      <4>. QED
        BY <2>2, <3>1, <3>2, <4>2 DEF Knows, ToAdd
    <3>3. CASE j.pc = "cache"
      <4>1. j.kind = "edit" /\ ToAdd(j) = {} /\ ToRemove(j) = {}
        BY <2>2, <2>3, <2>5, <3>3 DEF FirstStep, AfterAdding
      <4>2. j.ask = j.known
        BY <4>1 DEF ToAdd, ToRemove
      <4>. QED
        BY <2>2, <3>1, <3>3, <4>1, <4>2 DEF Knows, Intended
    <3>. QED
      BY <2>2, <3>1, <3>2, <3>3 DEF Knows
  <2>8. \A n \in Members : MemberInv(n)'
    BY <1>1, <1>2, <1>3, <1>4, <2>1, <2>2, <2>7, InvGoesOn DEF outside
  <2>9. JobInv' /\ AloneBusy'
    BY <1>0, <2>1, <2>2, <2>6, JobsStay, AloneStay, JobIsNotIdle
  <2>. QED
    BY <2>8, <2>9 DEF Core
<1>6. CASE ~(job[h].kind # "show" /\ Allowed(job[h]))
  <2>1. Goes(h, Idle) /\ Leaves(h)
    BY <1>6 DEF Save
  <2>2. /\ alone' = alone \ {h}
        /\ m \notin settled
        /\ settled' \subseteq settled \cup {m}
        /\ m \in settled' => h \in alone
    <3>1. h \in On(m)
      BY <1>1, <1>2 DEF On
    <3>. QED
      BY <1>1, <2>1, <3>1 DEF Leaves, IInv, SettledInv
  <2>3. m \in settled' => h \in alone /\ cached'[m] \subseteq {perms'[m]}
    BY <1>2, <1>3, <1>4, <2>2 DEF outside
  <2>4. m \notin parted' => \/ (m \in authBlocked <=> m \in dbBlocked')
                            \/ \E g \in On(m) \ {h} : job[g].pc = "dbBlock"
    BY <1>2, <1>3 DEF IInv, BlockedBoth
  <2>5. \A n \in Members : MemberInv(n)'
    BY <1>1, <1>2, <1>3, <1>4, <2>1, <2>2, <2>3, <2>4, InvEnds DEF outside
  <2>6. JobInv' /\ AloneBusy'
    BY <1>0, <2>1, <2>2, JobsStay, AloneStay
  <2>. QED
    BY <2>5, <2>6 DEF Core
<1>. QED
  BY <1>5, <1>6

LEMMA CoreAdd ==
  ASSUME TypeOK, IInv, NEW h \in Handlers, NEW ok \in BOOLEAN, AddAtAuth0(h, ok)
  PROVE  Core'
<1>0. JobInv /\ AloneBusy
  BY Parts
<1>1. PICK m, j : m = job[h].member /\ j = [job[h] EXCEPT !.pc = AfterAdding(job[h])]
  OBVIOUS
<1>2. /\ job[h] \in Job /\ job[h].pc = "add" /\ HandlerInv(job[h]) /\ Busy(h) /\ m \in Members
      /\ h \in alone => perms[m] = job[h].known
  BY <1>1, HandlerHas DEF AddAtAuth0, Waiting, Knows
<1>3. /\ Goes(h, j) /\ perms' = IF ok THEN [perms EXCEPT ![m] = @ \cup ToAdd(job[h])] ELSE perms
      /\ alone' = IF ok THEN alone ELSE alone \ {h}
      /\ UNCHANGED <<authBlocked, cached, dbBlocked, settled, parted>>
  BY <1>1 DEF AddAtAuth0, Disturbed
<1>4. /\ j \in Job /\ j.pc \in {"remove", "cache"} /\ j.pc = AfterAdding(job[h])
      /\ j.member = m /\ j.known = job[h].known /\ j.kind = job[h].kind /\ j.by = job[h].by
      /\ j.ask = job[h].ask
  BY <1>1, <1>2 DEF Job, Waiting, AfterAdding
<1>5. Intended(j) = Intended(job[h]) /\ ToAdd(j) = ToAdd(job[h]) /\ ToRemove(j) = ToRemove(job[h])
  BY <1>4 DEF Intended, ToAdd, ToRemove
<1>6. /\ ok => perms'[m] = perms[m] \cup ToAdd(j)
      /\ \A n \in Members : n # m => perms'[n] = perms[n]
  BY <1>2, <1>3, <1>5 DEF TypeOK
<1>7. HandlerInv(j)
  <2>1. job[h].kind \in {"add", "edit"} /\ Allowed(job[h]) /\ j.by \in Tokens
    BY <1>2, <1>4 DEF HandlerInv
  <2>2. Allowed(j)
    BY <1>4, <1>5, <2>1 DEF Allowed
  <2>3. j.pc = "remove" => j.kind = "edit"
    BY <1>4, <2>1 DEF AfterAdding, ToRemove
  <2>. QED
    BY <1>4, <2>1, <2>2, <2>3 DEF HandlerInv
<1>8. ASSUME h \in alone' PROVE Knows(j)'
  <2>1. perms'[m] = j.known \cup ToAdd(j)
    BY <1>2, <1>3, <1>4, <1>6, <1>8
  <2>2. j.pc = "cache" => Intended(j) = j.known \cup ToAdd(j)
    <3>1. j.pc = "cache" => ToRemove(j) = {}
      BY <1>4, <1>5 DEF AfterAdding
    <3>. QED
      BY <1>2, <1>4, <3>1 DEF HandlerInv, Intended, ToAdd, ToRemove
  <2>. QED
    BY <1>4, <2>1, <2>2 DEF Knows
<1>9. \A n \in Members : MemberInv(n)'
  <2>1. alone' \subseteq alone
    BY <1>3
  <2>. QED
    BY <1>1, <1>2, <1>3, <1>4, <1>6, <1>8, <2>1, InvGoesOn
<1>10. JobInv' /\ AloneBusy'
  BY <1>0, <1>3, <1>4, <1>7, JobsStay, AloneStay, JobIsNotIdle
<1>. QED
  BY <1>9, <1>10 DEF Core

LEMMA CoreRemove ==
  ASSUME TypeOK, IInv, NEW h \in Handlers, NEW ok \in BOOLEAN, RemoveAtAuth0(h, ok)
  PROVE  Core'
<1>0. JobInv /\ AloneBusy
  BY Parts
<1>1. PICK m, j : m = job[h].member /\ j = [job[h] EXCEPT !.pc = "cache"]
  OBVIOUS
<1>2. /\ job[h] \in Job /\ job[h].pc = "remove" /\ HandlerInv(job[h]) /\ Busy(h) /\ m \in Members
      /\ h \in alone => perms[m] = job[h].known \cup ToAdd(job[h])
  BY <1>1, HandlerHas DEF RemoveAtAuth0, Waiting, Knows
<1>3. /\ Goes(h, j) /\ perms' = IF ok THEN [perms EXCEPT ![m] = @ \ ToRemove(job[h])] ELSE perms
      /\ alone' = IF ok THEN alone ELSE alone \ {h}
      /\ UNCHANGED <<authBlocked, cached, dbBlocked, settled, parted>>
  BY <1>1 DEF RemoveAtAuth0, Disturbed
<1>4. /\ j \in Job /\ j.pc = "cache" /\ j.member = m /\ j.known = job[h].known
      /\ j.kind = job[h].kind /\ j.by = job[h].by /\ j.ask = job[h].ask
  BY <1>1, <1>2 DEF Job, Waiting
<1>5. Intended(j) = Intended(job[h]) /\ ToAdd(j) = ToAdd(job[h]) /\ ToRemove(j) = ToRemove(job[h])
  BY <1>4 DEF Intended, ToAdd, ToRemove
<1>6. /\ ok => perms'[m] = perms[m] \ ToRemove(j)
      /\ \A n \in Members : n # m => perms'[n] = perms[n]
  BY <1>2, <1>3, <1>5 DEF TypeOK
<1>7. j.kind \in {"remove", "edit"} /\ HandlerInv(j)
  <2>1. job[h].kind \in {"remove", "edit"} /\ Allowed(job[h]) /\ j.by \in Tokens
    BY <1>2, <1>4 DEF HandlerInv
  <2>2. Allowed(j)
    BY <1>4, <1>5, <2>1 DEF Allowed
  <2>. QED
    BY <1>4, <2>1, <2>2 DEF HandlerInv
<1>8. ASSUME h \in alone' PROVE Knows(j)'
  <2>1. perms'[m] = (j.known \cup ToAdd(j)) \ ToRemove(j)
    BY <1>2, <1>3, <1>4, <1>5, <1>6, <1>8
  <2>2. Intended(j) = (j.known \cup ToAdd(j)) \ ToRemove(j)
    BY <1>7 DEF Intended, ToAdd, ToRemove
  <2>. QED
    BY <1>4, <1>7, <2>1, <2>2 DEF Knows
<1>9. \A n \in Members : MemberInv(n)'
  <2>1. alone' \subseteq alone
    BY <1>3
  <2>. QED
    BY <1>1, <1>2, <1>3, <1>4, <1>6, <1>8, <2>1, InvGoesOn
<1>10. JobInv' /\ AloneBusy'
  BY <1>0, <1>3, <1>4, <1>7, JobsStay, AloneStay, JobIsNotIdle
<1>. QED
  BY <1>9, <1>10 DEF Core

LEMMA CoreCache ==
  ASSUME TypeOK, IInv, NEW h \in Handlers, CacheIntended(h)
  PROVE  Core'
<1>0. JobInv /\ AloneBusy
  BY Parts
<1>1. PICK m : m = job[h].member
  OBVIOUS
<1>2. /\ job[h] \in Job /\ job[h].pc = "cache" /\ Busy(h) /\ m \in Members /\ h \in On(m)
      /\ h \in alone => perms[m] = Intended(job[h])
  BY <1>1, HandlerHas DEF CacheIntended, Waiting, Knows
<1>3. /\ Goes(h, Idle) /\ Leaves(h) /\ cached' = [cached EXCEPT ![m] = {Intended(job[h])}]
      /\ UNCHANGED <<outside, dbBlocked, parted>>
  BY <1>1 DEF CacheIntended
<1>4. cached'[m] = {Intended(job[h])} /\ \A n \in Members : n # m => cached'[n] = cached[n]
  BY <1>2, <1>3 DEF TypeOK
<1>5. /\ alone' = alone \ {h}
      /\ settled' \subseteq settled \cup {m}
      /\ m \in settled' => h \in alone
  BY <1>1, <1>2, <1>3 DEF Leaves, IInv, SettledInv
<1>6. m \in settled' => h \in alone /\ cached'[m] \subseteq {perms'[m]}
  BY <1>2, <1>3, <1>4, <1>5 DEF outside
<1>7. m \notin parted' => \/ (m \in authBlocked <=> m \in dbBlocked')
                          \/ \E g \in On(m) \ {h} : job[g].pc = "dbBlock"
  BY <1>2, <1>3 DEF IInv, BlockedBoth
<1>8. \A n \in Members : MemberInv(n)'
  BY <1>1, <1>2, <1>3, <1>4, <1>5, <1>6, <1>7, InvEnds DEF outside
<1>9. JobInv' /\ AloneBusy'
  BY <1>0, <1>3, <1>5, JobsStay, AloneStay
<1>. QED
  BY <1>8, <1>9 DEF Core

LEMMA CoreBlockInDb ==
  ASSUME TypeOK, IInv, NEW h \in Handlers, BlockInDb(h)
  PROVE  Core'
<1>0. JobInv /\ AloneBusy
  BY Parts
<1>1. PICK m : m = job[h].member
  OBVIOUS
<1>2. /\ job[h] \in Job /\ job[h].pc = "dbBlock" /\ Busy(h) /\ m \in Members /\ h \in On(m)
      /\ h \in alone /\ job[h].kind # "platform" => cached[m] \subseteq {perms[m]}
      /\ m \notin parted => (m \in authBlocked <=> job[h].to)
  BY <1>1, HandlerHas DEF BlockInDb, Waiting, Knows, HandlerInv, Blocks, IInv, PartedInv
<1>3. /\ Goes(h, Idle) /\ Leaves(h) /\ UNCHANGED <<outside, cached, parted>>
      /\ dbBlocked' = IF job[h].to THEN dbBlocked \cup {m} ELSE dbBlocked \ {m}
  BY <1>1 DEF BlockInDb
<1>4. /\ alone' = alone \ {h}
      /\ settled' \subseteq settled \cup {m}
      /\ m \in settled' => h \in alone /\ job[h].kind # "platform"
  BY <1>1, <1>2, <1>3 DEF Leaves, IInv, SettledInv
<1>5. m \in settled' => h \in alone /\ cached'[m] \subseteq {perms'[m]}
  BY <1>2, <1>3, <1>4 DEF outside
<1>6. m \notin parted' => (m \in authBlocked <=> m \in dbBlocked')
  BY <1>2, <1>3
<1>7. \A n \in Members : MemberInv(n)'
  BY <1>1, <1>2, <1>3, <1>4, <1>5, <1>6, InvEnds DEF outside
<1>8. JobInv' /\ AloneBusy'
  BY <1>0, <1>3, <1>4, JobsStay, AloneStay
<1>. QED
  BY <1>7, <1>8 DEF Core

LEMMA CoreThrows ==
  ASSUME TypeOK, IInv, NEW h \in Handlers, Throws(h)
  PROVE  Core'
<1>0. JobInv /\ AloneBusy
  BY Parts
<1>1. PICK m : m = job[h].member
  OBVIOUS
<1>2. job[h] \in Job /\ Busy(h) /\ m \in Members /\ h \in On(m)
  BY <1>1 DEF Throws, Busy, TypeOK, Job, On
<1>3. /\ Goes(h, Idle) /\ alone' = alone \ {h} /\ UNCHANGED <<outside, cached, dbBlocked, settled>>
      /\ parted' = IF job[h].pc = "dbBlock" THEN parted \cup {m} ELSE parted
  BY <1>1 DEF Throws
<1>4. m \notin settled
  BY <1>2 DEF IInv, SettledInv
<1>5. m \notin parted' => \/ (m \in authBlocked <=> m \in dbBlocked')
                          \/ \E g \in On(m) \ {h} : job[g].pc = "dbBlock"
  BY <1>2, <1>3 DEF IInv, BlockedBoth
<1>6. \A n \in Members : MemberInv(n)'
  BY <1>1, <1>2, <1>3, <1>4, <1>5, InvEnds DEF outside
<1>7. JobInv' /\ AloneBusy'
  BY <1>0, <1>3, JobsStay, AloneStay
<1>. QED
  BY <1>6, <1>7 DEF Core

LEMMA CoreBlockAtAuth0 ==
  ASSUME TypeOK, IInv, NEW h \in Handlers, NEW ok \in BOOLEAN, BlockAtAuth0(h, ok)
  PROVE  Core'
<1>0. JobInv /\ AloneBusy /\ \A n \in Members : MemberInv(n)
  BY Parts
<1>1. PICK m, j : m = job[h].member /\ j = [job[h] EXCEPT !.pc = "dbBlock"]
  OBVIOUS
<1>2. /\ job[h] \in Job /\ job[h].pc = "authBlock" /\ HandlerInv(job[h]) /\ Busy(h) /\ m \in Members
      /\ h \in On(m)
      /\ h \in alone => On(m) = {h} /\ Knows(job[h])
  BY <1>1, HandlerHas DEF BlockAtAuth0, Waiting
<1>3. /\ Goes(h, j)
      /\ authBlocked' = IF ~ok THEN authBlocked
                        ELSE IF job[h].to THEN authBlocked \cup {m} ELSE authBlocked \ {m}
      /\ parted' = IF h \notin alone \/ ~ok THEN parted \cup {m} ELSE parted \ {m}
      /\ alone' = IF ok THEN alone ELSE alone \ {h}
      /\ UNCHANGED <<perms, cached, dbBlocked, settled>>
  BY <1>1 DEF BlockAtAuth0, Disturbed
<1>4. /\ j \in Job /\ j.pc = "dbBlock" /\ j.member = m /\ j.known = job[h].known /\ j.to = job[h].to
      /\ j.kind = job[h].kind /\ j.by = job[h].by /\ j.ask = job[h].ask
  BY <1>1, <1>2 DEF Job, Waiting
<1>5. HandlerInv(j)
  <2>1. Intended(j) = Intended(job[h])
    BY <1>4 DEF Intended
  <2>. QED
    BY <1>2, <1>4, <2>1 DEF HandlerInv, Blocks, Allowed
<1>6. /\ On(m)' = On(m)
      /\ \A g \in On(m)' : g # h => job'[g] = job[g] /\ g \in On(m)
      /\ job'[h] = j
  <2>1. Goes(h, j) /\ j \in Job /\ j.member = m /\ job[h].member = m /\ h \in On(m)
    BY <1>1, <1>2, <1>3, <1>4
  <2>. QED
    BY <1>2, <2>1, OnMoves, Moved
<1>7. AloneOn(m)'
  <2>1. ASSUME NEW g \in alone', g \in On(m) PROVE g = h /\ On(m) = {h}
    BY <1>0, <1>2, <1>3, <2>1 DEF MemberInv, AloneOn
  <2>2. ASSUME h \in alone' PROVE Knows(j)'
    BY <1>1, <1>2, <1>3, <1>4, <2>2 DEF Knows
  <2>. QED
    BY <1>6, <2>1, <2>2 DEF AloneOn, Knows
<1>8. SettledAt(m)'
  <2>1. On(m)' = On(m) /\ UNCHANGED <<perms, cached, settled>>
    BY <1>3, <1>6
  <2>2. SettledAt(m)
    BY <1>0, <1>2 DEF MemberInv
  <2>. QED
    BY <2>1, <2>2 DEF SettledAt
<1>9. PartedAt(m)'
  <2>1. ASSUME m \notin parted' PROVE On(m)' = {h} /\ (m \in authBlocked' <=> j.to)
    <3>1. h \in alone /\ ok
      BY <1>3, <2>1
    <3>. QED
      BY <1>2, <1>3, <1>4, <1>6, <3>1
  <2>. QED
    BY <1>4, <1>6, <2>1 DEF PartedAt
<1>10. ASSUME NEW n \in Members, n # m PROVE MemberInv(n)'
  <2>1. /\ \A g \in alone' : g \in alone \/ g = h
        /\ n \in parted => n \in parted'
        /\ n \in authBlocked' <=> n \in authBlocked
    BY <1>3, <1>10
  <2>. QED
    BY <1>0, <1>1, <1>2, <1>3, <1>4, <1>10, <2>1, OtherMembers
<1>11. JobInv' /\ AloneBusy'
  BY <1>0, <1>3, <1>4, <1>5, JobsStay, AloneStay, JobIsNotIdle
<1>. QED
  BY <1>7, <1>8, <1>9, <1>10, <1>11 DEF Core, MemberInv

\* An entry of the cache that expires tells nothing that is wrong.
LEMMA CoreExpires ==
  ASSUME TypeOK, IInv, NEW m \in Members, CacheExpires(m)
  PROVE  Core'
<1>0. JobInv /\ AloneBusy /\ \A n \in Members : MemberInv(n)
  BY Parts
<1>1. \A n \in Members : cached'[n] \subseteq cached[n]
  BY DEF CacheExpires, TypeOK
<1>2. UNCHANGED <<perms, authBlocked, dbBlocked, alone, settled, parted, job>>
  BY DEF CacheExpires, outside, history
<1>3. ASSUME NEW j \in Job, Knows(j) PROVE Knows(j)'
  <2>1. j.member \in Members
    BY DEF Job
  <2>. QED
    BY <1>1, <1>2, <1>3, <2>1 DEF Knows
<1>4. ASSUME NEW n \in Members PROVE MemberInv(n)'
  <2>1. On(n)' = On(n)
    BY <1>2 DEF On, Busy
  <2>2. ASSUME NEW g \in alone, g \in On(n), NEW k, k = job'[g] PROVE On(n) = {g} /\ Knows(k)'
    BY <1>0, <1>2, <1>3, <2>2, OnType DEF MemberInv, AloneOn
  <2>3. AloneOn(n)'
    BY <1>2, <2>1, <2>2 DEF AloneOn, Knows
  <2>. QED
    BY <1>0, <1>1, <1>2, <2>1, <2>3 DEF MemberInv, SettledAt, PartedAt
<1>. QED
  BY <1>0, <1>2, <1>4 DEF Core, JobInv, AloneBusy, Busy

\* A member that writes its own flag tells nothing about Auth0, and is not one
\* that the invariant speaks of.
LEMMA CoreProfile ==
  ASSUME TypeOK, IInv, NEW m \in Members, NEW b \in BOOLEAN, CompleteProfile(m, b)
  PROVE  Core'
<1>0. JobInv /\ AloneBusy /\ \A n \in Members : MemberInv(n)
  BY Parts
<1>1. /\ UNCHANGED <<perms, authBlocked, cached, alone, settled, job>>
      /\ parted' = parted \cup {m}
      /\ \A n : n # m => (n \in dbBlocked' <=> n \in dbBlocked)
  BY DEF CompleteProfile, outside
<1>2. ASSUME NEW n \in Members PROVE MemberInv(n)'
  <2>1. On(n)' = On(n)
    BY <1>1 DEF On, Busy
  <2>2. AloneOn(n)' /\ SettledAt(n)'
    BY <1>0, <1>1, <2>1 DEF MemberInv, AloneOn, SettledAt, Knows
  <2>3. PartedAt(n)'
    BY <1>0, <1>1, <2>1 DEF MemberInv, PartedAt
  <2>. QED
    BY <2>2, <2>3 DEF MemberInv
<1>. QED
  BY <1>0, <1>1, <1>2 DEF Core, JobInv, AloneBusy, Busy

LEMMA InvInit == Init => IInv
<1>. SUFFICES ASSUME Init PROVE IInv
  OBVIOUS
<1>1. TypeOK
  BY TypeInit
<1>2. \A h \in Handlers : ~Busy(h) /\ job[h].pc # "dbBlock"
  BY DEF Init, Busy, Idle
<1>3. \A m \in Members : On(m) = {} /\ cached[m] = {}
  BY <1>2 DEF Init, On
<1>. QED
  BY <1>1, <1>2, <1>3 DEF Init, IInv, JobInv, AloneInv, SettledInv, PartedInv, CacheTrue, BlockedBoth

LEMMA InvNext == IInv /\ [Next]_vars => IInv'
<1>. SUFFICES ASSUME IInv, [Next]_vars PROVE IInv'
  OBVIOUS
<1>1. TypeOK /\ TypeOK'
  BY TypeNext DEF IInv
<1>2. CASE UNCHANGED vars
  BY <1>2 DEF IInv, TypeOK, JobInv, AloneInv, SettledInv, PartedInv, CacheTrue, BlockedBoth,
     Busy, On, Knows, vars, outside, history
<1>3. CASE Next
  <2>1. ASSUME NEW h \in Handlers, Proceeds(h) PROVE Core'
    BY <1>1, <2>1, CoreRead, CoreSave, CoreAdd, CoreRemove, CoreBlockAtAuth0, CoreCache, CoreBlockInDb
    DEF Proceeds
  <2>2. Core'
    BY <1>1, <1>3, <2>1, CoreBegin, CoreThrows, CoreExpires, CoreProfile DEF Next
  <2>3. (TypeOK => (IInv <=> Core))'
    BY PartsAreAll, PTL
  <2>. QED
    BY <1>1, <2>2, <2>3
<1>. QED
  BY <1>2, <1>3

-----------------------------------------------------------------------------
(***************************************************************************)
(* The theorems                                                            *)
(***************************************************************************)

\* The inductive invariant: what a handler knows of its member is true as
\* long as no other handler has started there and Auth0 has not failed it.
THEOREM MembersInductive == Spec => []IInv
BY InvInit, InvNext, PTL DEF Spec

\* What the cache tells is what Auth0 knows, after a handler that nothing
\* disturbed and until the next one.
THEOREM CachesTell == Spec => []CacheTrue
<1>1. IInv => CacheTrue
  BY DEF IInv
<1>. QED
  BY <1>1, MembersInductive, PTL

\* Auth0 and the row of the user agree on who is blocked, unless two blocked
\* and let in at once, a call failed, or the member has written its own flag
\* (PATCH users/me/complete-profile).
THEOREM BlockedAlike == Spec => []BlockedBoth
<1>1. IInv => BlockedBoth
  BY DEF IInv
<1>. QED
  BY <1>1, MembersInductive, PTL

-----------------------------------------------------------------------------
(***************************************************************************)
(* What no step does                                                       *)
(***************************************************************************)

\* The steps that leave Auth0 alone.
LEMMA QuietSteps ==
  ASSUME [Next]_vars, ~UNCHANGED outside
  PROVE  \E h \in Handlers, ok \in BOOLEAN :
            AddAtAuth0(h, ok) \/ RemoveAtAuth0(h, ok) \/ BlockAtAuth0(h, ok)
<1>1. ~UNCHANGED vars /\ Next
  BY DEF vars
<1>2. ASSUME NEW h \in Handlers, Begin(h) PROVE FALSE
  BY <1>2 DEF Begin, Show, Change, Platform
<1>3. ASSUME NEW h \in Handlers, Read(h) \/ Save(h) \/ CacheIntended(h) \/ BlockInDb(h) \/ Throws(h)
      PROVE  FALSE
  BY <1>3 DEF Read, Save, CacheIntended, BlockInDb, Throws
<1>4. ASSUME NEW m \in Members, CacheExpires(m) PROVE FALSE
  BY <1>4 DEF CacheExpires
<1>5. ASSUME NEW m \in Members, NEW b \in BOOLEAN, CompleteProfile(m, b) PROVE FALSE
  BY <1>5 DEF CompleteProfile
<1>. QED
  BY <1>1, <1>2, <1>3, <1>4, <1>5 DEF Next, Proceeds

\* A handler of Auth0 is not where it was after its step.
LEMMA Steps ==
  ASSUME TypeOK, NEW h \in Handlers, NEW ok \in BOOLEAN,
         AddAtAuth0(h, ok) \/ RemoveAtAuth0(h, ok) \/ BlockAtAuth0(h, ok)
  PROVE  job'[h] # job[h]
<1>1. job[h].pc \in Waiting
  BY DEF AddAtAuth0, RemoveAtAuth0, BlockAtAuth0, Waiting
<1>2. job[h] \in Job
  BY <1>1, BusyIsJob
<1>3. CASE AddAtAuth0(h, ok)
  BY <1>2, <1>3, Moved DEF AddAtAuth0, AfterAdding, Job
<1>4. CASE RemoveAtAuth0(h, ok)
  BY <1>2, <1>4, Moved DEF RemoveAtAuth0, Job
<1>5. CASE BlockAtAuth0(h, ok)
  BY <1>2, <1>5, Moved DEF BlockAtAuth0, Job
<1>. QED
  BY <1>3, <1>4, <1>5

\* Who could be an admin's undoing is an owner: callers are owners or admins,
\* and no admin is let through to what is, or is to be, an admin.
LEMMA AdminsAllowNobody ==
  ASSUME NEW j \in Job, Allowed(j), j.by \in Tokens,
         "admin" \in j.known \/ (j.kind # "block" /\ "admin" \in Intended(j))
  PROVE  "owner" \in j.by
BY MembersAssumption DEF Allowed

\* Owners and admins are made by owners, whatever overlaps or fails.
THEOREM OwnersPromote == Spec => OnlyOwnersPromote
<1>. DEFINE Promoted(m, p) == p \in perms'[m] \ perms[m]
            ByOwner(m) == \E h \in Handlers : /\ job[h].pc = "add" /\ job[h].member = m
                                              /\ "owner" \in job[h].by
                                              /\ job'[h] # job[h]
<1>1. IInv /\ [Next]_vars => [\A m \in Members, p \in {"owner", "admin"} : Promoted(m, p) => ByOwner(m)]_vars
  <2>. SUFFICES ASSUME IInv, [Next]_vars, NEW m \in Members, NEW p \in {"owner", "admin"}, Promoted(m, p)
                PROVE  ByOwner(m)
    OBVIOUS
  <2>1. TypeOK
    BY DEF IInv
  <2>2. PICK h \in Handlers, ok \in BOOLEAN :
           AddAtAuth0(h, ok) \/ RemoveAtAuth0(h, ok) \/ BlockAtAuth0(h, ok)
    BY QuietSteps DEF outside
  <2>3. job'[h] # job[h]
    BY <2>1, <2>2, Steps
  <2>4. CASE AddAtAuth0(h, ok)
    <3>1. job[h] \in Job /\ job[h].pc = "add" /\ HandlerInv(job[h]) /\ job[h].member \in Members
      BY <2>1, <2>4, HandlerHas DEF AddAtAuth0, Waiting
    <3>2. job[h].member = m /\ p \in ToAdd(job[h])
      BY <2>1, <2>4, <3>1 DEF AddAtAuth0, TypeOK
    <3>3. job[h].kind \in {"add", "edit"} /\ Allowed(job[h])
      BY <3>1 DEF HandlerInv
    <3>4. p \in Intended(job[h])
      BY <3>2, <3>3 DEF ToAdd, Intended
    <3>5. "owner" \in job[h].by
      BY <3>3, <3>4 DEF Allowed
    <3>. QED
      BY <2>3, <3>1, <3>2, <3>5
  <2>5. CASE RemoveAtAuth0(h, ok)
    <3>1. job[h].member \in Members
      BY <2>1, <2>5, HandlerHas DEF RemoveAtAuth0, Waiting, IInv
    <3>. QED
      BY <2>1, <2>5, <3>1 DEF RemoveAtAuth0, TypeOK
  <2>6. CASE BlockAtAuth0(h, ok)
    BY <2>6 DEF BlockAtAuth0
  <2>. QED
    BY <2>2, <2>4, <2>5, <2>6
<1>. QED
  BY <1>1, MembersInductive, PTL DEF Spec, OnlyOwnersPromote

\* An admin loses a permission, gets one, or is blocked by nobody but an owner
\* or the platform, unless the handler was disturbed.
THEOREM AdminsAreSpared == Spec => AdminsSpared
<1>. DEFINE Touched(m) == /\ "admin" \in perms[m]
                          /\ perms'[m] # perms[m] \/ m \in authBlocked' \ authBlocked
            ByRight(m) == \E h \in Handlers :
                             /\ Busy(h) /\ job[h].member = m /\ job'[h] # job[h]
                             /\ h \in alone => "owner" \in job[h].by \/ job[h].kind = "platform"
<1>1. IInv /\ [Next]_vars => [\A m \in Members : Touched(m) => ByRight(m)]_vars
  <2>. SUFFICES ASSUME IInv, [Next]_vars, NEW m \in Members, Touched(m)
                PROVE  ByRight(m)
    OBVIOUS
  <2>1. TypeOK
    BY DEF IInv
  <2>2. PICK h \in Handlers, ok \in BOOLEAN :
           AddAtAuth0(h, ok) \/ RemoveAtAuth0(h, ok) \/ BlockAtAuth0(h, ok)
    BY QuietSteps DEF outside
  <2>3. job'[h] # job[h]
    BY <2>1, <2>2, Steps
  <2>4. /\ job[h] \in Job /\ Busy(h) /\ HandlerInv(job[h]) /\ job[h].member \in Members
        /\ h \in alone => Knows(job[h])
    <3>1. job[h].pc \in Waiting
      BY <2>2 DEF AddAtAuth0, RemoveAtAuth0, BlockAtAuth0, Waiting
    <3>. QED
      BY <2>1, <3>1, HandlerHas
  <2>5. CASE AddAtAuth0(h, ok)
    <3>1. job[h].pc = "add" /\ job[h].member = m
      BY <2>1, <2>4, <2>5 DEF AddAtAuth0, TypeOK
    <3>2. job[h].kind \in {"add", "edit"} /\ Allowed(job[h]) /\ job[h].by \in Tokens
      BY <2>4, <3>1 DEF HandlerInv
    <3>3. h \in alone => "admin" \in job[h].known
      BY <2>4, <3>1 DEF Knows
    <3>. QED
      BY <2>3, <2>4, <3>1, <3>2, <3>3, AdminsAllowNobody
  <2>6. CASE RemoveAtAuth0(h, ok)
    <3>1. job[h].pc = "remove" /\ job[h].member = m
      BY <2>1, <2>4, <2>6 DEF RemoveAtAuth0, TypeOK
    <3>2. job[h].kind \in {"remove", "edit"} /\ Allowed(job[h]) /\ job[h].by \in Tokens
      BY <2>4, <3>1 DEF HandlerInv
    <3>3. h \in alone => "admin" \in job[h].known \/ "admin" \in ToAdd(job[h])
      BY <2>4, <3>1 DEF Knows
    <3>4. "admin" \in ToAdd(job[h]) => "admin" \in Intended(job[h])
      BY <3>2 DEF ToAdd, Intended
    <3>5. h \in alone => "owner" \in job[h].by
      BY <2>4, <3>2, <3>3, <3>4, AdminsAllowNobody
    <3>. QED
      BY <2>3, <2>4, <3>1, <3>5
  <2>7. CASE BlockAtAuth0(h, ok)
    <3>1. job[h].pc = "authBlock" /\ job[h].member = m
      BY <2>4, <2>7 DEF BlockAtAuth0
    <3>2. job[h].kind = "block" \/ job[h].kind = "platform"
      BY <2>4, <3>1 DEF HandlerInv, Blocks
    <3>3. CASE job[h].kind = "block"
      <4>1. Allowed(job[h]) /\ job[h].by \in Tokens
        BY <2>4, <3>1, <3>3 DEF HandlerInv
      <4>2. h \in alone => "admin" \in job[h].known
        BY <2>4, <3>1, <3>3 DEF Knows
      <4>. QED
        BY <2>3, <2>4, <3>1, <4>1, <4>2, AdminsAllowNobody
    <3>. QED
      BY <2>3, <2>4, <3>1, <3>2, <3>3
  <2>. QED
    BY <2>2, <2>5, <2>6, <2>7
<1>. QED
  BY <1>1, MembersInductive, PTL DEF Spec, AdminsSpared
=============================================================================
