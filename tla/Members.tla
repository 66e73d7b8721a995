------------------------------ MODULE Members ------------------------------
(***************************************************************************)
(* The members of an organization: their permissions, which are kept at    *)
(* Auth0 and copied into a cache, and their being blocked, which is kept   *)
(* at Auth0 and in the row of the user.  The endpoints are in              *)
(* src/src/organizations/controllers/organizations.me.controller.ts and    *)
(* users.admin.controller.ts and users.me.controller.ts of                 *)
(* src/src/user/controllers, the steps they take in                        *)
(* src/src/organizations/members.service.ts.  Auth0 is external.           *)
(*                                                                         *)
(* As in Orders, a handler is a record, job[h], and an action is the code  *)
(* from one await to the next.  Every handler reads the permissions of     *)
(* Auth0 first, decides on what it has read, sends Auth0 what to add and   *)
(* what to remove, and caches what it expects the outcome to be.  The      *)
(* calls to Auth0 swallow their errors.                                    *)
(***************************************************************************)
EXTENDS FiniteSets

CONSTANTS
  Members,       \* the members
  Permission,    \* the permissions there are
  Requested,     \* the sets of permissions a request may name
  Tokens,        \* the sets of permissions found in the tokens of callers
  Handlers,      \* handlers in progress at the same time
  Env            \* what else may happen, a subset of EnvEvents

EnvEvents ==
  {"overlap",   \* a request starts while a handler waits
   "fails"}     \* a call to Auth0, the cache or the database fails

\* PermissionGuard([]) lets nobody in but owners and admins.
ASSUME MembersAssumption ==
  /\ {"owner", "admin"} \subseteq Permission
  /\ Requested \subseteq SUBSET Permission
  /\ Tokens \subseteq {t \in SUBSET Permission : "owner" \in t \/ "admin" \in t}
  /\ Env \subseteq EnvEvents

VARIABLES
  perms,        \* external: the permissions of a member at Auth0
  cached,       \* the entry permissions/<authId> of the cache: a set of at most one
  authBlocked,  \* external: the members that Auth0 lets in no more
  dbBlocked,    \* the members with User.blocked
  alone,        \* for the properties: the handlers that nothing has disturbed
  settled,      \* for the properties: the members whose permissions were last
                \* read or changed by a handler that nothing disturbed
  parted,       \* for the properties: the members whose blocking was disturbed,
                \* or whose flag they have since written themselves
  job           \* what each handler is doing

outside == <<perms, authBlocked>>
history == <<alone, settled, parted>>
vars == <<outside, cached, dbBlocked, history, job>>

-----------------------------------------------------------------------------
(***************************************************************************)
(* Data                                                                    *)
(***************************************************************************)

\* GET, POST, DELETE and PATCH of a member's permissions, DELETE of a member,
\* and PATCH of a user by an admin of the platform.
Kind == {"show", "add", "remove", "edit", "block", "platform"}

Blocks(j) == j.kind \in {"block", "platform"}

\* Where a handler waits.
Waiting == {"read", "save", "add", "remove", "cache", "authBlock", "dbBlock"}

\* by: the permissions in the caller's token; ask: those in the body; known:
\* what Auth0 has answered; to: whether the member is to be blocked.
Job == [pc : Waiting, kind : Kind, member : Members, by : Tokens \cup {{}},
        ask : Requested \cup {{}}, known : SUBSET Permission, to : BOOLEAN]

Idle == [pc |-> "idle"]

Busy(h) == job[h] # Idle

NewJob(kind, m, by, ask) ==
  [pc |-> "read", kind |-> kind, member |-> m, by |-> by, ask |-> ask,
   known |-> {}, to |-> TRUE]

\* Mutant of Intended: what is cached is what was asked for.
Intended_Asked(j) ==
  CASE j.kind \in {"add", "edit"} -> j.ask
    [] j.kind = "remove"          -> j.known \ j.ask
    [] OTHER                      -> j.known

\* The permissions that the handler expects the member to end up with.
Intended(j) ==
  CASE j.kind = "add"    -> j.known \cup j.ask
    [] j.kind = "remove" -> j.known \ j.ask
    [] j.kind = "edit"   -> j.ask
    [] OTHER             -> j.known

\* What it sends to Auth0: addPermissions and removePermissions send what was
\* asked for, editPermissions the differences.
ToAdd(j) == IF j.kind = "remove" THEN {} ELSE IF j.kind = "add" THEN j.ask ELSE j.ask \ j.known

ToRemove(j) ==
  IF j.kind = "add" THEN {} ELSE IF j.kind = "remove" THEN j.ask ELSE j.known \ j.ask

\* Mutant of Allowed: the new permissions are not looked at.
Allowed_Unchecked(j) ==
  /\ "admin" \in j.by \cap j.known => "owner" \in j.by
  /\ "owner" \notin j.by \cap j.known

\* AssertPermissions: nobody but an owner touches an admin, or makes an owner
\* or an admin, and owners do not touch owners.  DELETE of a member gives it no
\* new permissions to look at, and the known ones are no help to it either.
Allowed(j) ==
  /\ "admin" \in j.by \cap j.known => "owner" \in j.by
  /\ "owner" \notin j.by \cap j.known
  /\ j.kind # "block" /\ Intended(j) \cap {"owner", "admin"} # {} => "owner" \in j.by

TypeOK ==
  /\ perms \in [Members -> SUBSET Permission]
  /\ cached \in [Members -> SUBSET (SUBSET Permission)]
  /\ authBlocked \in SUBSET Members
  /\ dbBlocked \in SUBSET Members
  /\ alone \in SUBSET Handlers
  /\ settled \in SUBSET Members
  /\ parted \in SUBSET Members
  /\ job \in [Handlers -> Job \cup {Idle}]

\* Members come with the permissions of their invitation.
Init ==
  /\ perms \in [Members -> SUBSET Permission]
  /\ cached = [m \in Members |-> {}]
  /\ authBlocked = {}
  /\ dbBlocked = {}
  /\ alone = {}
  /\ settled = Members
  /\ parted = {}
  /\ job = [h \in Handlers |-> Idle]

-----------------------------------------------------------------------------
(***************************************************************************)
(* The requests                                                            *)
(***************************************************************************)

MayStart(h) == ~Busy(h) /\ ("overlap" \in Env \/ \A g \in Handlers : ~Busy(g))

On(m) == {g \in Handlers : Busy(g) /\ job[g].member = m}

\* A handler is alone on its member until another starts there.
Enters(h, m) ==
  /\ alone' = IF On(m) = {} THEN alone \cup {h} ELSE alone \ On(m)
  /\ settled' = settled \ {m}
  /\ parted' = IF \E g \in On(m) : Blocks(job[g]) THEN parted \cup {m} ELSE parted

\* It leaves the permissions settled if it has read them, was alone to the end
\* and all went well.
Leaves(h) ==
  /\ alone' = alone \ {h}
  /\ settled' = IF h \in alone /\ job[h].kind # "platform"
                THEN settled \cup {job[h].member} ELSE settled

Disturbed(h, ok) == alone' = IF ok THEN alone ELSE alone \ {h}

Goes(h, j) == job' = [job EXCEPT ![h] = j]

\* GET of a member: an entry of the cache is returned as it is ...
Show(h, m) ==
  /\ MayStart(h)
  /\ cached[m] = {}
  /\ Enters(h, m)
  /\ Goes(h, NewJob("show", m, {}, {}))
  /\ UNCHANGED <<outside, cached, dbBlocked>>

\* ... which the others do not look at.  (Nor do they look whether the member
\* is of the caller's organization: an owner here is one of any.)
Change(h, m, kind, by, ask) ==
  /\ MayStart(h)
  /\ Enters(h, m)
  /\ Goes(h, NewJob(kind, m, by, ask))
  /\ UNCHANGED <<outside, cached, dbBlocked>>

\* An admin of the platform blocks a member, or lets it in again, without a
\* look at its permissions.
Platform(h, m, to) ==
  /\ MayStart(h)
  /\ Enters(h, m)
  /\ Goes(h, [NewJob("platform", m, {}, {}) EXCEPT !.pc = "authBlock", !.to = to])
  /\ UNCHANGED <<outside, cached, dbBlocked>>

\* Mutant of Read: the cache is good enough.
Read_Cached(h) ==
  /\ job[h].pc = "read"
  /\ LET m == job[h].member
     IN Goes(h, [job[h] EXCEPT !.pc = "save",
                   !.known = IF cached[m] = {} THEN perms[m] ELSE UNION cached[m]])
  /\ UNCHANGED <<outside, cached, dbBlocked, history>>

\* getPermissions asks Auth0 ...
Read(h) ==
  /\ job[h].pc = "read"
  /\ Goes(h, [job[h] EXCEPT !.pc = "save", !.known = perms[job[h].member]])
  /\ UNCHANGED <<outside, cached, dbBlocked, history>>

\* Where a change goes that is allowed, first or after what was to be added.
AfterAdding(j) == IF ToRemove(j) = {} THEN "cache" ELSE "remove"

FirstStep(j) ==
  CASE j.kind = "block"                     -> "authBlock"
    [] j.kind = "add"                       -> "add"
    [] j.kind = "remove"                    -> "remove"
    [] OTHER                                -> IF ToAdd(j) = {} THEN AfterAdding(j) ELSE "add"

\* ... and caches the answer, on which the request is let through or refused.
Save(h) ==
  /\ job[h].pc = "save"
  /\ cached' = [cached EXCEPT ![job[h].member] = {job[h].known}]
  /\ LET j == job[h]
     IN IF j.kind # "show" /\ Allowed(j)
        THEN Goes(h, [j EXCEPT !.pc = FirstStep(j)]) /\ UNCHANGED <<alone, settled>>
        ELSE Goes(h, Idle) /\ Leaves(h)
  /\ UNCHANGED <<outside, dbBlocked, parted>>

-----------------------------------------------------------------------------
(***************************************************************************)
(* The writes                                                              *)
(***************************************************************************)

\* A call to Auth0 that fails is logged, and the handler goes on.
Answers(ok) == ok \/ "fails" \in Env

AddAtAuth0(h, ok) ==
  /\ job[h].pc = "add"
  /\ Answers(ok)
  /\ LET j == job[h]
     IN /\ perms' = IF ok THEN [perms EXCEPT ![j.member] = @ \cup ToAdd(j)] ELSE perms
        /\ Goes(h, [j EXCEPT !.pc = AfterAdding(j)])
  /\ Disturbed(h, ok)
  /\ UNCHANGED <<authBlocked, cached, dbBlocked, settled, parted>>

RemoveAtAuth0(h, ok) ==
  /\ job[h].pc = "remove"
  /\ Answers(ok)
  /\ LET j == job[h]
     IN /\ perms' = IF ok THEN [perms EXCEPT ![j.member] = @ \ ToRemove(j)] ELSE perms
        /\ Goes(h, [j EXCEPT !.pc = "cache"])
  /\ Disturbed(h, ok)
  /\ UNCHANGED <<authBlocked, cached, dbBlocked, settled, parted>>

\* cacheSavePerm, with the permissions the member should have now.
CacheIntended(h) ==
  /\ job[h].pc = "cache"
  /\ cached' = [cached EXCEPT ![job[h].member] = {Intended(job[h])}]
  /\ Goes(h, Idle)
  /\ Leaves(h)
  /\ UNCHANGED <<outside, dbBlocked, parted>>

\* Mutant of BlockAtAuth0: members are only ever blocked there.
BlockAtAuth0_Only(h, ok) ==
  /\ job[h].pc = "authBlock"
  /\ Answers(ok)
  /\ LET j == job[h]
     IN /\ authBlocked' = IF ok THEN authBlocked \cup {j.member} ELSE authBlocked
        /\ parted' = IF h \notin alone \/ ~ok THEN parted \cup {j.member} ELSE parted \ {j.member}
        /\ Goes(h, [j EXCEPT !.pc = "dbBlock"])
  /\ Disturbed(h, ok)
  /\ UNCHANGED <<perms, cached, dbBlocked, settled>>

\* The member is blocked at Auth0 ...
BlockAtAuth0(h, ok) ==
  /\ job[h].pc = "authBlock"
  /\ Answers(ok)
  /\ LET j == job[h]
     IN /\ authBlocked' = IF ~ok THEN authBlocked
                          ELSE IF j.to THEN authBlocked \cup {j.member}
                          ELSE authBlocked \ {j.member}
        /\ parted' = IF h \notin alone \/ ~ok THEN parted \cup {j.member} ELSE parted \ {j.member}
        /\ Goes(h, [j EXCEPT !.pc = "dbBlock"])
  /\ Disturbed(h, ok)
  /\ UNCHANGED <<perms, cached, dbBlocked, settled>>

\* ... and in its row, which getByAccountId goes by.
BlockInDb(h) ==
  /\ job[h].pc = "dbBlock"
  /\ LET j == job[h]
     IN dbBlocked' = IF j.to THEN dbBlocked \cup {j.member} ELSE dbBlocked \ {j.member}
  /\ Goes(h, Idle)
  /\ Leaves(h)
  /\ UNCHANGED <<outside, cached, parted>>

\* PATCH users/me/complete-profile writes whatever the member sends of its own
\* row, the flag included, and tells Auth0 nothing.
CompleteProfile(m, blocked) ==
  /\ "overlap" \in Env \/ \A g \in Handlers : ~Busy(g)
  /\ dbBlocked' = IF blocked THEN dbBlocked \cup {m} ELSE dbBlocked \ {m}
  /\ parted' = parted \cup {m}
  /\ UNCHANGED <<outside, cached, alone, settled, job>>

\* Any await may throw: the request ends there.
Throws(h) ==
  /\ "fails" \in Env
  /\ Busy(h)
  /\ Goes(h, Idle)
  /\ alone' = alone \ {h}
  /\ parted' = IF job[h].pc = "dbBlock" THEN parted \cup {job[h].member} ELSE parted
  /\ UNCHANGED <<outside, cached, dbBlocked, settled>>

\* Mutant of CacheExpires: an entry is kept for ever.
CacheExpires_Never(m) ==
  /\ cached[m] # {}
  /\ FALSE
  /\ UNCHANGED vars

\* An entry lives for two minutes.
CacheExpires(m) ==
  /\ cached[m] # {}
  /\ cached' = [cached EXCEPT ![m] = {}]
  /\ UNCHANGED <<outside, dbBlocked, history, job>>

-----------------------------------------------------------------------------
(***************************************************************************)
(* The specification                                                       *)
(***************************************************************************)

Begin(h) ==
  \E m \in Members :
    \/ Show(h, m)
    \/ \E kind \in {"add", "remove", "edit"}, by \in Tokens, ask \in Requested :
          Change(h, m, kind, by, ask)
    \/ \E by \in Tokens : Change(h, m, "block", by, {})
    \/ \E to \in BOOLEAN : Platform(h, m, to)

Proceeds(h) ==
  \/ Read(h)
  \/ Save(h)
  \/ \E ok \in BOOLEAN : AddAtAuth0(h, ok) \/ RemoveAtAuth0(h, ok) \/ BlockAtAuth0(h, ok)
  \/ CacheIntended(h)
  \/ BlockInDb(h)

Next ==
  \/ \E h \in Handlers : Begin(h) \/ Proceeds(h) \/ Throws(h)
  \/ \E m \in Members : CacheExpires(m) \/ \E b \in BOOLEAN : CompleteProfile(m, b)

Spec == Init /\ [][Next]_vars

\* An await that does not throw is answered, and the time of an entry runs out.
Fairness ==
  /\ \A h \in Handlers : WF_vars(Proceeds(h))
  /\ \A m \in Members : WF_vars(CacheExpires(m))

FairSpec == Spec /\ Fairness
-----------------------------------------------------------------------------
(***************************************************************************)
(* Properties that hold whatever overlaps or fails                         *)
(***************************************************************************)

Editing(h) == Busy(h) /\ job[h].kind \in {"add", "remove", "edit"}

\* Who becomes an owner or an admin is made one by an owner, although the
\* check is on the permissions the member would have by an answer of Auth0
\* that may be out of date, and the write is of differences.
OnlyOwnersPromote ==
  [][\A m \in Members, p \in {"owner", "admin"} :
        p \in perms'[m] \ perms[m] =>
          \E h \in Handlers : /\ job[h].pc = "add" /\ job[h].member = m
                              /\ "owner" \in job[h].by
                              /\ job'[h] # job[h]]_vars

\* A wrong entry in the cache, which two handlers or a call that failed may
\* leave there, heals: once nothing is edited any more, the cache tells for
\* ever what Auth0 knows, or nothing.
CacheHeals ==
  (<>[](\A h \in Handlers : ~Editing(h))) =>
    <>[](\A m \in Members : cached[m] \subseteq {perms[m]})

-----------------------------------------------------------------------------
(***************************************************************************)
(* Properties of handlers that nothing disturbs                            *)
(***************************************************************************)

\* After a handler that was alone on its member from beginning to end, and
\* met no failure, the cache tells what Auth0 knows, until the next one
\* starts.
CacheTrue == \A m \in settled : cached[m] \subseteq {perms[m]}

\* The permissions of an admin are changed, and it is blocked, by nobody
\* but an owner or the platform, when nothing disturbs the handler.  (One that
\* another overtakes, or that a call failed, may act on a member that has
\* become an admin since it asked.)
AdminsSpared ==
  [][\A m \in Members :
        /\ "admin" \in perms[m]
        /\ perms'[m] # perms[m] \/ m \in authBlocked' \ authBlocked
        => \E h \in Handlers :
              /\ Busy(h) /\ job[h].member = m /\ job'[h] # job[h]
              /\ h \in alone => "owner" \in job[h].by \/ job[h].kind = "platform"]_vars

\* Auth0 and the row of the user agree on who is blocked, but for a member two
\* handlers were blocking at once, one for whom Auth0 or the database failed,
\* and one that has written its own flag (CompleteProfile): until a handler
\* that nothing disturbs blocks it, or lets it in, again.
BlockedBoth ==
  \A m \in Members \ parted :
    (\A h \in On(m) : job[h].pc # "dbBlock") => (m \in authBlocked <=> m \in dbBlocked)

-----------------------------------------------------------------------------
(***************************************************************************)
(* The inductive invariant behind them                                     *)
(***************************************************************************)

\* What a handler is there for, and has been let through for.
HandlerInv(j) ==
  /\ j.pc = "add" => j.kind \in {"add", "edit"}
  /\ j.pc = "remove" => j.kind \in {"remove", "edit"}
  /\ j.pc = "cache" => j.kind \in {"add", "remove", "edit"}
  /\ j.pc \in {"authBlock", "dbBlock"} => Blocks(j)
  /\ j.kind = "platform" => j.pc \in {"authBlock", "dbBlock"}
  /\ j.kind \notin {"show", "platform"} => j.by \in Tokens
  /\ j.pc \in {"add", "remove", "cache"} => Allowed(j)
  /\ j.kind = "block" /\ j.pc \in {"authBlock", "dbBlock"} => Allowed(j)

JobInv == \A h \in Handlers : Busy(h) => HandlerInv(job[h])

\* What a handler that nothing has disturbed knows of its member.
Knows(j) ==
  LET m == j.member
  IN /\ j.pc \in {"save", "add"} => perms[m] = j.known
     /\ j.pc = "remove" => perms[m] = j.known \cup ToAdd(j)
     /\ j.pc = "cache" => perms[m] = Intended(j)
     /\ j.kind = "block" /\ j.pc \in {"authBlock", "dbBlock"} =>
          perms[m] = j.known /\ cached[m] \subseteq {perms[m]}

AloneInv == \A h \in alone : Busy(h) /\ On(job[h].member) = {h} /\ Knows(job[h])

SettledInv == \A m \in settled : On(m) = {}

\* Between its two writes, a handler whose blocking is not disturbed is the
\* only one on its member.
PartedInv ==
  \A h \in Handlers : job[h].pc = "dbBlock" /\ job[h].member \notin parted =>
    /\ On(job[h].member) = {h}
    /\ job[h].member \in authBlocked <=> job[h].to

IInv ==
  /\ TypeOK /\ JobInv /\ AloneInv /\ SettledInv /\ PartedInv
  /\ CacheTrue /\ BlockedBoth
=============================================================================
