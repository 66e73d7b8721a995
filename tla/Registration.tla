---------------------------- MODULE Registration ----------------------------
(***************************************************************************)
(* How an account comes to be: the sign-up that Auth0's post-register      *)
(* action posts (UserService.create in src/src/user/user.service.ts),      *)
(* which writes the account, its chat token, the user, what Auth0 knows of *)
(* the user, and the organization one after the other, and the check of    *)
(* the organization at Middesk (the listeners in                           *)
(* src/src/verifications/listeners).  Auth0, SendBird and Middesk are      *)
(* external.                                                               *)
(*                                                                         *)
(* As in Orders, a handler is a record, job[h], and an action is the code  *)
(* from one await to the next.  A person who signs up without invitation   *)
(* founds an account; one who is invited joins the account of another.     *)
(***************************************************************************)
EXTENDS FiniteSets

CONSTANTS
  Founders,       \* those who sign up on their own, and their accounts
  Invited,        \* those who join an account
  MiddeskStatus,  \* what Middesk may report on a business
  Handlers,       \* handlers in progress at the same time
  Env,            \* what else may happen, a subset of EnvEvents
  Nothing         \* a field that is not there

EnvEvents ==
  {"overlap",   \* a request or an event starts while a handler waits
   "fails"}     \* a call to a service or to the database throws

ASSUME RegistrationAssumption ==
  /\ MiddeskStatus \subseteq
       {"open", "pending", "in_audit", "in_review", "approved", "rejected"}
  /\ Env \subseteq EnvEvents
  /\ Founders \cap Invited = {}
  /\ Nothing \notin Founders

VARIABLES
  account,   \* the rows of Account
  token,     \* those with a sendBirdAccessToken
  user,      \* the rows of User: the account
  linked,    \* external: the users whose account Auth0 knows
  owner,     \* external: the users Auth0 calls owners
  org,       \* Organization.organizationVerificationStatus, by account
  row,       \* OrganizationVerification.status, by account
  business,  \* external: what Middesk thinks of the business
  sent,      \* external: the events business.updated
  mixed,     \* for the properties: the accounts two of whose events
             \* overlapped, or one of whose events failed half-way
  job        \* what each handler is doing

people == <<account, token, user, linked, owner>>
outside == <<business, sent>>
vars == <<people, org, row, outside, mixed, job>>

-----------------------------------------------------------------------------
(***************************************************************************)
(* Data                                                                    *)
(***************************************************************************)

People == Founders \cup Invited

OrgStatus == {"Unverified", "Pending", "Approved", "Rejected"}

\* MiddeskStatusToOrganizationVerificationStatusMap
StatusOf(s) ==
  CASE s = "open"     -> "Unverified"
    [] s = "approved" -> "Approved"
    [] s = "rejected" -> "Rejected"
    [] OTHER          -> "Pending"

\* Where a handler waits.
Waiting == {"account", "token", "user", "link", "own", "org",
            "business", "row", "update", "summary"}

\* status: what the event says; withOrg: the sign-up brings an organization.
Job == [pc : Waiting, person : People \cup {Nothing}, account : Founders,
        withOrg : BOOLEAN, status : MiddeskStatus \cup {Nothing}]

Idle == [pc |-> "idle"]

Busy(h) == job[h] # Idle

NewJob(pc, p, a) ==
  [pc |-> pc, person |-> p, account |-> a, withOrg |-> FALSE, status |-> Nothing]

TypeOK ==
  /\ account \in SUBSET Founders
  /\ token \in SUBSET Founders
  /\ user \in [People -> Founders \cup {Nothing}]
  /\ linked \in SUBSET People
  /\ owner \in SUBSET People
  /\ org \in [Founders -> OrgStatus \cup {"none"}]
  /\ row \in [Founders -> OrgStatus \cup {"none"}]
  /\ business \in [Founders -> MiddeskStatus \cup {"new", "none"}]
  /\ sent \in SUBSET (Founders \X MiddeskStatus)
  /\ mixed \in SUBSET Founders
  /\ job \in [Handlers -> Job \cup {Idle}]

Init ==
  /\ account = {}
  /\ token = {}
  /\ user = [p \in People |-> Nothing]
  /\ linked = {}
  /\ owner = {}
  /\ org = [a \in Founders |-> "none"]
  /\ row = [a \in Founders |-> "none"]
  /\ business = [a \in Founders |-> "none"]
  /\ sent = {}
  /\ mixed = {}
  /\ job = [h \in Handlers |-> Idle]

-----------------------------------------------------------------------------
(***************************************************************************)
(* Signing up: POST users                                                  *)
(***************************************************************************)

MayStart(h) == ~Busy(h) /\ ("overlap" \in Env \/ \A g \in Handlers : ~Busy(g))

Goes(h, j) == job' = [job EXCEPT ![h] = j]

\* Auth0 posts a new user, once or again; only a sign-up without invitation
\* creates the account.
SignUp(h, p, a, withOrg) ==
  /\ MayStart(h)
  /\ p \in Founders => a = p
  /\ Goes(h, [NewJob(IF p \in Founders THEN "account" ELSE "user", p, a)
                EXCEPT !.withOrg = withOrg])
  /\ UNCHANGED <<people, org, row, outside, mixed>>

\* Mutant of CreateAccount: an account that is there will do.
CreateAccount_Again(h) ==
  /\ job[h].pc = "account"
  /\ account' = account \cup {job[h].account}
  /\ Goes(h, [job[h] EXCEPT !.pc = IF job[h].account \in account THEN "user" ELSE "token"])
  /\ UNCHANGED <<token, user, linked, owner, org, row, outside, mixed>>

\* The account is created: a second one with its id is refused, ...
CreateAccount(h) ==
  /\ job[h].pc = "account"
  /\ LET a == job[h].account
     IN /\ account' = account \cup {a}
        /\ Goes(h, IF a \in account THEN Idle ELSE [job[h] EXCEPT !.pc = "token"])
  /\ UNCHANGED <<token, user, linked, owner, org, row, outside, mixed>>

\* ... SendBird gives it a token, ...
SaveToken(h) ==
  /\ job[h].pc = "token"
  /\ token' = token \cup {job[h].account}
  /\ Goes(h, [job[h] EXCEPT !.pc = "user"])
  /\ UNCHANGED <<account, user, linked, owner, org, row, outside, mixed>>

\* ... the user is created in the account, which has to be there, ...
CreateUser(h) ==
  /\ job[h].pc = "user"
  /\ LET j == job[h]
     IN IF user[j.person] = Nothing /\ j.account \in account
        THEN /\ user' = [user EXCEPT ![j.person] = j.account]
             /\ Goes(h, [j EXCEPT !.pc = "link"])
        ELSE Goes(h, Idle) /\ UNCHANGED user
  /\ UNCHANGED <<account, token, linked, owner, org, row, outside, mixed>>

\* Where a sign-up goes when the person is known to Auth0.
AfterAuth0(j) == IF j.withOrg THEN [j EXCEPT !.pc = "org"] ELSE Idle

\* A call to Auth0 that fails is logged, and the handler goes on.
Answers(ok) == ok \/ "fails" \in Env

\* ... Auth0 is told the ids of both, ...
LinkAtAuth0(h, ok) ==
  /\ job[h].pc = "link"
  /\ Answers(ok)
  /\ LET j == job[h]
     IN /\ linked' = IF ok THEN linked \cup {j.person} ELSE linked
        /\ Goes(h, IF j.person \in Founders THEN [j EXCEPT !.pc = "own"] ELSE AfterAuth0(j))
  /\ UNCHANGED <<account, token, user, owner, org, row, outside, mixed>>

\* ... and that a founder is the owner, ...
OwnAtAuth0(h, ok) ==
  /\ job[h].pc = "own"
  /\ Answers(ok)
  /\ LET j == job[h]
     IN /\ owner' = IF ok THEN owner \cup {j.person} ELSE owner
        /\ Goes(h, AfterAuth0(j))
  /\ UNCHANGED <<account, token, user, linked, org, row, outside, mixed>>

\* A user creates the organization later: POST organizations.
PostOrganization(h, p) ==
  /\ MayStart(h)
  /\ user[p] # Nothing
  /\ Goes(h, NewJob("org", p, user[p]))
  /\ UNCHANGED <<people, org, row, outside, mixed>>

\* Mutant of CreateOrg: Middesk's listener runs whether or not the
\* organization could be created.
CreateOrg_Anyway(h, listener) ==
  /\ job[h].pc = "org"
  /\ ~Busy(listener)
  /\ LET a == job[h].account
     IN /\ org' = IF org[a] = "none" THEN [org EXCEPT ![a] = "Unverified"] ELSE org
        /\ job' = [job EXCEPT ![h] = Idle, ![listener] = NewJob("business", Nothing, a)]
  /\ UNCHANGED <<people, row, outside, mixed>>

\* ... the organization is created, and organization.created is emitted, whose
\* listener runs on its own.
CreateOrg(h, listener) ==
  /\ job[h].pc = "org"
  /\ ~Busy(listener)
  /\ LET a == job[h].account
     IN /\ org[a] = "none"
        /\ org' = [org EXCEPT ![a] = "Unverified"]
        /\ job' = [job EXCEPT ![h] = Idle, ![listener] = NewJob("business", Nothing, a)]
  /\ UNCHANGED <<people, row, outside, mixed>>

\* Middesk is not asked about an organization abroad.
CreateOrgAbroad(h) ==
  /\ job[h].pc = "org"
  /\ LET a == job[h].account
     IN /\ org[a] = "none"
        /\ org' = [org EXCEPT ![a] = "Unverified"]
  /\ Goes(h, Idle)
  /\ UNCHANGED <<people, row, outside, mixed>>

\* An account has one organization: a second one is refused.
SecondOrg(h) ==
  /\ job[h].pc = "org"
  /\ org[job[h].account] # "none"
  /\ Goes(h, Idle)
  /\ UNCHANGED <<people, org, row, outside, mixed>>

-----------------------------------------------------------------------------
(***************************************************************************)
(* Middesk: OrganizationCreatedListener and MiddeskUpdateBusinessListener  *)
(***************************************************************************)

\* Middesk gets to know the business ...
CreateBusiness(h) ==
  /\ job[h].pc = "business"
  /\ business' = [business EXCEPT ![job[h].account] = "new"]
  /\ Goes(h, [job[h] EXCEPT !.pc = "row"])
  /\ UNCHANGED <<people, org, row, sent, mixed>>

\* ... and the check is on record.
CreateRow(h) ==
  /\ job[h].pc = "row"
  /\ row' = [row EXCEPT ![job[h].account] = "Pending"]
  /\ Goes(h, Idle)
  /\ UNCHANGED <<people, org, outside, mixed>>

\* Middesk comes to a status, and reports it.
MiddeskReports(a, s) ==
  /\ business[a] \notin {"none", s}
  /\ business' = [business EXCEPT ![a] = s]
  /\ sent' = sent \cup {<<a, s>>}
  /\ UNCHANGED <<people, org, row, mixed, job>>

Updating(a) == {h \in Handlers : job[h].pc \in {"update", "summary"} /\ job[h].account = a}

\* The webhook answers at once and emits the event, which may be late, or come
\* again: nothing tells an old one from a new one.
EventArrives(h, a, s) ==
  /\ MayStart(h)
  /\ <<a, s>> \in sent
  /\ mixed' = IF Updating(a) # {} THEN mixed \cup {a} ELSE mixed
  /\ Goes(h, [NewJob("update", Nothing, a) EXCEPT !.status = s])
  /\ UNCHANGED <<people, org, row, outside>>

\* Mutant of UpdateRow: without a check on record the event still counts.
UpdateRow_Lenient(h) ==
  /\ job[h].pc = "update"
  /\ LET j == job[h]
     IN /\ row' = IF row[j.account] = "none" THEN row
                  ELSE [row EXCEPT ![j.account] = StatusOf(j.status)]
        /\ Goes(h, [j EXCEPT !.pc = "summary"])
  /\ UNCHANGED <<people, org, outside, mixed>>

\* The check on record follows; without one the event is lost ...
UpdateRow(h) ==
  /\ job[h].pc = "update"
  /\ LET j == job[h]
     IN IF row[j.account] = "none"
        THEN Goes(h, Idle) /\ UNCHANGED row
        ELSE /\ row' = [row EXCEPT ![j.account] = StatusOf(j.status)]
             /\ Goes(h, [j EXCEPT !.pc = "summary"])
  /\ UNCHANGED <<people, org, outside, mixed>>

\* Mutant of UpdateOrg: only the verdicts reach the organization.
UpdateOrg_Verdicts(h) ==
  /\ job[h].pc = "summary"
  /\ LET j == job[h]
     IN org' = IF j.status \in {"approved", "rejected"}
               THEN [org EXCEPT ![j.account] = StatusOf(j.status)] ELSE org
  /\ Goes(h, Idle)
  /\ UNCHANGED <<people, row, outside, mixed>>

\* ... and the organization's own column after it.
UpdateOrg(h) ==
  /\ job[h].pc = "summary"
  /\ LET j == job[h]
     IN org' = [org EXCEPT ![j.account] = StatusOf(j.status)]
  /\ Goes(h, Idle)
  /\ UNCHANGED <<people, row, outside, mixed>>

\* Any await may throw: the handler ends there.
Throws(h) ==
  /\ "fails" \in Env
  /\ Busy(h)
  /\ mixed' = IF job[h].pc = "summary" THEN mixed \cup {job[h].account} ELSE mixed
  /\ Goes(h, Idle)
  /\ UNCHANGED <<people, org, row, outside>>

-----------------------------------------------------------------------------
(***************************************************************************)
(* The specification                                                       *)
(***************************************************************************)

Begin(h) ==
  \/ \E p \in People, a \in Founders, withOrg \in BOOLEAN : SignUp(h, p, a, withOrg)
  \/ \E p \in People : PostOrganization(h, p)
  \/ \E a \in Founders, s \in MiddeskStatus : EventArrives(h, a, s)

ForSignUp(h) ==
  \/ CreateAccount(h)
  \/ SaveToken(h)
  \/ CreateUser(h)
  \/ \E ok \in BOOLEAN : LinkAtAuth0(h, ok) \/ OwnAtAuth0(h, ok)
  \/ \E l \in Handlers : CreateOrg(h, l)
  \/ CreateOrgAbroad(h)
  \/ SecondOrg(h)

ForMiddesk(h) == CreateBusiness(h) \/ CreateRow(h) \/ UpdateRow(h) \/ UpdateOrg(h)

Next ==
  \/ \E h \in Handlers : Begin(h) \/ ForSignUp(h) \/ ForMiddesk(h) \/ Throws(h)
  \/ \E a \in Founders, s \in MiddeskStatus : MiddeskReports(a, s)

Spec == Init /\ [][Next]_vars
-----------------------------------------------------------------------------
(***************************************************************************)
(* Properties that hold whatever overlaps or fails                         *)
(***************************************************************************)

\* Whatever a failed, repeated or overlapping sign-up leaves behind is the
\* beginning of one: the user of a founder has an account with a token, Auth0
\* knows accounts and owners only of users that exist, an organization has an
\* account, and a check has a business at Middesk and an organization.  (Sign-up
\* makes owners of founders only; the endpoints for members make others later,
\* see Members.)
WrittenInOrder ==
  /\ \A p \in Founders : user[p] # Nothing => user[p] = p /\ p \in token
  /\ \A p \in Invited : user[p] # Nothing => user[p] \in account
  /\ token \subseteq account
  /\ \A p \in linked \cup owner : user[p] # Nothing
  /\ owner \subseteq Founders
  /\ \A a \in Founders : /\ org[a] # "none" => a \in account
                         /\ business[a] # "none" => org[a] # "none"
                         /\ row[a] # "none" => business[a] # "none"

\* An organization has the status that Middesk has reported of this very
\* business at some time, once there was a check on record.
OrgStatusEarned ==
  \A a \in Founders : org[a] \notin {"none", "Unverified"} =>
    /\ row[a] # "none"
    /\ \E s \in MiddeskStatus : <<a, s>> \in sent /\ org[a] = StatusOf(s)

-----------------------------------------------------------------------------
(***************************************************************************)
(* A property of events that come one at a time                            *)
(***************************************************************************)

\* The organization says what the check on record says, unless two events on
\* it overlapped or one failed between the two; only the check starts as
\* Pending while the organization is Unverified.
OrgFollowsRow ==
  \A a \in Founders \ mixed :
    (\A h \in Updating(a) : job[h].pc # "summary") =>
      \/ org[a] = row[a]
      \/ org[a] = "Unverified" /\ row[a] \in {"none", "Pending"}

-----------------------------------------------------------------------------
(***************************************************************************)
(* The inductive invariant behind them                                     *)
(***************************************************************************)

\* What a handler may rely on where it waits.
HandlerInv(j) ==
  /\ j.pc \in {"account", "token", "own"} => j.person \in Founders
  /\ j.person \in Founders => j.account = j.person
  /\ j.pc \in {"account", "token", "user", "link", "own"} => j.person \in People
  /\ j.pc \in {"token", "link", "own", "org"} => j.account \in account
  /\ j.pc = "user" /\ j.person \in Founders => j.account \in token
  /\ j.pc \in {"link", "own"} => user[j.person] # Nothing
  /\ j.pc = "business" => org[j.account] # "none" /\ business[j.account] = "none"
  /\ j.pc = "row" => business[j.account] # "none" /\ row[j.account] = "none"
  /\ j.pc \in {"update", "summary"} => j.status \in MiddeskStatus /\ <<j.account, j.status>> \in sent
  /\ j.pc = "summary" => row[j.account] # "none"

JobInv == \A h \in Handlers : Busy(h) => HandlerInv(job[h])

\* Middesk is told of an organization by one listener at most.
ListenerInv ==
  \A g, h \in Handlers :
    /\ job[g].pc \in {"business", "row"} /\ job[h].pc \in {"business", "row"}
    /\ job[g].account = job[h].account
    => g = h

\* While nothing is mixed, one event at a time is acted on, and what its
\* handler is about to write is what it has put on record.
EventInv ==
  \A a \in Founders \ mixed : \A g, h \in Updating(a) :
    /\ g = h
    /\ job[h].pc = "summary" => row[a] = StatusOf(job[h].status)

IInv ==
  /\ TypeOK /\ JobInv /\ ListenerInv /\ EventInv
  /\ WrittenInOrder /\ OrgStatusEarned /\ OrgFollowsRow
=============================================================================
