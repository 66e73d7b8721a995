--------------------------- MODULE Verifications ---------------------------
(***************************************************************************)
(* How a user gets an identity status: the phone check by a one-time       *)
(* password or by Prove, the check against Prove's records that follows it *)
(* (src/src/verifications/listeners/prove-start-verification.listener.ts), *)
(* the document check at Sardine with its webhook                          *)
(* (.../listeners/sardine-verification-processed.listener.ts), and the     *)
(* endpoints of src/src/verifications/controllers.  Prove and Sardine are  *)
(* external.                                                               *)
(*                                                                         *)
(* As in Orders, a handler is a record, job[h], and an action is the code  *)
(* from one await to the next.  Prove's answers and Sardine's events reach *)
(* the same column, User.idVerificationStatus, and none of the handlers    *)
(* looks at it before writing it.                                          *)
(***************************************************************************)
EXTENDS Integers, FiniteSets

CONSTANTS
  Users,         \* the ids of the users
  VerIds,        \* the ids Prove and Sardine give to verifications
  RiskLevels,    \* the levels Sardine may report
  Handlers,      \* handlers in progress at the same time
  Env,           \* what else may happen, a subset of EnvEvents
  Nothing        \* the value of a field that a job does not use

EnvEvents ==
  {"overlap",   \* a request or an event starts while a handler waits
   "fails",     \* a call to a service or to the database throws
   "byHand"}    \* the columns come in the body of a PATCH

ASSUME VerificationsAssumption ==
  /\ RiskLevels \subseteq {"low", "medium", "high", "very_high", "unknown"}
  /\ Env \subseteq EnvEvents
  /\ Nothing \notin Users \cup VerIds

VARIABLES
  idStatus,    \* User.idVerificationStatus
  phoneOk,     \* the users with User.isPhoneVerified
  patched,     \* for the properties: the users whose columns a PATCH has set
  phoneProof,  \* the users with a PhoneVerification row that says verified
  row,         \* the rows of IdentityVerification
  session,     \* the users whose session id is in the cache
  code,        \* the users whose one-time password is in the cache
  issued,      \* external: the verifications Prove and Sardine know of
  expired,     \* external: the document links that are past expiresAt
  told,        \* external: how often Sardine, or Slack, heard of the outcome
  job          \* what each handler is doing

userRow == <<idStatus, phoneOk, patched>>
cache == <<session, code>>
outside == <<issued, expired>>
vars == <<userRow, phoneProof, row, cache, outside, told, job>>

-----------------------------------------------------------------------------
(***************************************************************************)
(* Data                                                                    *)
(***************************************************************************)

IdStatus == {"Unverified", "Lite", "Full", "Rejected", "Reviewing", "Blocked"}

Decided == {"Full", "Reviewing", "Blocked"}

\* What Sardine thinks of the documents becomes the status of the user.
RiskLevelToIdVerificationStatusMap(level) ==
  CASE level \in {"low", "medium"} -> "Full"
    [] level = "very_high"         -> "Blocked"
    [] OTHER                       -> "Reviewing"

\* A verification that Prove has made or that Sardine is asked for.
NotIssued == [by |-> "nobody", user |-> Nothing, verdict |-> "open"]

Issued == [by : {"prove", "sardine"}, user : Users,
           verdict : RiskLevels \cup {"open", "verified", "unverified"}]

\* A row of Sardine is pending until its event has been processed.
NoRow == [user |-> Nothing, provider |-> "none", status |-> "none"]

Row == [user : Users, provider : {"prove", "sardine"},
        status : {"pending", "processed", "verified", "unverified"}]

\* Where a handler waits.
Waiting == {"code", "otpRow", "proveRow", "flag", "rows", "link", "reputation",
            "verify", "record", "lite", "count", "find", "delete", "url", "create",
            "mark", "tell", "verdict"}

Job == [pc : Waiting, user : Users, id : VerIds \cup {Nothing}, ok : BOOLEAN]

Idle == [pc |-> "idle"]

Busy(h) == job[h] # Idle

NewJob(at, u) == [pc |-> at, user |-> u, id |-> Nothing, ok |-> FALSE]

RowsOf(u) == {i \in VerIds : row[i].user = u}

Pending(u) == {i \in RowsOf(u) : row[i].provider = "sardine" /\ row[i].status = "pending"}

TypeOK ==
  /\ idStatus \in [Users -> IdStatus]
  /\ phoneOk \in SUBSET Users
  /\ patched \in SUBSET Users
  /\ phoneProof \in SUBSET Users
  /\ row \in [VerIds -> Row \cup {NoRow}]
  /\ session \in SUBSET Users
  /\ code \in SUBSET Users
  /\ issued \in [VerIds -> Issued \cup {NotIssued}]
  /\ expired \in SUBSET VerIds
  /\ told \in [VerIds -> Nat]
  /\ job \in [Handlers -> Job \cup {Idle}]

Init ==
  /\ idStatus = [u \in Users |-> "Unverified"]
  /\ phoneOk = {}
  /\ patched = {}
  /\ phoneProof = {}
  /\ row = [i \in VerIds |-> NoRow]
  /\ session = {}
  /\ code = {}
  /\ issued = [i \in VerIds |-> NotIssued]
  /\ expired = {}
  /\ told = [i \in VerIds |-> 0]
  /\ job = [h \in Handlers |-> Idle]

-----------------------------------------------------------------------------
(***************************************************************************)
(* The phone: POST start, POST otp/finish, GET prove/finish                *)
(***************************************************************************)

Quiet == \A h \in Handlers : ~Busy(h)

MayStart(h) == ~Busy(h) /\ ("overlap" \in Env \/ Quiet)

\* The handler goes on as j, in the same request.
Goes(h, j) == job' = [job EXCEPT ![h] = j]

\* start remembers the session.  An American phone gets a link of Prove, any
\* other one a one-time password (a user may change the phone at any time, so
\* it is an input which of the two it is) ...
Start(h, u, isUsPhone) ==
  /\ MayStart(h)
  /\ session' = session \cup {u}
  /\ Goes(h, IF isUsPhone THEN Idle ELSE NewJob("code", u))
  /\ UNCHANGED <<userRow, phoneProof, row, code, outside, told>>

\* ... which PhoneOtpService.send puts in the cache before the message goes.
SendCode(h) ==
  /\ job[h].pc = "code"
  /\ code' = code \cup {job[h].user}
  /\ Goes(h, Idle)
  /\ UNCHANGED <<userRow, phoneProof, row, session, outside, told>>

\* The entries of the cache live for five minutes, and one for an earlier phone
\* is of no use.  Nothing else ends a password, so one that was used can be
\* used again.
CacheExpires(u) ==
  /\ \/ u \in session /\ session' = session \ {u} /\ UNCHANGED code
     \/ u \in code /\ code' = code \ {u} /\ UNCHANGED session
  /\ UNCHANGED <<userRow, phoneProof, row, outside, told, job>>

\* What a user may send as the password: it may be missing from the body.
Passwords == {"right", "wrong", "none"}

\* PhoneOtpService.verify compares it with what is in the cache, and so no
\* password at all is as good as the right one while nothing is there.
verify(u, otp) == IF u \in code THEN otp = "right" ELSE otp = "none"

\* otpFinish goes by the outcome.
OtpFinish(h, u, otp) ==
  /\ MayStart(h)
  /\ Goes(h, [NewJob("otpRow", u) EXCEPT !.ok = verify(u, otp)])
  /\ UNCHANGED <<userRow, phoneProof, row, cache, outside, told>>

\* finish looks up whose session it is ...
ProveFinish(h, u) ==
  /\ MayStart(h)
  /\ u \in session
  /\ Goes(h, NewJob("rows", u))
  /\ UNCHANGED <<userRow, phoneProof, row, cache, outside, told>>

\* Mutant of CheckRows: earlier verifications are not looked for.
CheckRows_Unchecked(h) ==
  /\ job[h].pc = "rows"
  /\ Goes(h, NewJob("link", job[h].user))
  /\ UNCHANGED <<userRow, phoneProof, row, cache, outside, told>>

\* ... refuses a user who has a verification of whatever kind and status ...
CheckRows(h) ==
  /\ job[h].pc = "rows"
  /\ LET u == job[h].user
     IN Goes(h, IF RowsOf(u) = {} THEN NewJob("link", u) ELSE Idle)
  /\ UNCHANGED <<userRow, phoneProof, row, cache, outside, told>>

\* ... and asks Prove whether the link was followed on that phone.
CheckPhoneVerified(h, yes) ==
  /\ job[h].pc = "link"
  /\ Goes(h, [job[h] EXCEPT !.pc = "proveRow", !.ok = yes])
  /\ UNCHANGED <<userRow, phoneProof, row, cache, outside, told>>

\* Both record the outcome, and go on only when it is good.
CreatePhoneRow(h) ==
  /\ job[h].pc \in {"otpRow", "proveRow"}
  /\ LET u == job[h].user
         next == IF job[h].pc = "otpRow" THEN "flag" ELSE "reputation"
     IN /\ phoneProof' = IF job[h].ok THEN phoneProof \cup {u} ELSE phoneProof
        /\ Goes(h, IF job[h].ok THEN NewJob(next, u) ELSE Idle)
  /\ UNCHANGED <<userRow, row, cache, outside, told>>

\* finish asks Sardine for the reputation: a bad one changes nothing but that
\* Prove is not asked for the identity ...
BadReputation(h) ==
  /\ job[h].pc = "reputation"
  /\ Goes(h, NewJob("flag", job[h].user))
  /\ UNCHANGED <<userRow, phoneProof, row, cache, outside, told>>

\* ... and a good one emits StartVerification, whose listener runs on its own
\* beside the rest of finish.
GoodReputation(h, listener) ==
  /\ job[h].pc = "reputation"
  /\ ~Busy(listener)
  /\ LET u == job[h].user
     IN job' = [job EXCEPT ![h] = NewJob("flag", u), ![listener] = NewJob("verify", u)]
  /\ UNCHANGED <<userRow, phoneProof, row, cache, outside, told>>

\* Both set isPhoneVerified in the end.  (After it otpFinish asks for the
\* reputation as well and ignores the answer.)
SetPhoneVerified(h) ==
  /\ job[h].pc = "flag"
  /\ phoneOk' = phoneOk \cup {job[h].user}
  /\ Goes(h, Idle)
  /\ UNCHANGED <<idStatus, patched, phoneProof, row, cache, outside, told>>

-----------------------------------------------------------------------------
(***************************************************************************)
(* The identity at Prove: ProveStartVerificationListener                   *)
(***************************************************************************)

\* The phone's reputation, the identity, the verification: Prove gives up at
\* one of them ...
ProveAborts(h) ==
  /\ job[h].pc = "verify"
  /\ Goes(h, Idle)
  /\ UNCHANGED <<userRow, phoneProof, row, cache, outside, told>>

\* ... or comes to a result, with a transaction id.
ProveVerifies(h, i, verdict) ==
  /\ job[h].pc = "verify"
  /\ issued[i] = NotIssued
  /\ issued' = [issued EXCEPT ![i] = [by |-> "prove", user |-> job[h].user, verdict |-> verdict]]
  /\ Goes(h, [job[h] EXCEPT !.pc = "record", !.id = i, !.ok = (verdict = "verified")])
  /\ UNCHANGED <<userRow, phoneProof, row, cache, expired, told>>

\* Mutant of RecordVerification: an unverified result counts as well.
RecordVerification_Trusting(h) ==
  /\ job[h].pc = "record"
  /\ LET j == job[h]
     IN /\ row' = [row EXCEPT ![j.id] =
                     [user |-> j.user, provider |-> "prove",
                      status |-> IF j.ok THEN "verified" ELSE "unverified"]]
        /\ Goes(h, [j EXCEPT !.pc = "lite"])
  /\ UNCHANGED <<userRow, phoneProof, cache, outside, told>>

\* The result is stored ...
RecordVerification(h) ==
  /\ job[h].pc = "record"
  /\ LET j == job[h]
     IN /\ row' = [row EXCEPT ![j.id] =
                     [user |-> j.user, provider |-> "prove",
                      status |-> IF j.ok THEN "verified" ELSE "unverified"]]
        /\ Goes(h, IF j.ok THEN [j EXCEPT !.pc = "lite"] ELSE Idle)
  /\ UNCHANGED <<userRow, phoneProof, cache, outside, told>>

\* ... and a good one makes the user Lite, whatever the user is by now.
SetLite(h) ==
  /\ job[h].pc = "lite"
  /\ idStatus' = [idStatus EXCEPT ![job[h].user] = "Lite"]
  /\ Goes(h, Idle)
  /\ UNCHANGED <<phoneOk, patched, phoneProof, row, cache, outside, told>>

-----------------------------------------------------------------------------
(***************************************************************************)
(* The documents at Sardine: POST documents/url                            *)
(***************************************************************************)

\* Refused once the user's status is decided.  Otherwise the pending
\* verifications are counted ...
AskUrl(h, u) ==
  /\ MayStart(h)
  /\ idStatus[u] \notin Decided
  /\ Goes(h, NewJob("count", u))
  /\ UNCHANGED <<userRow, phoneProof, row, cache, outside, told>>

\* ... then read ...
CountPending(h) ==
  /\ job[h].pc = "count"
  /\ LET u == job[h].user
     IN Goes(h, NewJob(IF Pending(u) = {} THEN "url" ELSE "find", u))
  /\ UNCHANGED <<userRow, phoneProof, row, cache, outside, told>>

\* Mutant of FindPending: the expiration date is not looked at.
FindPending_Hasty(h) ==
  /\ job[h].pc = "find"
  /\ LET u == job[h].user
     IN \/ Pending(u) = {} /\ Goes(h, Idle)
        \/ Pending(u) # {} /\ Goes(h, NewJob("delete", u))
  /\ UNCHANGED <<userRow, phoneProof, row, cache, outside, told>>

\* ... and the first one is returned unless its link has expired.  (Gone in
\* between, it is missing from the answer and the handler throws.)
FindPending(h) ==
  /\ job[h].pc = "find"
  /\ LET u == job[h].user
     IN \/ Pending(u) = {} /\ Goes(h, Idle)
        \/ \E i \in Pending(u) :
              Goes(h, IF i \in expired THEN NewJob("delete", u) ELSE Idle)
  /\ UNCHANGED <<userRow, phoneProof, row, cache, outside, told>>

\* Mutant of DeletePending: every verification of the user goes.
DeletePending_All(h) ==
  /\ job[h].pc = "delete"
  /\ LET u == job[h].user
     IN /\ row' = [i \in VerIds |-> IF i \in RowsOf(u) THEN NoRow ELSE row[i]]
        /\ Goes(h, NewJob("url", u))
  /\ UNCHANGED <<userRow, phoneProof, cache, outside, told>>

\* The expired one is deleted, with all that are pending by now, ...
DeletePending(h) ==
  /\ job[h].pc = "delete"
  /\ LET u == job[h].user
     IN /\ row' = [i \in VerIds |-> IF i \in Pending(u) THEN NoRow ELSE row[i]]
        /\ Goes(h, NewJob("url", u))
  /\ UNCHANGED <<userRow, phoneProof, cache, outside, told>>

\* ... Sardine makes a new link ...
GetUrl(h, i) ==
  /\ job[h].pc = "url"
  /\ issued[i] = NotIssued
  /\ issued' = [issued EXCEPT ![i] = [by |-> "sardine", user |-> job[h].user, verdict |-> "open"]]
  /\ Goes(h, [job[h] EXCEPT !.pc = "create", !.id = i])
  /\ UNCHANGED <<userRow, phoneProof, row, cache, expired, told>>

\* ... and its row is created.
CreatePending(h) ==
  /\ job[h].pc = "create"
  /\ row' = [row EXCEPT ![job[h].id] =
               [user |-> job[h].user, provider |-> "sardine", status |-> "pending"]]
  /\ Goes(h, Idle)
  /\ UNCHANGED <<userRow, phoneProof, cache, outside, told>>

-----------------------------------------------------------------------------
(***************************************************************************)
(* The outcome at Sardine: SardineVerificationProcessedListener            *)
(***************************************************************************)

\* Mutant of EventArrives: the status of the row is not looked at.
EventArrives_Always(h, i) ==
  /\ MayStart(h)
  /\ issued[i].by = "sardine" /\ issued[i].verdict # "open"
  /\ Goes(h, IF row[i] # NoRow
             THEN [NewJob("mark", row[i].user) EXCEPT !.id = i] ELSE Idle)
  /\ UNCHANGED <<userRow, phoneProof, row, cache, outside, told>>

\* Sardine reports the outcome of i, late or repeatedly.  An event without a
\* pending row is dropped.  (The event is document_verification.processed: of
\* Sardine it is assumed that the status it carries, which the listener stores
\* as it is, says that the documents are processed.)
EventArrives(h, i) ==
  /\ MayStart(h)
  /\ issued[i].by = "sardine" /\ issued[i].verdict # "open"
  /\ Goes(h, IF row[i] # NoRow /\ row[i].status = "pending"
             THEN [NewJob("mark", row[i].user) EXCEPT !.id = i] ELSE Idle)
  /\ UNCHANGED <<userRow, phoneProof, row, cache, outside, told>>

\* The row gets its status; the update of a row that was deleted throws.
MarkProcessed(h) ==
  /\ job[h].pc = "mark"
  /\ LET i == job[h].id
     IN IF row[i] = NoRow
        THEN Goes(h, Idle) /\ UNCHANGED row
        ELSE Goes(h, [job[h] EXCEPT !.pc = "tell"]) /\ row' = [row EXCEPT ![i].status = "processed"]
  /\ UNCHANGED <<userRow, phoneProof, cache, outside, told>>

\* Sardine gets feedback, or Slack a request to review.
Tell(h) ==
  /\ job[h].pc = "tell"
  /\ told' = [told EXCEPT ![job[h].id] = @ + 1]
  /\ Goes(h, [job[h] EXCEPT !.pc = "verdict"])
  /\ UNCHANGED <<userRow, phoneProof, row, cache, outside>>

\* The user gets the status of the risk level the event carries.
SetVerdict(h) ==
  /\ job[h].pc = "verdict"
  /\ idStatus' = [idStatus EXCEPT ![job[h].user] =
                    RiskLevelToIdVerificationStatusMap(issued[job[h].id].verdict)]
  /\ Goes(h, Idle)
  /\ UNCHANGED <<phoneOk, patched, phoneProof, row, cache, outside, told>>

-----------------------------------------------------------------------------
(***************************************************************************)
(* The world outside the handlers                                          *)
(***************************************************************************)

\* Sardine comes to a result once the user has sent the documents.
SardineDecides(i, level) ==
  /\ issued[i].by = "sardine"
  /\ issued[i].verdict = "open"
  /\ issued' = [issued EXCEPT ![i].verdict = level]
  /\ UNCHANGED <<userRow, phoneProof, row, cache, expired, told, job>>

LinkExpires(i) ==
  /\ issued[i].by = "sardine"
  /\ expired' = expired \cup {i}
  /\ UNCHANGED <<userRow, phoneProof, row, cache, issued, told, job>>

\* PATCH /admin/users/:id and PATCH /users/me/complete-profile write what the
\* body says of the two columns.
SetByHand(u, s, ok) ==
  /\ "byHand" \in Env
  /\ idStatus' = [idStatus EXCEPT ![u] = s]
  /\ phoneOk' = IF ok THEN phoneOk \cup {u} ELSE phoneOk \ {u}
  /\ patched' = patched \cup {u}
  /\ UNCHANGED <<phoneProof, row, cache, outside, told, job>>

\* A handler fails where it waits: a service or the database throws, or the
\* process dies.
Throws(h) ==
  /\ "fails" \in Env
  /\ Busy(h)
  /\ Goes(h, Idle)
  /\ UNCHANGED <<userRow, phoneProof, row, cache, outside, told>>

-----------------------------------------------------------------------------
(***************************************************************************)
(* The specification                                                       *)
(***************************************************************************)

Begin(h) ==
  \/ \E u \in Users : \/ \E isUsPhone \in BOOLEAN : Start(h, u, isUsPhone)
                      \/ \E otp \in Passwords : OtpFinish(h, u, otp)
                      \/ ProveFinish(h, u)
                      \/ AskUrl(h, u)
  \/ \E i \in VerIds : EventArrives(h, i)

Phone(h) ==
  \/ SendCode(h)
  \/ CheckRows(h)
  \/ \E yes \in BOOLEAN : CheckPhoneVerified(h, yes)
  \/ CreatePhoneRow(h)
  \/ BadReputation(h)
  \/ \E l \in Handlers : GoodReputation(h, l)
  \/ SetPhoneVerified(h)

Prove(h) ==
  \/ ProveAborts(h)
  \/ \E i \in VerIds, v \in {"verified", "unverified"} : ProveVerifies(h, i, v)
  \/ RecordVerification(h)
  \/ SetLite(h)

Sardine(h) ==
  \/ CountPending(h)
  \/ FindPending(h)
  \/ DeletePending(h)
  \/ \E i \in VerIds : GetUrl(h, i)
  \/ CreatePending(h)
  \/ MarkProcessed(h)
  \/ Tell(h)
  \/ SetVerdict(h)

Elsewhere ==
  \/ \E u \in Users : CacheExpires(u)
  \/ \E i \in VerIds, level \in RiskLevels : SardineDecides(i, level)
  \/ \E i \in VerIds : LinkExpires(i)
  \/ \E u \in Users, s \in IdStatus, ok \in BOOLEAN : SetByHand(u, s, ok)

Next ==
  \/ \E h \in Handlers : Begin(h) \/ Phone(h) \/ Prove(h) \/ Sardine(h) \/ Throws(h)
  \/ Elsewhere

Spec == Init /\ [][Next]_vars
-----------------------------------------------------------------------------
(***************************************************************************)
(* Properties that hold whatever overlaps or fails                         *)
(***************************************************************************)

\* A verification of user u by provider p that is on record as s.
OnRecord(u, p, s, i) == row[i] = [user |-> u, provider |-> p, status |-> s] /\ issued[i].user = u

\* A status is earned, and what earned it stays on record: Lite by a result
\* of Prove, the others by a result of Sardine with that meaning, for this
\* very user.  In particular no deletion of expired verifications takes the
\* record of a decided one away.  (Not so for a user that was patched.)
StatusEarned ==
  \A u \in Users \ patched :
    /\ idStatus[u] = "Lite" =>
         \E i \in VerIds : OnRecord(u, "prove", "verified", i) /\ issued[i].verdict = "verified"
    /\ idStatus[u] \in Decided =>
         \E i \in VerIds : /\ OnRecord(u, "sardine", "processed", i)
                           /\ issued[i].verdict # "open"
                           /\ RiskLevelToIdVerificationStatusMap(issued[i].verdict) = idStatus[u]

\* isPhoneVerified is only set for a user with a check that succeeded on
\* record, which each handler writes first.  (A later change of the phone
\* leaves both as they are.)
PhoneProven == phoneOk \ patched \subseteq phoneProof

-----------------------------------------------------------------------------
(***************************************************************************)
(* Properties that need the handlers to run one at a time                  *)
(***************************************************************************)

\* The outcome of a verification is acted on once, however often it comes.
ProcessedOnce == \A i \in VerIds : told[i] <= 1

\* A pending verification whose link is still good is returned: it is neither
\* deleted nor given a second one beside it.
GoodLinkReturned ==
  [][\A u \in Users, i \in VerIds :
        /\ i \notin Pending(u) /\ i \in Pending(u)' => Pending(u) \subseteq expired
        /\ i \in Pending(u) /\ i \notin expired => row'[i] # NoRow]_vars

\* What Sardine's documents decided is final: neither a later result of Prove
\* nor another verification changes it (unless a PATCH has set it).
VerdictFinal ==
  [][\A u \in Users \ patched' : idStatus[u] \in Decided => idStatus'[u] = idStatus[u]]_vars

-----------------------------------------------------------------------------
(***************************************************************************)
(* The inductive invariant behind the first group of properties: what a    *)
(* handler carries with it through its awaits is on record and stays       *)
(* there.  Rows that are pending come and go; the others are for ever.     *)
(***************************************************************************)

\* A row agrees with what the provider knows.
RowAgrees(i) ==
  /\ row[i].user = issued[i].user /\ row[i].provider = issued[i].by
  /\ row[i].status = "processed" => row[i].provider = "sardine" /\ issued[i].verdict # "open"
  /\ row[i].status = "verified" => row[i].provider = "prove" /\ issued[i].verdict = "verified"
  /\ row[i].status = "pending" => row[i].provider = "sardine"

RowInv == \A i \in VerIds : row[i] # NoRow => RowAgrees(i)

\* What a handler may rely on where it waits.
HandlerInv(j) ==
  /\ j.pc \in {"reputation", "flag"} => j.user \in phoneProof
  /\ j.pc \in {"record", "create"} => row[j.id] = NoRow
  /\ j.pc = "record" => /\ issued[j.id].by = "prove" /\ issued[j.id].user = j.user
                        /\ j.ok => issued[j.id].verdict = "verified"
  /\ j.pc = "lite" => /\ OnRecord(j.user, "prove", "verified", j.id)
                      /\ issued[j.id].verdict = "verified"
  /\ j.pc = "create" => issued[j.id].by = "sardine" /\ issued[j.id].user = j.user
  /\ j.pc = "mark" => /\ issued[j.id].by = "sardine" /\ issued[j.id].user = j.user
                      /\ issued[j.id].verdict # "open"
  /\ j.pc \in {"tell", "verdict"} => /\ OnRecord(j.user, "sardine", "processed", j.id)
                                     /\ issued[j.id].verdict # "open"

WithId == {"record", "lite", "create", "mark", "tell", "verdict"}

JobInv ==
  \A h \in Handlers : Busy(h) =>
    /\ job[h].pc \in WithId => job[h].id \in VerIds
    /\ HandlerInv(job[h])

\* No two handlers are about to create the row of one verification.
FreshInv ==
  \A g, h \in Handlers :
    job[g].pc \in {"record", "create"} /\ job[h].pc \in {"record", "create"}
      /\ job[g].id = job[h].id => g = h

IInv == TypeOK /\ RowInv /\ JobInv /\ FreshInv /\ StatusEarned /\ PhoneProven

-----------------------------------------------------------------------------
(***************************************************************************)
(* Beside it, for the second group: handlers that run one at a time, but   *)
(* for the listener of StartVerification, which goes on while finish sets  *)
(* the flag of the phone.                                                  *)
(***************************************************************************)

ListenerAt == {"verify", "record", "lite"}

OneAtATime ==
  \A g, h \in Handlers : g # h /\ Busy(g) /\ Busy(h) =>
    \/ job[g].pc = "flag" /\ job[h].pc \in ListenerAt
    \/ job[h].pc = "flag" /\ job[g].pc \in ListenerAt

\* From CheckRows on Prove's way, and from AskUrl or the event on Sardine's.
ProveWay == {"link", "proveRow", "reputation"} \cup ListenerAt

SardineWay == {"count", "find", "delete", "url", "create", "mark", "tell", "verdict"}

\* What was read of the user is still true where the handler waits.
StillTrue(j) ==
  /\ j.pc \in ProveWay => \A i \in RowsOf(j.user) : row[i].provider = "prove"
  /\ j.pc \in SardineWay /\ j.user \notin patched => idStatus[j.user] \notin Decided
  /\ j.pc = "delete" => Pending(j.user) \subseteq expired
  /\ j.pc \in {"url", "create", "tell", "verdict"} => Pending(j.user) = {}
  /\ j.pc = "mark" => j.id \in Pending(j.user)
  /\ j.pc = "tell" => told[j.id] = 0

JobsTrue == \A h \in Handlers : Busy(h) => StillTrue(job[h])

\* A user has one pending verification at most, and none once decided; only
\* what was processed has been told.
RowsSerial ==
  /\ \A u \in Users : \A i, k \in Pending(u) : i = k
  /\ \A u \in Users \ patched : idStatus[u] \in Decided => Pending(u) = {}
  /\ \A i \in VerIds : told[i] <= 1 /\ (told[i] # 0 => row[i].status = "processed")

SerialInv == "overlap" \notin Env => OneAtATime /\ JobsTrue /\ RowsSerial
=============================================================================
