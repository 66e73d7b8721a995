# A TLA+ model of the Merov back end

Merov is a marketplace: organizations and persons sell products, make offers on
them, and buy each other's; an order is paid in crypto currency into an escrow
that an external service, ERBN, holds until the goods have arrived. The back
end (`src/src`, a NestJS server over PostgreSQL, one Node process) is a set of
request handlers, event listeners and cron jobs that share the rows of the
database and call external services between their reads and their writes.

That is where its difficulty lies. Node runs one handler at a time, but only up
to the next `await`. A handler reads a row, checks it, awaits a service, and
then writes: by the `id` alone, and often an absolute number computed from what
it read. Between the read and the write any other request, event or job may have
run, the external effect may have happened although its answer was lost, and
the process may have died.

Six parts carry the program's own logic and are modelled: **the life of an order
and its money** (`Orders`), **the stock, the offers and the orders that take from
them** (`Inventory`), **the identity of a user**, which decides who may trade
(`Verifications`), **the members of an organization** and what they may do
(`Members`), **the chats and the reviews beside an order** (`Deals`), and **how an
account and its organization come to be** (`Registration`).

| module | what it is |
|---|---|
| `OrderRules` | the rules of the order life cycle, from `OrderValidator`; pure definitions |
| `Orders` | the order service with its callers (parties, admins, the ERBN webhook, two cron jobs) and ERBN |
| `Settlement` | what the order service promises about an order and its money; `Orders` implements it |
| `OrdersSerial` | what holds of `Orders` when handlers run one at a time, and the mapping to `Settlement` |
| `OrdersProofs` | the proofs about `Orders`, whatever overlaps |
| `OrdersSerialProofs` | the proofs about handlers that run one at a time, and that they implement `Settlement` |
| `Inventory` | creation of orders, life of offers, changes of products, return of pieces |
| `InventoryProofs` | the proofs about `Inventory` |
| `Verifications` | the phone check, the identity check at Prove, the document check at Sardine with its webhook |
| `VerificationsProofs` | the proofs about `Verifications` |
| `Members` | the permissions of members at Auth0 with their cache, and blocking at Auth0 and in the database |
| `MembersProofs` | the proofs about `Members` |
| `Deals` | finding or creating a chat, the order that takes hold of it, reviews and ratings |
| `DealsProofs` | the proofs about `Deals` |
| `Registration` | sign-up over database, SendBird and Auth0, creation of an organization, Middesk's check of it |
| `RegistrationProofs` | the proofs about `Registration` |
| `SumsProofs` | lemmas about sums over finite sets, for the stock and the ratings |
| `MC*` | instances for TLC |

## 1. The system

### 1.1 Components

For each component: its state, its operations, whom it talks to, and what makes
it correct. "Modelled in" names the module.

**orders** (`orders/`) — rows of `Order` (status, escrow, eight timestamps,
quantity, price), `Dispute`, `Review`. Operations: `createFromProduct`,
`createFromOffer`; `update`, which dispatches on the requested status to one
handler per status; reading and listing; `ReviewService.create`. Called by the
public API behind two guards, by the admin API without them, by the webhook
event `escrow.paid` and by the cron jobs. Calls ERBN, products, offers, chats,
notifications. *Correct when* an order follows the life cycle, its status never
claims more than the money has done, money is paid out only when earned and only
once, and no piece of stock is lost or invented. The life of an order is
modelled in `Orders`, its creation in `Inventory`, its reviews in `Deals`: *correct
when* a rating is that of the reviews, and a review one of a party of the order.

**task** (`task/checkDeliveredOrdersTask.ts`) — two cron jobs: shipped orders
become `Delivered` after a period, delivered ones `Completed` after another.
Each reads all orders in a status and then updates them one after the other
*from the snapshots*, catching errors per order. *Correct when* silence of the
buyer never keeps the seller's money back for ever, and an order that has moved
on meanwhile is left alone (it is not: section 6). Modelled in `Orders`.

**escrow** (`shared/services/erbn.service.ts`, `escrow/`) and **webhooks** — the
client of ERBN (`createEscrow`, `releaseEscrow`, `refundEscrow`, `closeEscrow`),
and the endpoint that turns ERBN's, Sardine's and Middesk's callbacks into
events. ERBN's part is modelled in `Orders`, Sardine's in `Verifications`, Middesk's
in `Registration`.

**products** (`products/`) — `Product` (stock, deleted, approved, descriptive
data), brands, categories, models. Create, patch, delete by sellers (refused
while the product has active orders) and by admins (not refused). *Correct when*
stock is what is really there and no order is left on a product that is gone.
Stock and deletion are modelled in `Inventory`; the descriptive part is not.

**offer** (`offer/`) — `Offer` (status, quantity, price, expiration date). Create,
close, expire (nightly job), lower (with every order on the product). *Correct
when* an active offer can be honoured and an offer that has ended stays ended.
Modelled in `Inventory`.

**chats** (`chats/`) — a chat per buyer and product, mirrored as a channel at
SendBird, found or created by `POST chats` and by order creation. `Order.chatId` is
unique. *Correct when* a buyer has one chat for a product, the chat of an order is
its buyer's and has a channel, and no two orders share it. Modelled in `Deals`; in
`Inventory` only its lookup of the product counts.

**verifications** (`verifications/`, `prove/`, `sardine/`, `middesk/`) — the
identity status of a user, the rows of `PhoneVerification` and
`IdentityVerification`, and the verification of an organization. Sources that
write the same status: the listener of the Prove flow, the listener of Sardine's
callback on documents, and the body of a PATCH. Sessions and one-time passwords
live in a cache. *Correct when* a verdict is not overwritten by an older one, an
event counts once and is not lost, and every status is earned. A user's part is
modelled in `Verifications`, an organization's (Middesk) in `Registration`.

**organizations** (`organizations/`, `shared/helpers/permission.ts`) —
organizations; members, whose permissions are kept at Auth0 behind a two-minute cache
and who may be blocked at Auth0 and in their row; invitations that expire at night.
*Correct when* nobody is promoted, demoted or blocked by one who may not, the cache
does not lie for long, and Auth0 and the row agree on who is blocked. Members are
modelled in `Members`, the creation of organizations in `Registration`; invitations
are not modelled (section 7).

**user**, **accounts** — sign-up writes `Account`, its SendBird token, `User`, Auth0's
metadata and permission, and an `Organization` one after the other; addresses and
wallets are single rows. *Correct when* what a failed, repeated or overlapping
sign-up leaves behind is at least the beginning of one, and the status of an
organization is what Middesk has said of it. Modelled in `Registration`, the rating
of an account in `Deals`.

**auth** (token checks), **admin** (read-only statistics), **blog**,
**contact-form**, **subscription-email**, **images**, **currencies** (cached
rates), **notifications** and **server-events** (deliver messages and keep read
flags), **transaction** (reads hashes), **config**, **prisma** (schema, seeds),
**shared** (HTTP clients, pipes, filters, the search index): stateless, read-only, or
a single write of a single row. Not modelled, but for the calls to Auth0 and
SendBird where `Members`, `Registration` and `Deals` use them.

### 1.2 How they interact

* *Calls with awaits in between.* `update` → ERBN → product row → order row;
  `createFromOffer` → offer row → account → product row → chat → price →
  transaction.
* *Shared rows.* `Product.stock` is written by order creation, by closed and
  refunded orders, by sellers and by admins. `Offer.status` is written by four
  handlers. `Order.status` by all the callers listed above,
  `User.idVerificationStatus` by two listeners and two PATCH endpoints.
* *Events.* The webhook controller emits `escrow.paid` or Sardine's event in the
  process and answers the caller; the listener runs on its own. So does the
  listener of `StartVerification`, which `prove/finish` emits, and that of
  `organization.created`, which a sign-up emits.
* *Calls that never fail.* The client of Auth0 catches the errors of its writes, logs
  them and returns: its callers go on as if the write had been done.
* *Cron jobs* run in the same process, interleaved with requests at each await.

### 1.3 Behaviours that are hard to test

Updates that overlap; jobs that work through old snapshots; a request to ERBN
that took effect while the answer was lost; a crash between an external effect
and the write that records it; an event that comes twice or late; absolute
numbers written from stale reads; one step of several that fails. The file
`PROJECT.json` lists each at its line with the properties that would notice it, or
says why there is none.

## 2. Plan

Done, in this order:

1. `OrderRules`, `Orders`: the life of an order, all its callers, ERBN, crashes.
2. `Settlement` and the refinement mapping in `OrdersSerial`.
3. `OrdersProofs`: type correctness, the inductive invariant, five safety
   properties that hold whatever overlaps.
4. `Inventory` with its runs; `InventoryProofs`.
5. `Verifications` with its runs; `VerificationsProofs`.
6. `Members`, `MembersProofs`: permissions, cache, blocking.
7. `Deals`, `DealsProofs`: chats with order creation, reviews.
8. `Registration`, `RegistrationProofs`: sign-up, organizations, Middesk.

9. `OrdersSerial`, `OrdersSerialProofs`: the serial properties of `Orders`, and the
   refinement step by step; the serial theorems of `Verifications`.
10. `SumsProofs`, and with it the properties that count pieces and points
    (`StockConserved`, `StockAccounted`, `ReviewsCounted`).

Every safety property that a passing run checks is now a theorem, too.

## 3. How the models correspond to the code

### 3.1 Common form

A request that is being served, or a cron job, is an *actor*. `job[a]` is `Idle`
or a record of what the actor's handler has read and the `await` at which it
stands (`pc`). **One action is the code from one await to the next**: the code
before the first write or call, then one action for each external call or write.
No action checks again what the code does not check again, and a row is
written as the code writes it: by its id, without a condition.

What the code does in one SQL statement or one `$transaction` is one action
(`PlaceOrder`; the nested creation of a dispute; `ProductsService.delete`, which
closes the offers in the same statement).

In `Orders` calls to ERBN may throw in every run, and `MaxMishaps` bounds how often the
process dies or a query of the database fails.

The webhooks of ERBN and Middesk have no guard in the code. The models take their
callers to be who they should be: an event arrives only after ERBN, or Middesk, has
something to report.

A handler that throws becomes `Idle`; HTTP answers, notifications, e-mails,
prices, addresses and texts are left out, since no property is about them.

The constant `Env` is a set of the disturbances that are allowed in a run, so one
module serves the runs with and without them:

| `Env` | effect |
|---|---|
| `"overlap"` | a request or job may start while another one waits. Without it one handler runs at a time (events, crashes and users in between remain) |
| `"lostReply"` (`Orders`) | ERBN does what it was asked and the answer is lost |
| `"adminPaid"` (`Orders`) | an admin marks orders as paid by hand, which the admin API accepts |
| `"adminDelete"` | an admin deletes a product that still has orders |
| `"patch"` (`Inventory`) | sellers and admins set the stock by hand |
| `"fails"` (the others) | a handler ends at an await: a service or the database throws, or the process dies; a write to Auth0 (`Members`, `Registration`) is lost and the handler goes on |
| `"byHand"` (`Verifications`) | the status and the flag of the phone come in the body of a PATCH; `patched` remembers whose, and the properties are about the other users |

### 3.2 Orders

| variable | code |
|---|---|
| `status`, `escrowId`, `stamps` | `Order.status`, `.escrowId`, and which of `acceptedAt`, `paidAt`, … are set |
| `stock`, `deleted` | the product of the order |
| `escrow`, `escrowFor` | external: ERBN's escrows, and which order each was created for |
| `acked` | external: the escrows whose payment ERBN has reported and had acknowledged |
| `job`, `batch` | handlers between awaits; the snapshots a cron job has left |
| `mishaps` | counts crashes and failed queries, for the bound and for `EventLost` |

`PartyPatch` (guard and validator, then the handler reads the order *again*), `AdminPatch`
(no validator), `EscrowPaid` (webhook; any number of times, at any time after the payment)
create a request. `ReadOrder` is `update` with its check of `validFrom` and dispatches as
the switch does. Then, for the handler of the requested status: `CreateEscrow`,
`ReleaseEscrow`, `RefundEscrow`, `CloseEscrow`, `NoPayout` (ERBN answers without a hash);
`ReadProduct` and `Restock` (`restockOrder`); `WriteOrder`. `Throws` ends a handler at any
of its awaits. `CronScan` is the query of a job; `CronUpdate` hands a snapshot to
`update`, which in that case checks the snapshot's status and reads nothing.

Details that matter and are kept: closing a `Paid` order turns into a refund
inside `handleOrderClosed`; a release or refund without a hash writes
`EscrowPaymentFailed`, and for a refund only after the stock has gone back; a
second dispute of an order violates the uniqueness of `Dispute.orderId` and takes
the whole update with it; a deleted product makes `restockOrder` throw after the
money has gone out; the validator has no rule for `Delivered`; `validFrom` has no
entry for `EscrowPaymentFailed`, so that `update` refuses everything from there. The
controller of the webhook acknowledges ERBN's report when it has emitted the event
(`acked`), before the listener has looked for the order.

An order starts as `Created` also when it comes from an offer: `createFromOffer`
passes `Accepted` (`orders.service.ts:213`), but `createOrderDb` sets the status
after it spreads its argument (`:241`).

Abstractions: of a timestamp only whether it is set; that a period is over is a
free choice of the job; tracking number, prices and chain are left out. ERBN is
modelled from how it is used: it pays out a funded escrow, once, closes one that
nobody paid into, creates escrows with fresh ids, reports payments to open
escrows, and may fail at every call.

### 3.3 Settlement

An order's `status` and where its `money` is: `none`, `held`, with the `seller`,
back with the `buyer`, or `void` (the escrow was closed unpaid). Money moves one
step at a time, and a status that claims something is only reached after the money has
moved. The mapping (`MoneyOf` in `OrdersSerial`) reads the money off the current
escrow of the order.

### 3.4 Inventory

| variable | code |
|---|---|
| `stock`, `deleted` | `Product` |
| `offerStatus`, `offerQty` | `Offer` (`"none"`: not created yet) |
| `order` | the orders: product, quantity, and whether active, completed, returned to stock, or left in `EscrowPaymentFailed` by a release or by a refund (whose pieces are back); these last two count as active, as `activeStatusList` has it |
| `job` | requests between awaits |

Creation from a product: `ReadForOrder` → `GetChat` → `PlaceOrder`. From an
offer: `ReadOffer` → `ReadProduct` → `GetChat` → `PlaceOrder`; the first read
checks the quantity, the second one computes the new stock *without* checking
again. `PlaceOrder` is the transaction: it writes the stock that was computed and
lowers the offers chosen when the product was read (`updateOfferStock`: nothing
left expires the offer, otherwise its status is not touched).
`ReadForNewOffer` → `WriteOffer`; `ExpireOffer`, one per offer and night;
`CloseOffer`. `ReadForPatch` → `WritePatch`, `ReadForDelete` → `WriteDelete` for
sellers (the check and the write are two statements), `AdminPatch`,
`AdminDelete`. `ReadForRestock` → `WriteRestock` → `WriteOver` is the end of a
closed or refunded order, `CompleteOrder` of a completed one. `Throws` is every
failure before the first write, a refused transaction included.

What the code lets through is allowed. `createOfferSchema` is used nowhere (the endpoint
has `PriceValidationPipe` only), so an offer may be for zero or fewer pieces; or its
quantity is left out, which passes the comparison with the stock and becomes
`DefaultQuantity`, the one piece that the database fills in. PATCH may set a negative
stock. `createFromOffer` looks for the chat by the product that the request names, and
nobody compares it with the product of the offer (`GetChat`).

### 3.5 Verifications

| variable | code |
|---|---|
| `idStatus`, `phoneOk` | `User.idVerificationStatus`, `.isPhoneVerified` |
| `patched` | no code: for whom a PATCH has set these columns |
| `phoneProof` | who has a row of `PhoneVerification` that says verified |
| `row` | `IdentityVerification`: user, provider, status |
| `session`, `code` | the two kinds of cache entries |
| `issued`, `expired` | external: the verifications Prove and Sardine know, their results, and which links are past their date |
| `told` | how often somebody was told the outcome (feedback to Sardine, message to Slack) |
| `job` | handlers between awaits |

`Start`, `SendCode`, `OtpFinish` and `ProveFinish` begin the phone check;
`CheckRows` refuses a user with any verification, `CheckPhoneVerified` asks
Prove, `CreatePhoneRow` records the outcome, and after `BadReputation` or
`GoodReputation` `SetPhoneVerified` sets the flag. `GoodReputation` starts a
second handler, the listener (`ProveVerifies` or `ProveAborts`,
`RecordVerification`, `SetLite`), which goes on beside the first one even when
requests do not overlap. `AskUrl` → `CountPending` → `FindPending` →
(`DeletePending`) → `GetUrl` → `CreatePending` is `POST documents/url`; the count
and the rows are two queries. `EventArrives` → `MarkProcessed` → `Tell` →
`SetVerdict` is the listener of Sardine's event, which may come any number of
times once Sardine has decided. The feedback, a message to Slack, or a decline
are one action, `Tell`, since each outcome leads to exactly one of them.

`OtpFinish` compares what is sent (`Passwords`: the right password, a wrong one, or none)
with the cache as `verify` does, for which nothing equals nothing: without an entry a
missing password passes.

Abstractions: the cache is keyed by the user (the code keys the password by
the phone, which is unique). A change of the phone is an input only in so far
as `Start` takes either kind of phone; it leaves the flag and the rows as they
are. The document event carries `complete` or `error` as the row's status, which
the code never tells apart: both are `processed`. The listener writes whatever status the
event carries, and the type of the event (`webook-event.ts:21`) would allow `pending`, too;
the model assumes that an event which says that a document was processed does not say
that it is still waiting. `PATCH
admin/identity/verifications/:id` hands a string to Prisma where it takes an
object, so it never writes, and is left out.

### 3.6 Members

| variable | code |
|---|---|
| `perms`, `authBlocked` | external: what Auth0 knows of a member |
| `cached` | the cache entry `permissions/<authId>` |
| `dbBlocked` | `User.blocked` |
| `alone`, `settled`, `parted` | no code: which handlers nothing has disturbed, whose permissions such a handler was the last to touch, and for whom blocking was disturbed or who has written its own flag |
| `job` | handlers between awaits |

`Show` is `GET members/:id` without an entry in the cache (with one it changes
nothing); `Change` begins the other four endpoints of
`organizations.me.controller.ts`, which skip the cache. `Read` asks Auth0, `Save`
caches the answer, and then `AssertPermissions` (`Allowed`), with the permissions in
the caller's token, lets the handler go on or refuses it. `AddAtAuth0` and
`RemoveAtAuth0` send what was asked for or, for an edit, the differences from what was
read; `CacheIntended` caches the outcome that was expected, whether or not Auth0 has
answered. `BlockAtAuth0` → `BlockInDb` is the blocking by an owner or admin of the
organization, after the same check, and by the platform (`Platform`, `PATCH
admin/users/:id` with `blocked` true or false) without one. `CompleteProfile` is `PATCH
users/me/complete-profile`, which writes what it is sent of the member's row, `blocked`
included, and tells Auth0 nothing. `CacheExpires` is the end of the two minutes.

Left out: the other permissions of the enumeration (`AssertPermissions` looks at `owner`
and `admin` only), the spelling of their names, the members' list. `PermissionGuard([])`
lets in owners and admins and nobody else, hence the assumption on `Tokens`. Nothing in
these endpoints compares the caller's organization with the member's, so "an owner" is an
owner of any. A token keeps its permissions while a member's change; both come from small
sets, in any combination.

### 3.7 Deals

| variable | code |
|---|---|
| `chat`, `channel` | rows of `Chat`; external: the channels of SendBird |
| `order` | of the order only its stage as far as reviews can tell, its buyer and its chat |
| `review` | rows of `OrderReview` |
| `standing` | `Account.reviewCount`, and `rating` times that |
| `crossed`, `skewed` | no code: whose chat requests, or the reviews of whom, overlapped or were given up half-way |
| `garbled` | no code: the accounts rated by a text |
| `job` | handlers between awaits |

`AskChat` begins `POST chats` or the creation of an order, which both call
`getOrCreateChat`: `FindChat` → `NewChannel` → `CreateChat`, and for an order
`PlaceOrder`, whose `connect` takes the chat away from the order that had it.
`AskReview` → `ReadOrder` → `RateByNumber` or `RateByText` → `InsertReview` is
`ReviewService.create`; the last step may be refused because of the unique key, or because
`OrderReview.rating` is an `Int` while the schema of the request allows 4.5. The schema
also allows the text of a number, and `JoiValidationPipe` returns the value as it came: a
text is put behind the digits of `rating * reviewCount` (`Joined`), the account gets the
quotient, and the review is refused after that (`NotANumber` is the case in which the
account is refused already). `Progress` is the life of the order, reduced to the stages that
reviews tell apart: not yet delivered, open to reviews (`Delivered`, `Refunded`), and past
that, by a dispute, by completion or by a handler that writes an older status over it, from
where it may come back.

Abstractions: one product and its seller; `rating` is kept as `rating * reviewCount`, so
that the code's division is exact (floating-point error is left out), and counts half
points, to which `Joined` rounds down; the SendBird user that `getOrCreateChat` creates on
the way, whose failure is ignored, is left out. `findFirst` has no order, so `FindChat`
may find any of several chats.

### 3.8 Registration

| variable | code |
|---|---|
| `account`, `token` | rows of `Account`, and those with a `sendBirdAccessToken` |
| `user` | rows of `User`, with the account |
| `linked`, `owner` | external: whose ids Auth0 has in `app_metadata`, and who has the permission `owner` |
| `org`, `row` | `Organization.organizationVerificationStatus` and `OrganizationVerification.status` |
| `business`, `sent` | external: what Middesk thinks of a business, and the events it has sent |
| `mixed` | no code: for whom two events overlapped, or one failed between its writes |
| `job` | handlers between awaits |

`SignUp` is `POST users`, as often as Auth0 posts it. A founder goes through
`CreateAccount` → `SaveToken` → `CreateUser` → `LinkAtAuth0` → `OwnAtAuth0` →
`CreateOrg`, an invited person starts at `CreateUser` and gets no permission here.
`CreateAccount` and `CreateUser` are refused by unique keys, so a sign-up that failed
half-way cannot be repeated to its end; the model shows what it leaves behind.
`PostOrganization` creates the organization later. `CreateOrg` starts the listener of
`organization.created` as a handler of its own (`CreateBusiness` → `CreateRow`), unless
the address is abroad (`CreateOrgAbroad`). `EventArrives` is Middesk's webhook, which
answers at once and starts `UpdateRow` → `UpdateOrg`; the events in `sent` stay there,
so they come late, again and out of order.

A founder stands for the account it founds: `POST users` carries both ids, made by
Auth0's action for this sign-up. A sign-up whose body has no account id fails at
`user.create` and leaves an account that nobody uses; it is left out, and so is the
referral.

## 4. What is checked

Sizes are distinct states. CHECK_DEADLOCK is off in the Inventory runs only: there the
system does stop, once the only product is deleted or the bounded ids of orders
and offers are used up.

| run | bounds | what it shows |
|---|---|---|
| `OrdersRaces` | 1 order, 2 requests and the completing job overlapping, 2 escrows (1.2 M) | `MilestonesReached`, `EscrowKnown`, `PayoutsEarned`, `SettlementBacked`, `PaidByBuyer` survive every interleaving |
| `OrdersSerial` | 2 orders of one product, 3 escrows, no overlap (86 k) | `StrandedOnlyByFailedPayout`, `PaidOnce`, `PayoutRecorded`, `StockConserved` |
| `OrdersRefine` | 2 orders, 1 crash or failed query, lost replies, admin deletions, no overlap (748 k) | `Orders` implements `Settlement` |
| `OrdersLive` | 1 order, 2 escrows, 1 request and both jobs overlapping, 1 crash or failed query, lost replies, orders marked as paid by hand (149 k) | `ShippedMovesOn`, `DeliveredSettles`, `PaymentNoticed`, and that the proofs' invariant `IInv` survives failures |
| `OrdersCron` | 1 order, 1 request, the delivering job | **violates** `CronSparesDisputed` (section 6) |
| `InventoryRaces` | 1 product, 1 offer, 2 orders, 2 requests overlapping, quantities 1–2, offers of 0–2, edits and deletions (6.0 M) | `ActiveOffersSell`, `RetiredForGood` survive every interleaving |
| `InventorySerial` | 1 product, 2 offers, 3 orders, one request at a time (634 k) | `OffersHonest`, `StockAccounted`, `NoDeleteWithOrders`, `NoOversell`, and `IInv` |
| `VerificationsRaces` | 1 user, 2 verifications, 2 handlers overlapping and failing (1.25 M) | `StatusEarned` and `IInv` (of which `PhoneProven` is a part) survive every interleaving |
| `VerificationsSerial` | the same with requests and events one at a time, and columns set by a PATCH (498 k) | `ProcessedOnce`, `GoodLinkReturned`, `VerdictFinal` |
| `MembersRaces` | 1 member, 2 handlers overlapping and failing, called by an owner or an admin, the permissions `owner` and `admin` (863 k) | `OnlyOwnersPromote` and `CacheHeals` survive every interleaving; `CacheTrue`, `AdminsSpared`, `BlockedBoth` hold for handlers nothing disturbs |
| `DealsRaces` | 1 buyer, 1 seller, 2 orders, 2 chats, 2 handlers overlapping and failing, 5 points as a number and 4½ as a text (3.1 M) | `IInv` survives every interleaving, and so does `RatingInRange` where nobody was rated by a text; `ReviewsCounted` and `OneChatPerBuyer` hold where nothing overlapped |
| `RegistrationRaces` | 1 founder, 1 invited person, 3 handlers overlapping and failing, 3 statuses at Middesk (982 k) | `WrittenInOrder`, `OrgStatusEarned` survive every interleaving; `OrgFollowsRow` where events did not overlap |

*Why two groups of properties.* The first group of each module (the *robust*
properties) holds for every interleaving; these are the guarantees the system has
as it runs. The second group (the *serial* ones) says that each handler, alone,
is right, also after lost answers and crashes where the run allows them; each of
them fails once `"overlap"` is added to the `Env` of its configuration (and a second request to
`Requests` in `OrdersSerial`). `Members`, `Deals` and `Registration` need no second run for
these: variables without code (`alone`, `settled`, `parted`, `crossed`, `skewed`,
`mixed`) remember what was disturbed, and the properties speak of the rest. So one
run has both, with disturbed and undisturbed handlers side by side, and a disturbance
on one row does not excuse another. Neither group of properties *catches* the races it
excludes: they say where the damage ends. That a serial property has an interleaving hazard
beside it in `PROJECT.json` means that the handlers are right but for the overlap; the
notes there say for each which part is checked. One such damage has no property at all: the
escrow that a lost answer of `createEscrow` leaves at ERBN, which no order knows.

*Why the bounds are enough.* A handler touches one order, one escrow and one product, so a
race needs two actors on one order; the third actor of `OrdersRaces` and the second escrow
are there because a stale acceptance can replace the escrow under a third handler. Two
orders of one product are what a lost update of the stock needs. `MaxMishaps = 1`: a crash
only empties memory, and a failed query ends one handler, so a second one reaches nothing
that a later failed call does not. In `Inventory` the stock of 2 with quantities 1 and 2
makes an order that fits, one that takes the last piece, and one that no longer fits. In
`Verifications` a handler touches one user and one verification; two are needed for an old
one that is still waited for beside a new one, the risk levels stand for the different
statuses they lead to, and no code reads more than one user's rows. In `Members` two
handlers are what one can overtake; each works on one member, and the proofs show that
members do not disturb each other (`OtherMembers`). In `Deals` the buyer's second order is
the one that takes the chat, and the seller, reviewed in both orders, the account whose
rating two reviews can spoil; 5 is a rating that the database takes, 4½ as a text one that
spoils the account's and, at its second time, makes no number. In `Registration` the third
handler is the listener that runs beside two sign-ups or events; the three statuses are
one of each kind of answer, a verdict included. What the bounds leave open is what the
proofs of section 5 are for.

*Bounds in the models.* `EscrowIds`, `OrderIds`, `Offers` bound how many rows can be
created, `VerIds` how many verifications the services can start, `Requests` and `Handlers`
how many requests are served at once (in `Registration` and `Verifications` the listeners
that an event starts, too), `MaxMishaps` the crashes and failed queries, `ChatIds` the
chats and `MaxCount` the reviews that are counted of an account. Symmetry is used in
`OrdersRaces` (requests, escrows), `InventoryRaces` (requests, orders, offers), the two
runs of `Verifications` (verifications, handlers), `DealsRaces` (handlers, chats, orders)
and `RegistrationRaces` (handlers), which check invariants and properties of steps only;
no action or property names one of these values.

*Fairness* of `Orders` (`FairSpec`, in `OrdersLive`):

* weak, for every actor's continuation and for a job's next update: Node runs
  every continuation and the loop goes through the whole batch;
* strong, for a scan that finds order `o` due: the job runs again and again,
  and the period of an order that keeps its status ends;
* strong, for an answer of ERBN to a job's release: outages end, and a job that
  keeps asking is answered;
* strong, for `escrow.paid` until it is acknowledged, and not longer: ERBN repeats a
  report that finds no server. The controller acknowledges it before the listener has done
  its work, so after a failure in between ERBN has no reason to repeat it, and nothing else
  in the code looks for payments. `PaymentNoticed` therefore names this case
  (`EventLost`) as the one way in which a payment goes unnoticed.

Nothing is assumed of users and admins. One order is in this run: that the failures of one
order do not hold up the others in its batch is not checked. An order that
`DeliveredSettles` may have come to `EscrowPaymentFailed`, and nobody was paid.
`PaymentNoticed` also lets the order off when it gets another escrow: two acceptances that
overlap leave the buyer paying into an escrow that the order no longer knows, and the
webhook never finds it.

*Fairness* of `Members` (`FairSpec`, in `MembersRaces`): weak, for the continuation of every
handler, as above (an await that throws instead ends the handler, which is progress,
too), and for the expiry of an entry of the cache, whose two minutes pass. Without the
latter a wrong entry would stay (`CacheHeals`); that entries are written again and
again by overlapping edits is allowed, and excluded only by the premise of the
property that edits come to an end. The other modules need no fairness: nothing in
their code promises that a step left undone is made up for.

## 5. What is proved

TLAPS checks these for every value of the constants: any number of orders,
products, escrows, requests, mishaps, members, chats, accounts, and every `Env`.
Assumptions are the `ASSUME`s of the modules: the shape of the constants, and for the
sum over the orders of a product that the table of orders is finite. A theorem about
a serial property has the run's condition as its hypothesis: `"overlap" \notin Env`,
and where a failure really breaks the property, that it is not in `Env`, either. Under
that hypothesis the system can still do all the rest, so the hypothesis does not
make the theorem empty; the serial runs are instances of it.

`OrdersProofs`

* `TypeCorrect` — the type invariant.
* `Inductive` — `IInv`, the invariant below.
* `NoStageSkipped` (`MilestonesReached`), `NoUnearnedPayout` (`PayoutsEarned`),
  `NoClaimWithoutPayout` (`SettlementBacked`), `NoForeignEscrow` (`EscrowKnown`),
  `NoUnpaidPaid` (`PaidByBuyer`).

The properties speak of rows, but a row is written by a handler that has
read it long ago. So `IInv` also says what each handler past its read may rely on
(`HandlerInv`) and what each snapshot of a job guarantees (`BatchInv`). The
argument why this survives every interleaving is *monotonicity*: a
check made on a stale read was about timestamps that are never taken back, an escrow
that keeps its order, and a payout that is never undone. What was true when
it was read can only have become more true. In the proof this is the predicate
`Grows`: every step only adds stamps, only moves escrows on, and keeps their owners;
`OthersKeep` and `BatchKeeps` derive from it that the actors which did not move
keep their part of the invariant, so each action is only looked at for the actor
that moves. Where the argument does not apply, the property really fails under
overlap and is in the serial group. `PaidByBuyer` needs one more fact beside `IInv`
(`NoticesBacked`): a handler that is about to write `Paid` was started by ERBN's
notice, and what ERBN says of a payment stays true (`PaymentsStay`).

`OrdersSerialProofs`, all of it for `"overlap" \notin Env`

* `InductiveSerial` — `SerialInv`, beside `IInv`.
* `NoOtherWayToStrand` (`StrandedOnlyByFailedPayout`), `NobodyPaysTwice` (`PaidOnce`): also with
  crashes, failed queries, lost answers, deleted products and orders marked as paid by hand.
* `PayoutsRecorded` (`PayoutRecorded`), when nothing fails (`Lossless`). A lost answer, a
  crash or a product that is gone before `restockOrder` reads it leaves a payout without
  its record; `Settlement` says what can be promised then.
* `PiecesReturn` (`StockConserved`), when there is no mishap. After one between `Restock` and
  `WriteOrder` the pieces are back and the order is open, so that they come back again.
* `SettlementImplemented` (`ImplementsSettlement`), unless an admin marks orders as paid:
  `Settlement` has no `Paid` without money.

`IInv` says what a stale read is worth; `SerialInv` says that no read is stale. One
request, or one job with its batch, is at work (`OneAtATime`), and so the order still has
a status from which the handler's update is legal (`JobFresh`, with the table `Before`),
the handler's escrow is the order's, the computed stock is the stock, and the
snapshots of a job are the rows (`BatchFresh`). What a handler must find when it *starts*
has to be said of the rows (`RowFresh`): an order is accepted once, and an escrow that was
closed stays so. `MoneyFollows` is then inductive: money is only in the escrow the order
shows; the first two theorems follow from it. The next two each add an
invariant for what a handler is doing: `PayoutInv` (a payout is recorded, or its handler
knows of it), and `StockInv`, which names the set of orders that have given their pieces
back, since an order with a failed payment may have or not and the status does not tell.

The refinement is shown step by step: each action of `Orders` moves the money of one
order as an action of `Settlement` does, sets its status as another does, or changes
neither; `PaidByBuyer` and `NoticesBacked` are needed for `Paid`, `SerialInv` for the
statuses that follow the money.

`SumsProofs`

* What `SumFunctionOnSet` is for the empty set and for a set with one more element, that it
  is a number, depends on the values in the set only, and grows with the set (`SumEmpty`,
  `SumAdd`, `SumType`, `SumAgrees`, `SumMonotone`).

The sum is a fold, and a fold is a `CHOOSE` of a function that satisfies its recursive
equation. That there is such a function, and one only, is shown by induction over the
subsets of a finite set. The library's induction theorems take a predicate as a
parameter, which the provers cannot instantiate; `SubsetDescent` and `SubsetInduction` say
the same of a *set* of subsets, from the well-foundedness of the strict subset order.

`InventoryProofs`

* `InventoryTypes`, `ActiveOffersKeepSelling`, `OffersRetireForGood` — for every
  `Env`, from `Base` = types and the fact that the fields of a job fit together.
* `SerialInductive`, `OffersStayHonest`, `OrdersKeepProducts`, `NeverOversold` — when
  `"overlap" \notin Env`. Here the invariant has to say that what a request has read *is
  still true* when it writes (`CurrentInv`): the computed stock is the stock minus the
  quantity, the offers chosen for lowering are all those that would promise too much.
  `OffersStayHonest` is about steps: no step makes an active offer promise more than its
  product has, but the creation of an offer without a quantity; an invariant behind it
  (`OffersNearlyHonest`) says that all such offers are of one piece. Only one request is
  busy (`Alone`), and what runs at once cannot start beside it, so nothing makes it false.

* `PiecesAccounted` (`StockAccounted`), under the same hypothesis. The property speaks of
  moments when no request is at work; its invariant `BalanceInv` has to speak of the
  others, too. An order whose pieces are in stock again but which is not yet marked
  (`GaveBack`) is not counted, and the order a request gives back is still the one it has read
  (`RestockFits`). With that, `stock + sum` is the same after every step, and each
  step changes the sum by one order at most (`SumAdd`, `SumAgrees`).

`VerificationsProofs`

* `VerificationTypes`, `VerificationsInductive`.
* `StatusesAreEarned` (`StatusEarned`), `PhonesAreProven` (`PhoneProven`), for every
  `Env`.

The invariant `IInv` says what each handler carries through its awaits
(`HandlerInv`), that a row agrees with what its provider knows (`RowInv`), and that
no two handlers are about to create the same row (`FreshInv`). The argument is
monotonicity again, here with an exception: rows that are `pending` come and go,
all others stay for ever, and so does what a provider has said. `Keeps` states
this for a step; `JobsKeep`, `RowsKeep` and `EarnedKeeps` derive the invariant
of everything the step does not move. A handler that only relies on
rows that stay cannot be overtaken; the one that relies on a pending row
(`EventArrives` has seen it) relies on the provider's memory instead, and finds
out when it updates a row that was deleted.

* `VerificationsSerial`, `OutcomeOnce` (`ProcessedOnce`), and for the steps `GoodLinksStay`
  (`GoodLinkReturned`) and `VerdictsAreFinal` (`VerdictFinal`), when `"overlap" \notin Env`.

Their invariant `SerialInv` says that what was read of the user still holds where the
handler waits (`StillTrue`): on Prove's way there is no document verification, on Sardine's
no verdict yet, no good link when one is asked for, nothing told when it is about to be
told. Handlers run one at a time here with one exception, which the code itself makes:
`prove/finish` goes on to set the flag of the phone while the listener it has started is at
work (`OneAtATime`); neither touches what the other has read. Of the rows it says that a
user has one pending verification at most, and none after the verdict (`RowsSerial`).

`MembersProofs`

* `MembersTypes`, `MembersInductive`.
* `CachesTell` (`CacheTrue`), `BlockedAlike` (`BlockedBoth`), and for the steps
  `OwnersPromote` (`OnlyOwnersPromote`) and `AdminsAreSpared` (`AdminsSpared`).
  `BlockedAlike` is about members that have not written their own flag since the last
  undisturbed handler that blocked them or let them in.

Here the check and the write are at a distance again, and what was read may be
false by the time of the write. What the invariant says is therefore about
handlers that are `alone` (nobody else has started on their member since they did, and
Auth0 has not failed them): what they know of the member is still so (`Knows`). It is
proved member by member (`Parts`): a handler that moves leaves every other member as it
is (`OtherMembers`), and on its own member it either was alone or disturbs whoever was.
`OnlyOwnersPromote` needs none of this: the permissions sent to Auth0 are among those
the check was made on (`Intended`), so even a stale check has seen them.

`DealsProofs`

* `DealsInductive`, `RatingsInRange` (`RatingInRange`), `OneChatEach`
  (`OneChatPerBuyer`), `RatingsAreReviews` (`ReviewsCounted`).

For ratings the argument is that a stale standing, too, was in range once and every
number keeps it there, count and sum being written together, for all accounts that are not
`garbled`: a text takes its account among these with the very write that spoils it, and
nothing carries a rating from one account to another. For chats it is that a
channel id is new, that an order keeps a chat of its buyer until another order takes
it, and that a buyer who is not `crossed` has one request under way, which creates a
chat only when there is none. That ratings are those of the reviews is shown account by
account: one that is not `skewed` has one review under way at most, which has read the
standing as it is, or has counted itself and is about to be inserted (`CountedInv`); the
insertion adds one review to the sum (`SumAdd`), and no other account notices.

`RegistrationProofs`

* `RegistrationInductive`, `RegistrationOrdered` (`WrittenInOrder`),
  `OrgStatusesEarned` (`OrgStatusEarned`), `OrgsFollowRows` (`OrgFollowsRow`).

Rows are never deleted, so what a handler has found or written is there for good
(`HandlerInv`); the unique key of organizations makes the listener the only one for
its business (`ListenerInv`); and as long as events on an organization do not overlap,
what a handler is about to write is what it has put on record (`EventInv`).

TLC has checked each inductive invariant on instances before its proof: those that are
properties of the runs (`IInv`), and the ones beside them on the constants of
`OrdersRefine` (`SerialInv`), `OrdersSerial` (`PayoutInv`, `StockInv`), `InventorySerial`
(`BalanceInv`), `VerificationsSerial` (`SerialInv`) and `DealsRaces` (`CountedInv`).

*Only model-checked*: liveness, that is `ShippedMovesOn`, `DeliveredSettles`,
`PaymentNoticed` and `CacheHeals`. Fairness and `ENABLED` are out of the prover's reach;
what the proofs contribute is that the invariants those arguments would start from
hold.

## 6. Where code and text disagree

* **The delivering job overwrites disputes** (`OrdersCron`). The job updates from
  the snapshots of its scan; a buyer who opens a dispute in between finds the
  order `Delivered` again, and the second job will pay the seller.
* **Two buyers get the same pieces** (`orders.service.ts:81`; `NoOversell` fails in
  `InventorySerial` once `"overlap"` is in its `Env`). The stock is compared several
  awaits before it is written as an absolute number.
* **A processed verification that was never applied**
  (`sardine-verification-processed.listener.ts:60`). The row is marked first and the
  user updated last; a failure in between cannot be repaired by a repeated event,
  which is dropped as already processed.
* **Money that nobody can move** (`orders.validator.ts:30`). `activeStatusList` counts
  `EscrowPaymentFailed` as active, but `validFrom` has no entry for it and `update` throws.
  When ERBN answers a release or a refund of a funded escrow without a hash, the order is
  left there with the money in the escrow. `StrandedOnlyByFailedPayout` shows that
  this is the only dead end when handlers run one at a time.
* **A payment that nobody notices** (`webhooks.controller.ts:21`). A listener that fails
  after the acknowledgement loses `escrow.paid` (`EventLost`), and the order stays accepted.
* **An offer of a piece that is not there** (`offers.service.ts:27`): one that is created
  without a quantity when the stock is empty (`OffersHonest` excludes it).
* **A rating out of range** (`review.service.ts:36`): `"5"` after a first review of 4 points
  makes 22.5 points, since the validated value is not the converted one; the review itself is
  refused after that (`RatingInRange` excludes accounts rated so).
* **Invitations cannot be sent.** `docs/organizations/invitations.md` has the body
  `{ "invites": [...] }`, and the handler reads that field, but `inviteListSchema`,
  against which the body is validated, is an array.

The same kind of gap between a check and a write is behind the other serial
properties, which have no run of their own under overlap: a product is deleted while
an order is being placed on it (`NoDeleteWithOrders`; the order can then be neither
closed nor refunded, because `restockOrder` does not find the product), one event of
Sardine is processed twice (`ProcessedOnce`), two good links are created at once
(`GoodLinkReturned`), and a late result of Prove makes a user `Lite` whom Sardine has
blocked or accepted (`VerdictFinal`). An overlap also breaks `OffersHonest`, since an offer is
written after its quantity was compared.

In the newer modules the variables without code mark such gaps: an admin who becomes one
after the check is not spared (`AdminsSpared`), the cache lies after an edit that Auth0
did not take (`CacheTrue`, until `CacheHeals`), a member is blocked at one of two places
(`BlockedBoth`), a review that is refused has counted (`ReviewsCounted`), two requests
make two chats (`OneChatPerBuyer`), and a late event of Middesk reverts a verdict (the
events carry nothing that would tell, so no property forbids it).

Other behaviour met while modelling, about which the repository says nothing: an expired
or closed offer with pieces left can still be ordered from; an offer without a date
expires in its first night; the product of an order may be deleted by an admin, after
which a refund pays the buyer and then fails before the order is written; a user who
changes the phone keeps `isPhoneVerified`; `complete-profile` writes its body as it is,
the flag `blocked` included; the phone check passes when neither the cache nor the request
has a password; owners edit members of any organization; a sign-up that failed half-way
can not be repeated; a review of 4.5 points passes the schema of the request and is
refused by the database; the check of an organization starts as `Pending` while the
organization, which `docs/organizations/README.md:6` calls its summary, stays
`Unverified`; `PATCH organizations/me` looks for an organization with the id of the user
and finds none; the second order of a buyer takes the chat of the first.

## 7. Not modelled, and why

Prices, currencies, chains, addresses, texts, search: data no property is about.
Notifications, e-mails and push messages: sent after the state has changed, and
their failures are not waited for. Guards on tokens, roles and ownership of rows:
stateless. Images, statistics, blog, contact form, subscriptions: a single write or
read. ERBN, Sardine, Prove, Middesk, Auth0, SendBird are external.

Invitations: the code cannot create one (section 6), so their confirmation and the
nightly job that expires them have nothing to work on; a model would have to invent the
rows. What a person who was invited brings to a sign-up is in `Registration`.

The search index: written after the row and read by the search alone; how old it may
be is stated nowhere.

Most of the lines under `src/` are data: `prisma/data/brands.ts` (30 000 lines),
`models.ts` and `categories.ts`, which `prisma/seed.ts` loads into an empty database.
They have no behaviour to model, and with them no model could cover a large share of
the lines. Of the files that keep state and act on it, what is left is modules, DTOs,
decorators and reading endpoints.

## 8. Running it

    tlc -workers 2 -config OrdersRaces.cfg MCOrders
    tlapm OrdersProofs.tla

The definitions whose comment begins with "Mutant of" are not part of the
specification: each is a plausible bug in the definition it is named after, and
`PROJECT.json` says which property of which run notices it.
