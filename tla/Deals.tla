------------------------------- MODULE Deals -------------------------------
(***************************************************************************)
(* What two parties have beside an order: the chat in which they talk      *)
(* about the product (src/src/chats/chats.service.ts), which the order     *)
(* takes hold of when it is placed, and the reviews they give each other   *)
(* when it is delivered or refunded (src/src/orders/review.service.ts).    *)
(* The product is one, with its seller; SendBird, which has a channel for  *)
(* every chat, is external.                                                *)
(*                                                                         *)
(* As in Orders, a handler is a record, job[h], and an action is the code  *)
(* from one await to the next.  A chat is looked for and created several   *)
(* awaits later; the rating of an account is read with the order, and      *)
(* written back before the review is inserted, as the sum that JavaScript  *)
(* makes of it and the new rating, which the validation leaves as it came: *)
(* a number, or the text of one.                                           *)
(***************************************************************************)
EXTENDS Integers, FiniteSets, Functions

CONSTANTS
  Buyers,      \* the accounts that buy the product
  Seller,      \* the account that sells it
  OrderIds,    \* the ids orders may get
  ChatIds,     \* the ids chats may get
  Numbers,     \* what a review may say, in half points, as a number
  Texts,       \* ... and as the text of one
  Handlers,    \* handlers in progress at the same time
  MaxCount,    \* bound: the reviews counted of an account
  Env,         \* what else may happen, a subset of EnvEvents
  Nothing      \* an id that is not there

EnvEvents ==
  {"overlap",   \* a request starts while a handler waits
   "fails"}     \* a call to SendBird or to the database throws

\* createReviewSchema: a number from 1 to 5, whole or not, or the text of one.
ASSUME DealsAssumption ==
  /\ Numbers \subseteq 2 .. 10
  /\ Texts \subseteq 2 .. 10
  /\ MaxCount \in [Buyers \cup {Seller} -> Nat]
  /\ Env \subseteq EnvEvents
  /\ Seller \notin Buyers
  /\ Nothing \notin Buyers \cup OrderIds \cup ChatIds

VARIABLES
  chat,      \* the rows of Chat: the buyer
  channel,   \* external: the channels of SendBird, with their buyer
  order,     \* the rows of Order: the stage, the buyer and the chat
  review,    \* the rows of OrderReview
  standing,  \* Account.reviewCount, and Account.rating times that
  crossed,   \* for the properties: the buyers whose chat requests overlapped
  skewed,    \* for the properties: the accounts one of whose reviews
             \* overlapped with another, or was given up half-way
  garbled,   \* for the properties: the accounts rated by a text
  job        \* what each handler is doing

talk == <<chat, channel, crossed>>
rated == <<review, standing, skewed, garbled>>
vars == <<talk, order, rated, job>>

-----------------------------------------------------------------------------
(***************************************************************************)
(* Data                                                                    *)
(***************************************************************************)

Accounts == Buyers \cup {Seller}

\* The stages of an order, as far as reviews tell them apart; Orders has its
\* statuses.  Delivered and Refunded are open to reviews; an order in another
\* status is past that when it has the date of one of them (deliveredAt,
\* refundedAt), which nothing takes back.
Stage == {"Begun", "Reviewable", "Past"}

Ratings == Numbers \cup Texts

NoOrder == [stage |-> "none", buyer |-> Nothing, chat |-> Nothing]

Order == [stage : Stage, buyer : Buyers, chat : ChatIds \cup {Nothing}]

Review == [order : OrderIds, by : Accounts, about : Accounts, rating : Ratings]

\* The rating is sum / count: (rating * count + r) / (count + 1) adds r to sum.
Standing == [count : Nat, sum : Nat]

Unrated == [count |-> 0, sum |-> 0]

\* OrderReview.rating is an integer.
Whole(rating) == rating % 2 = 0

\* rating * count + r for a text r puts its digits behind those of the sum: 4
\* and "5" make 45, in half points 10 * 8 + 10; but 4.5 and "5" make 4.55,
\* which half points round down.
Joined(sum, r) == IF Whole(sum) THEN 10 * sum + r ELSE sum

\* 4.5 and "4.5" make no number.
NotANumber(sum, r) == ~Whole(sum) /\ ~Whole(r)

\* Where a handler waits, for a chat or for a review.
ChatJob == [pc : {"find", "channel", "create", "place"}, buyer : Buyers,
            order : OrderIds \cup {Nothing}, chat : ChatIds \cup {Nothing}]

ReviewJob == [pc : {"read", "rate", "insert"}, order : OrderIds, by : Accounts,
              rating : Ratings, text : BOOLEAN, known : Standing]

Idle == [pc |-> "idle"]

Busy(h) == job[h] # Idle

Chatting == {h \in Handlers : job[h].pc \in {"find", "channel", "create", "place"}}

Rating == {h \in Handlers : job[h].pc \in {"read", "rate", "insert"}}

ChatsOf(b) == {i \in ChatIds : chat[i] = b}

\* The other party of the order.
Reviewee(o, by) == IF by = Seller THEN order[o].buyer ELSE Seller

About(a) == {h \in Rating : Reviewee(job[h].order, job[h].by) = a}

TypeOK ==
  /\ chat \in [ChatIds -> Buyers \cup {Nothing}]
  /\ channel \in [ChatIds -> Buyers \cup {Nothing}]
  /\ order \in [OrderIds -> Order \cup {NoOrder}]
  /\ review \in SUBSET Review
  /\ standing \in [Accounts -> Standing]
  /\ crossed \in SUBSET Buyers
  /\ skewed \in SUBSET Accounts
  /\ garbled \in SUBSET Accounts
  /\ job \in [Handlers -> ChatJob \cup ReviewJob \cup {Idle}]

Init ==
  /\ chat = [i \in ChatIds |-> Nothing]
  /\ channel = [i \in ChatIds |-> Nothing]
  /\ order = [o \in OrderIds |-> NoOrder]
  /\ review = {}
  /\ standing = [a \in Accounts |-> Unrated]
  /\ crossed = {}
  /\ skewed = {}
  /\ garbled = {}
  /\ job = [h \in Handlers |-> Idle]

-----------------------------------------------------------------------------
(***************************************************************************)
(* Chats, and the orders placed in them                                    *)
(***************************************************************************)

MayStart(h) == ~Busy(h) /\ ("overlap" \in Env \/ \A g \in Handlers : ~Busy(g))

Goes(h, j) == job' = [job EXCEPT ![h] = j]

\* POST chats, and POST orders with the id o: both call getOrCreateChat.
AskChat(h, b, o) ==
  /\ MayStart(h)
  /\ o # Nothing => /\ order[o] = NoOrder
                    /\ \A g \in Chatting : job[g].order # o
  /\ crossed' = IF \E g \in Chatting : job[g].buyer = b THEN crossed \cup {b} ELSE crossed
  /\ Goes(h, [pc |-> "find", buyer |-> b, order |-> o, chat |-> Nothing])
  /\ UNCHANGED <<chat, channel, order, rated>>

\* The chat is there, or made, and returned, or the order is placed in it.
WithChat(j, i) == IF j.order = Nothing THEN Idle ELSE [j EXCEPT !.pc = "place", !.chat = i]

\* Mutant of FindChat: a chat that is there is not looked for.
FindChat_Never(h) ==
  /\ job[h].pc = "find"
  /\ Goes(h, [job[h] EXCEPT !.pc = "channel"])
  /\ UNCHANGED <<talk, order, rated>>

\* findFirst, in no order: any chat of the buyer will do.
FindChat(h) ==
  /\ job[h].pc = "find"
  /\ LET j == job[h]
     IN \/ \E i \in ChatsOf(j.buyer) : Goes(h, WithChat(j, i))
        \/ ChatsOf(j.buyer) = {} /\ Goes(h, [j EXCEPT !.pc = "channel"])
  /\ UNCHANGED <<talk, order, rated>>

\* SendBird gets a channel with a new id ...
NewChannel(h, i) ==
  /\ job[h].pc = "channel"
  /\ channel[i] = Nothing
  /\ channel' = [channel EXCEPT ![i] = job[h].buyer]
  /\ Goes(h, [job[h] EXCEPT !.pc = "create", !.chat = i])
  /\ UNCHANGED <<chat, crossed, order, rated>>

\* ... and the row of the chat is created with that id.
CreateChat(h) ==
  /\ job[h].pc = "create"
  /\ LET j == job[h]
     IN /\ chat' = [chat EXCEPT ![j.chat] = j.buyer]
        /\ Goes(h, WithChat(j, j.chat))
  /\ UNCHANGED <<channel, crossed, order, rated>>

\* Mutant of PlaceOrder: the order that had the chat keeps it.
PlaceOrder_Shared(h) ==
  /\ job[h].pc = "place"
  /\ LET j == job[h]
     IN order' = [order EXCEPT ![j.order] = [stage |-> "Begun", buyer |-> j.buyer, chat |-> j.chat]]
  /\ Goes(h, Idle)
  /\ UNCHANGED <<talk, rated>>

\* The order takes hold of the chat.  A chat has one order at most, so an
\* earlier order of the buyer loses it.
PlaceOrder(h) ==
  /\ job[h].pc = "place"
  /\ LET j == job[h]
     IN order' = [o \in OrderIds |->
                    IF o = j.order THEN [stage |-> "Begun", buyer |-> j.buyer, chat |-> j.chat]
                    ELSE IF order[o].chat = j.chat THEN [order[o] EXCEPT !.chat = Nothing]
                    ELSE order[o]]
  /\ Goes(h, Idle)
  /\ UNCHANGED <<talk, rated>>

\* The status of the order changes (see Orders): it is delivered or refunded,
\* or leaves that status, disputed, completed, or written over by a handler that
\* has read an older one, and may come back to it.
Progress(o) ==
  /\ \E move \in {<<"Begun", "Reviewable">>, <<"Reviewable", "Past">>, <<"Past", "Reviewable">>} :
        /\ order[o].stage = move[1]
        /\ order' = [order EXCEPT ![o].stage = move[2]]
  /\ UNCHANGED <<talk, rated, job>>

-----------------------------------------------------------------------------
(***************************************************************************)
(* Reviews: POST orders/:orderId/reviews                                   *)
(***************************************************************************)

\* Only a party of the order gets anywhere.
AskReview(h, o, by, rating, text) ==
  /\ MayStart(h)
  /\ by \in {order[o].buyer, Seller} \ {Nothing}
  /\ order[o] # NoOrder
  /\ rating \in IF text THEN Texts ELSE Numbers
  /\ LET a == Reviewee(o, by)
     IN skewed' = IF About(a) # {} THEN skewed \cup {a} ELSE skewed
  /\ Goes(h, [pc |-> "read", order |-> o, by |-> by, rating |-> rating, text |-> text,
              known |-> Unrated])
  /\ UNCHANGED <<talk, order, review, standing, garbled>>

\* The order is read, with both accounts, ...
ReadOrder(h) ==
  /\ job[h].pc = "read"
  /\ LET j == job[h]
         a == Reviewee(j.order, j.by)
     IN IF order[j.order].stage = "Reviewable"
        THEN standing[a].count < MaxCount[a] /\ Goes(h, [j EXCEPT !.pc = "rate", !.known = standing[a]])
        ELSE Goes(h, Idle)
  /\ UNCHANGED <<talk, order, rated>>

\* Mutant of RateByNumber: the reviewer gets the rating.
RateByNumber_Reviewer(h) ==
  /\ job[h].pc = "rate"
  /\ LET j == job[h]
     IN /\ ~j.text
        /\ standing' = [standing EXCEPT ![j.by] = [count |-> j.known.count + 1,
                                                   sum |-> j.known.sum + j.rating]]
  /\ Goes(h, [job[h] EXCEPT !.pc = "insert", !.known = Unrated])
  /\ UNCHANGED <<talk, order, review, skewed, garbled>>

\* Mutant of RateByNumber: the new rating is added to the rating as it is by now.
RateByNumber_Half(h) ==
  /\ job[h].pc = "rate"
  /\ LET j == job[h]
         a == Reviewee(j.order, j.by)
     IN /\ ~j.text
        /\ standing' = [standing EXCEPT ![a] = [count |-> j.known.count + 1,
                                                sum |-> standing[a].sum + j.rating]]
  /\ Goes(h, [job[h] EXCEPT !.pc = "insert", !.known = Unrated])
  /\ UNCHANGED <<talk, order, review, skewed, garbled>>

\* ... the account reviewed gets its new rating and count, ...
RateByNumber(h) ==
  /\ job[h].pc = "rate"
  /\ LET j == job[h]
         a == Reviewee(j.order, j.by)
     IN /\ ~j.text
        /\ standing' = [standing EXCEPT ![a] = [count |-> j.known.count + 1,
                                                sum |-> j.known.sum + j.rating]]
  /\ Goes(h, [job[h] EXCEPT !.pc = "insert", !.known = Unrated])
  /\ UNCHANGED <<talk, order, review, skewed, garbled>>

\* ... whatever number it is, unless it is none and the database refuses it, ...
RateByText(h) ==
  /\ job[h].pc = "rate"
  /\ LET j == job[h]
         a == Reviewee(j.order, j.by)
     IN /\ j.text
        /\ IF NotANumber(j.known.sum, j.rating)
           THEN /\ Goes(h, Idle)
                /\ UNCHANGED <<standing, garbled>>
           ELSE /\ standing' = [standing EXCEPT ![a] = [count |-> j.known.count + 1,
                                                        sum |-> Joined(j.known.sum, j.rating)]]
                /\ garbled' = garbled \cup {a}
                /\ Goes(h, [j EXCEPT !.pc = "insert", !.known = Unrated])
  /\ UNCHANGED <<talk, order, review, skewed>>

\* One review of an order by each party, and of whole points, as a number.
Accepted(j) == ~j.text /\ Whole(j.rating) /\ \A r \in review : ~(r.order = j.order /\ r.by = j.by)

\* ... and the review is inserted, unless the database refuses it.
InsertReview(h) ==
  /\ job[h].pc = "insert"
  /\ LET j == job[h]
         a == Reviewee(j.order, j.by)
     IN IF Accepted(j)
        THEN /\ review' = review \cup {[order |-> j.order, by |-> j.by, about |-> a,
                                        rating |-> j.rating]}
             /\ UNCHANGED skewed
        ELSE /\ skewed' = skewed \cup {a}
             /\ UNCHANGED review
  /\ Goes(h, Idle)
  /\ UNCHANGED <<talk, order, standing, garbled>>

\* Any await may throw: the request ends there.
Throws(h) ==
  /\ "fails" \in Env
  /\ Busy(h)
  /\ skewed' = IF job[h].pc = "insert"
               THEN skewed \cup {Reviewee(job[h].order, job[h].by)} ELSE skewed
  /\ Goes(h, Idle)
  /\ UNCHANGED <<talk, order, review, standing, garbled>>

-----------------------------------------------------------------------------
(***************************************************************************)
(* The specification                                                       *)
(***************************************************************************)

Begin(h) ==
  \/ \E b \in Buyers, o \in OrderIds \cup {Nothing} : AskChat(h, b, o)
  \/ \E o \in OrderIds, by \in Accounts, rating \in Ratings, text \in BOOLEAN :
        AskReview(h, o, by, rating, text)

ForChat(h) ==
  \/ FindChat(h)
  \/ \E i \in ChatIds : NewChannel(h, i)
  \/ CreateChat(h)
  \/ PlaceOrder(h)

ForReview(h) == ReadOrder(h) \/ RateByNumber(h) \/ RateByText(h) \/ InsertReview(h)

Next ==
  \/ \E h \in Handlers : Begin(h) \/ ForChat(h) \/ ForReview(h) \/ Throws(h)
  \/ \E o \in OrderIds : Progress(o)

Spec == Init /\ [][Next]_vars
-----------------------------------------------------------------------------
(***************************************************************************)
(* Properties that hold whatever overlaps or fails                         *)
(***************************************************************************)

\* Between one and five points, and none without a review.
InRange(s) == 2 * s.count <= s.sum /\ s.sum <= 10 * s.count

\* A rating stays between one and five points, and an account without a
\* review has none, although it is written from a count and a rating that may
\* be out of date and for reviews that are refused afterwards.  What takes it
\* out of range is a rating that comes as text, and nothing else.
RatingInRange == \A a \in Accounts \ garbled : InRange(standing[a])

\* A review is one of an order that was delivered or refunded, by a party of
\* it about the other, and the only one by that party, whatever became of the
\* order since the handler read it.
ReviewsEarned ==
  /\ \A r \in review : /\ order[r.order].stage \in {"Reviewable", "Past"}
                       /\ {r.by, r.about} = {order[r.order].buyer, Seller}
  /\ \A r, s \in review : r.order = s.order /\ r.by = s.by => r = s

\* The chat of an order is one of its buyer, with a channel at SendBird, and no
\* other order has it.
ChatsHeld ==
  /\ \A i \in ChatIds : chat[i] # Nothing => channel[i] = chat[i]
  /\ \A o \in OrderIds : order[o].chat # Nothing => chat[order[o].chat] = order[o].buyer
  /\ \A o, q \in OrderIds : order[o].chat # Nothing /\ order[o].chat = order[q].chat => o = q

-----------------------------------------------------------------------------
(***************************************************************************)
(* Properties of requests that nothing disturbs                            *)
(***************************************************************************)

\* A buyer whose chat requests never overlapped has one chat, however many
\* requests failed half-way.
OneChatPerBuyer ==
  \A b \in Buyers \ crossed : \A i, k \in ChatsOf(b) : i = k

\* What the reviews of an account amount to.
ReviewsOf(a) == {r \in review : r.about = a}

Points == [r \in Review |-> r.rating]

Earned(a) == [count |-> Cardinality(ReviewsOf(a)),
              sum |-> SumFunctionOnSet(Points, ReviewsOf(a))]

\* Count and rating of an account are those of its reviews, unless two of them
\* overlapped or one was refused or failed after they were written (or a
\* handler stands there).
ReviewsCounted ==
  \A a \in Accounts \ skewed :
    (\A h \in About(a) : job[h].pc # "insert") => standing[a] = Earned(a)

-----------------------------------------------------------------------------
(***************************************************************************)
(* The inductive invariant behind them                                     *)
(***************************************************************************)

\* What a handler carries through its awaits.
ChatJobInv(j) ==
  /\ j.pc \in {"create", "place"} => j.chat \in ChatIds /\ channel[j.chat] = j.buyer
  /\ j.pc = "create" => chat[j.chat] = Nothing
  /\ j.pc = "place" => j.order \in OrderIds /\ chat[j.chat] = j.buyer
  /\ j.order # Nothing => order[j.order] = NoOrder

ReviewJobInv(j) ==
  /\ order[j.order] # NoOrder
  /\ j.by \in {order[j.order].buyer, Seller}
  /\ Reviewee(j.order, j.by) \notin garbled => InRange(j.known)
  /\ j.pc \in {"rate", "insert"} => order[j.order].stage \in {"Reviewable", "Past"}

JobInv ==
  /\ \A h \in Chatting : ChatJobInv(job[h])
  /\ \A h \in Rating : ReviewJobInv(job[h])

\* No two handlers are about to create the same chat, or to place the same
\* order; and a buyer that is not crossed has one chat request at a time.
ChatJobsInv ==
  \A g, h \in Chatting : g # h =>
    /\ job[g].pc = "create" /\ job[h].pc = "create" => job[g].chat # job[h].chat
    /\ job[g].order # Nothing => job[g].order # job[h].order
    /\ job[g].buyer = job[h].buyer => job[g].buyer \in crossed

\* Such a request creates a chat only for a buyer that has none.
FirstChatInv ==
  \A h \in Chatting : job[h].pc \in {"channel", "create"} /\ job[h].buyer \notin crossed
                        => ChatsOf(job[h].buyer) = {}

IInv ==
  /\ TypeOK /\ JobInv /\ ChatJobsInv /\ FirstChatInv
  /\ RatingInRange /\ ReviewsEarned /\ ChatsHeld /\ OneChatPerBuyer

\* Beside it, for ReviewsCounted: an account that is not skewed has one review
\* on its way, which has read what the account has, and which the account has
\* already counted when it is about to be inserted, or will be refused.
OnItsWay(a, j) ==
  /\ j.pc = "rate" => j.known = standing[a]
  /\ j.pc = "insert" /\ ~j.text => standing[a] = [count |-> Earned(a).count + 1,
                                                  sum |-> Earned(a).sum + j.rating]

CountedInv ==
  /\ IsFiniteSet(review)
  /\ \A a \in Accounts \ skewed :
       /\ \A g, h \in About(a) : g = h
       /\ \A h \in About(a) : OnItsWay(a, job[h])
  /\ ReviewsCounted
=============================================================================
