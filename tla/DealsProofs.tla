---------------------------- MODULE DealsProofs ----------------------------
(***************************************************************************)
(* The types of Deals and what holds of its chats, orders and reviews, for *)
(* any number of accounts, orders and handlers. The argument: chats are    *)
(* never taken back and a SendBird id is given out once, so a handler's    *)
(* chat is its buyer's when the order takes hold of it; an order that was  *)
(* open to reviews keeps the date of it, whatever its status becomes; and  *)
(* a standing that was in range is in range when a number is added to it,  *)
(* however old it is, while a text marks the account for good (garbled).   *)
(* Ratings are those of the reviews because an account that is not skewed  *)
(* has one review on its way, which adds itself to the standing it has     *)
(* read (CountedInv).                                                      *)
(***************************************************************************)
EXTENDS Deals, SumsProofs, TLAPS

ChatPc == {"find", "channel", "create", "place"}

ReviewPc == {"read", "rate", "insert"}

\* The two halves of the invariant.
ChatInv ==
  /\ \A h \in Chatting : ChatJobInv(job[h])
  /\ ChatJobsInv /\ FirstChatInv /\ ChatsHeld /\ OneChatPerBuyer

ReviewInv ==
  /\ \A h \in Rating : ReviewJobInv(job[h])
  /\ RatingInRange /\ ReviewsEarned

LEMMA Halves == IInv <=> TypeOK /\ ChatInv /\ ReviewInv
BY DEF IInv, JobInv, ChatInv, ReviewInv

LEMMA Moved ==
  ASSUME TypeOK, NEW h \in Handlers, NEW j, Goes(h, j)
  PROVE  \A g \in Handlers : job'[g] = IF g = h THEN j ELSE job[g]
BY DEF Goes, TypeOK

-----------------------------------------------------------------------------
(***************************************************************************)
(* Types                                                                   *)
(***************************************************************************)

LEMMA ChatJobType ==
  ASSUME TypeOK, NEW h \in Handlers, job[h].pc \in ChatPc
  PROVE  job[h] \in ChatJob /\ h \in Chatting
BY DEF TypeOK, ChatJob, ReviewJob, Idle, ChatPc, Chatting

LEMMA ReviewJobType ==
  ASSUME TypeOK, NEW h \in Handlers, job[h].pc \in ReviewPc
  PROVE  job[h] \in ReviewJob /\ h \in Rating
BY DEF TypeOK, ChatJob, ReviewJob, Idle, ReviewPc, Rating

LEMMA PcOfJob ==
  /\ \A j \in ChatJob : j.pc \in ChatPc
  /\ \A j \in ReviewJob : j.pc \in ReviewPc
  /\ Idle.pc \notin ChatPc \cup ReviewPc
BY DEF ChatJob, ReviewJob, Idle, ChatPc, ReviewPc

LEMMA TypeJobStep ==
  ASSUME TypeOK, NEW h \in Handlers, NEW j \in ChatJob \cup ReviewJob \cup {Idle}, Goes(h, j)
  PROVE  job' \in [Handlers -> ChatJob \cup ReviewJob \cup {Idle}]
BY DEF TypeOK, Goes

LEMMA RatingType == ASSUME NEW r \in Ratings PROVE r \in Nat /\ 2 <= r /\ r <= 10
<1>1. Ratings \subseteq 2 .. 10
  BY DealsAssumption, Zenon DEF Ratings
<1>. QED
  BY <1>1

\* The account that a handler reviews.
LEMMA RevieweeType ==
  ASSUME IInv, NEW h \in Handlers, job[h].pc \in ReviewPc
  PROVE  /\ job[h] \in ReviewJob /\ ReviewJobInv(job[h])
         /\ Reviewee(job[h].order, job[h].by) \in Accounts
         /\ order[job[h].order] \in Order
<1>1. job[h] \in ReviewJob /\ ReviewJobInv(job[h])
  BY ReviewJobType DEF IInv, JobInv
<1>2. order[job[h].order] \in Order
  BY <1>1 DEF IInv, TypeOK, ReviewJob, ReviewJobInv
<1>. QED
  BY <1>1, <1>2 DEF Reviewee, Accounts, Order

\* What a handler adds, or joins, is a number.
LEMMA NumbersOfJob ==
  ASSUME TypeOK, NEW h \in Handlers, job[h].pc = "rate"
  PROVE  /\ job[h].known.count \in Nat /\ job[h].known.sum \in Nat /\ job[h].rating \in Nat
         /\ Joined(job[h].known.sum, job[h].rating) \in Nat
<1>1. job[h].known \in Standing /\ job[h].rating \in Ratings
  BY ReviewJobType DEF ReviewPc, ReviewJob
<1>2. job[h].rating \in Nat
  BY <1>1, RatingType
<1>3. job[h].known.count \in Nat /\ job[h].known.sum \in Nat
  BY <1>1 DEF Standing
<1>4. PICK c \in Nat, r \in Nat : c = job[h].known.sum /\ r = job[h].rating
  BY <1>2, <1>3
<1>5. 10 * c + r \in Nat
  BY <1>4
<1>. QED
  BY <1>2, <1>3, <1>4, <1>5 DEF Joined

\* The account that h reviews is given the standing s.
Rated(h, s) ==
  /\ job[h].pc = "rate"
  /\ standing' = [standing EXCEPT ![Reviewee(job[h].order, job[h].by)] = s]
  /\ garbled' = IF job[h].text THEN garbled \cup {Reviewee(job[h].order, job[h].by)} ELSE garbled
  /\ Goes(h, [job[h] EXCEPT !.pc = "insert", !.known = Unrated])
  /\ UNCHANGED <<talk, order, review, skewed>>

\* The text makes no number.
UnratedByText(h) ==
  /\ job[h].pc = "rate"
  /\ Goes(h, Idle)
  /\ UNCHANGED <<talk, order, rated>>

\* What the two ways to rate come to.
LEMMA RateSteps ==
  ASSUME NEW h \in Handlers, RateByNumber(h) \/ RateByText(h)
  PROVE  \/ UnratedByText(h)
         \/ ~job[h].text /\ Rated(h, [count |-> job[h].known.count + 1,
                                      sum |-> job[h].known.sum + job[h].rating])
         \/ job[h].text /\ Rated(h, [count |-> job[h].known.count + 1,
                                     sum |-> Joined(job[h].known.sum, job[h].rating)])
<1>1. CASE RateByNumber(h)
  BY <1>1 DEF RateByNumber, Rated
<1>2. CASE RateByText(h) /\ NotANumber(job[h].known.sum, job[h].rating)
  BY <1>2 DEF RateByText, UnratedByText, rated
<1>3. CASE RateByText(h) /\ ~NotANumber(job[h].known.sum, job[h].rating)
  BY <1>3 DEF RateByText, Rated
<1>. QED
  BY <1>1, <1>2, <1>3

LEMMA TypeChat ==
  ASSUME IInv, NEW h \in Handlers,
         (\E b \in Buyers, o \in OrderIds \cup {Nothing} : AskChat(h, b, o)) \/ ForChat(h)
  PROVE  TypeOK'
<1>0. TypeOK
  BY DEF IInv
<1>1. ASSUME NEW b \in Buyers, NEW o \in OrderIds \cup {Nothing}, AskChat(h, b, o)
      PROVE  TypeOK'
  <2>1. [pc |-> "find", buyer |-> b, order |-> o, chat |-> Nothing] \in ChatJob
    BY DEF ChatJob
  <2>2. job' \in [Handlers -> ChatJob \cup ReviewJob \cup {Idle}]
    BY <1>0, <1>1, <2>1, TypeJobStep DEF AskChat
  <2>. QED
    BY <1>0, <1>1, <2>2 DEF TypeOK, AskChat, rated
<1>2. ASSUME FindChat(h)
      PROVE  TypeOK'
  <2>1. job[h] \in ChatJob
    BY <1>0, <1>2, ChatJobType DEF FindChat, ChatPc
  <2>2. /\ [job[h] EXCEPT !.pc = "channel"] \in ChatJob
        /\ \A i \in ChatIds : WithChat(job[h], i) \in ChatJob \cup {Idle}
    BY <2>1 DEF ChatJob, WithChat
  <2>3. job' \in [Handlers -> ChatJob \cup ReviewJob \cup {Idle}]
    BY <1>0, <1>2, <2>2, TypeJobStep DEF FindChat, ChatsOf
  <2>. QED
    BY <1>0, <1>2, <2>3 DEF TypeOK, FindChat, talk, rated
<1>3. ASSUME NEW i \in ChatIds, NewChannel(h, i)
      PROVE  TypeOK'
  <2>1. job[h] \in ChatJob /\ job[h].buyer \in Buyers
    BY <1>0, <1>3, ChatJobType DEF NewChannel, ChatPc, ChatJob
  <2>2. [job[h] EXCEPT !.pc = "create", !.chat = i] \in ChatJob
    BY <2>1 DEF ChatJob
  <2>3. job' \in [Handlers -> ChatJob \cup ReviewJob \cup {Idle}]
    BY <1>0, <1>3, <2>2, TypeJobStep DEF NewChannel
  <2>. QED
    BY <1>0, <1>3, <2>1, <2>3 DEF TypeOK, NewChannel, rated
<1>4. ASSUME CreateChat(h)
      PROVE  TypeOK'
  <2>1. job[h] \in ChatJob /\ job[h].buyer \in Buyers /\ job[h].chat \in ChatIds
    BY <1>0, <1>4, ChatJobType DEF CreateChat, ChatPc, ChatJob, IInv, JobInv, ChatJobInv
  <2>2. WithChat(job[h], job[h].chat) \in ChatJob \cup {Idle}
    BY <2>1 DEF ChatJob, WithChat
  <2>3. job' \in [Handlers -> ChatJob \cup ReviewJob \cup {Idle}]
    BY <1>0, <1>4, <2>2, TypeJobStep DEF CreateChat
  <2>. QED
    BY <1>0, <1>4, <2>1, <2>3 DEF TypeOK, CreateChat, rated
<1>5. ASSUME PlaceOrder(h)
      PROVE  TypeOK'
  <2>1. job[h] \in ChatJob /\ job[h].buyer \in Buyers /\ job[h].chat \in ChatIds
    BY <1>0, <1>5, ChatJobType DEF PlaceOrder, ChatPc, ChatJob, IInv, JobInv, ChatJobInv
  <2>2. job' \in [Handlers -> ChatJob \cup ReviewJob \cup {Idle}]
    BY <1>0, <1>5, TypeJobStep DEF PlaceOrder
  <2>3. [stage |-> "Begun", buyer |-> job[h].buyer, chat |-> job[h].chat] \in Order
    BY <2>1 DEF Order, Stage
  <2>4. ASSUME NEW o \in OrderIds, order[o].chat = job[h].chat
        PROVE  [order[o] EXCEPT !.chat = Nothing] \in Order
    <3>1. order[o] \in Order
      BY <1>0, <2>1, <2>4, DealsAssumption DEF TypeOK, NoOrder
    <3>. QED
      BY <3>1 DEF Order
  <2>5. order' \in [OrderIds -> Order \cup {NoOrder}]
    BY <1>0, <1>5, <2>3, <2>4 DEF PlaceOrder, TypeOK
  <2>. QED
    BY <1>0, <1>5, <2>2, <2>5 DEF TypeOK, PlaceOrder, talk, rated
<1>. QED
  BY <1>1, <1>2, <1>3, <1>4, <1>5 DEF ForChat

LEMMA TypeReview ==
  ASSUME IInv, NEW h \in Handlers,
         \/ \E o \in OrderIds, by \in Accounts, rating \in Ratings, text \in BOOLEAN :
               AskReview(h, o, by, rating, text)
         \/ ForReview(h)
  PROVE  TypeOK'
<1>0. TypeOK
  BY DEF IInv
<1>1. ASSUME NEW o \in OrderIds, NEW by \in Accounts, NEW rating \in Ratings, NEW text \in BOOLEAN,
             AskReview(h, o, by, rating, text)
      PROVE  TypeOK'
  <2>1. [pc |-> "read", order |-> o, by |-> by, rating |-> rating, text |-> text,
         known |-> Unrated] \in ReviewJob
    BY DEF ReviewJob, Unrated, Standing
  <2>2. job' \in [Handlers -> ChatJob \cup ReviewJob \cup {Idle}]
    BY <1>0, <1>1, <2>1, TypeJobStep DEF AskReview
  <2>3. Reviewee(o, by) \in Accounts
    BY <1>0, <1>1 DEF AskReview, TypeOK, Reviewee, Accounts, Order
  <2>. QED
    BY <1>0, <1>1, <2>2, <2>3 DEF TypeOK, AskReview, talk
<1>2. ASSUME ReadOrder(h)
      PROVE  TypeOK'
  <2>1. job[h] \in ReviewJob /\ standing[Reviewee(job[h].order, job[h].by)] \in Standing
    BY <1>0, <1>2, RevieweeType DEF ReadOrder, ReviewPc, TypeOK
  <2>2. [job[h] EXCEPT !.pc = "rate", !.known = standing[Reviewee(job[h].order, job[h].by)]] \in ReviewJob
    BY <2>1 DEF ReviewJob
  <2>3. job' \in [Handlers -> ChatJob \cup ReviewJob \cup {Idle}]
    BY <1>0, <1>2, <2>2, TypeJobStep DEF ReadOrder
  <2>. QED
    BY <1>0, <1>2, <2>3 DEF TypeOK, ReadOrder, talk, rated
<1>3. ASSUME NEW t \in Nat, Rated(h, [count |-> job[h].known.count + 1, sum |-> t])
      PROVE  TypeOK'
  <2>1. job[h] \in ReviewJob /\ Reviewee(job[h].order, job[h].by) \in Accounts
    BY <1>0, <1>3, RevieweeType DEF Rated, ReviewPc
  <2>2. [job[h] EXCEPT !.pc = "insert", !.known = Unrated] \in ReviewJob
    BY <2>1 DEF ReviewJob, Unrated, Standing
  <2>3. job' \in [Handlers -> ChatJob \cup ReviewJob \cup {Idle}]
    BY <1>0, <1>3, <2>2, TypeJobStep DEF Rated
  <2>4. [count |-> job[h].known.count + 1, sum |-> t] \in Standing
    BY <2>1, <1>3 DEF ReviewJob, Standing
  <2>5. standing' \in [Accounts -> Standing]
    BY <1>0, <1>3, <2>1, <2>4 DEF Rated, TypeOK
  <2>6. garbled' \in SUBSET Accounts
    BY <1>0, <1>3, <2>1 DEF Rated, TypeOK
  <2>. QED
    BY <1>0, <1>3, <2>3, <2>5, <2>6 DEF TypeOK, Rated, talk
<1>5. ASSUME RateByNumber(h) \/ RateByText(h) PROVE TypeOK'
  <2>1. CASE UnratedByText(h)
    <3>1. job' \in [Handlers -> ChatJob \cup ReviewJob \cup {Idle}]
      BY <1>0, <2>1, TypeJobStep DEF UnratedByText
    <3>. QED
      BY <1>0, <2>1, <3>1 DEF TypeOK, UnratedByText, talk, rated
  <2>2. CASE ~UnratedByText(h)
    <3>1. /\ job[h].known.count \in Nat /\ job[h].known.sum \in Nat /\ job[h].rating \in Nat
          /\ Joined(job[h].known.sum, job[h].rating) \in Nat
      BY <1>0, <1>5, NumbersOfJob DEF RateByNumber, RateByText
    <3>2. job[h].known.sum + job[h].rating \in Nat
      BY <3>1
    <3>. QED
      BY <1>3, <1>5, <2>2, <3>1, <3>2, RateSteps
  <2>. QED
    BY <2>1, <2>2
<1>4. ASSUME InsertReview(h)
      PROVE  TypeOK'
  <2>1. job[h] \in ReviewJob /\ Reviewee(job[h].order, job[h].by) \in Accounts
    BY <1>0, <1>4, RevieweeType DEF InsertReview, ReviewPc
  <2>2. job' \in [Handlers -> ChatJob \cup ReviewJob \cup {Idle}]
    BY <1>0, <1>4, TypeJobStep DEF InsertReview
  <2>3. review' \in SUBSET Review /\ skewed' \in SUBSET Accounts
    BY <1>0, <1>4, <2>1 DEF InsertReview, TypeOK, Review, ReviewJob
  <2>. QED
    BY <1>0, <1>4, <2>2, <2>3 DEF TypeOK, InsertReview, talk
<1>. QED
  BY <1>1, <1>2, <1>4, <1>5 DEF ForReview

LEMMA TypeNext == IInv /\ [Next]_vars => TypeOK'
<1>. SUFFICES ASSUME IInv, [Next]_vars PROVE TypeOK'
  OBVIOUS
<1>0. TypeOK
  BY DEF IInv
<1>1. ASSUME NEW h \in Handlers, Throws(h) PROVE TypeOK'
  <2>1. job' \in [Handlers -> ChatJob \cup ReviewJob \cup {Idle}]
    BY <1>0, <1>1, TypeJobStep DEF Throws
  <2>2. job[h].pc = "insert" => Reviewee(job[h].order, job[h].by) \in Accounts
    BY RevieweeType DEF ReviewPc
  <2>. QED
    BY <1>0, <1>1, <2>1, <2>2 DEF TypeOK, Throws, talk
<1>2. ASSUME NEW o \in OrderIds, Progress(o) PROVE TypeOK'
  <2>1. order[o] \in Order
    BY <1>0, <1>2 DEF Progress, TypeOK, NoOrder
  <2>2. order' \in [OrderIds -> Order \cup {NoOrder}]
    BY <1>0, <1>2, <2>1 DEF Progress, TypeOK, Order, Stage
  <2>. QED
    BY <1>0, <1>2, <2>2 DEF TypeOK, Progress, talk, rated
<1>3. ASSUME UNCHANGED vars PROVE TypeOK'
  BY <1>0, <1>3 DEF TypeOK, vars, talk, rated
<1>. QED
  BY <1>1, <1>2, <1>3, TypeChat, TypeReview DEF Next, Begin

-----------------------------------------------------------------------------
(***************************************************************************)
(* What one half does to the other: nothing                                *)
(***************************************************************************)

\* The chats are the same when no chat, no order's chat and no chat handler
\* changes, but for one that ends.
LEMMA ChatsStay ==
  ASSUME IInv, UNCHANGED talk,
         \A o \in OrderIds : /\ order'[o].chat = order[o].chat /\ order'[o].buyer = order[o].buyer
                             /\ order[o] = NoOrder => order'[o] = NoOrder,
         \A g \in Handlers : job'[g].pc \in ChatPc => job'[g] = job[g]
  PROVE  ChatInv'
<1>0. TypeOK /\ ChatInv
  BY Halves
<1>1. Chatting' \subseteq Chatting /\ \A g \in Chatting' : job'[g] = job[g]
  BY DEF Chatting, ChatPc
<1>2. ASSUME NEW g \in Chatting', NEW k, k = job'[g]
      PROVE  ChatJobInv(k)'
  <2>1. k \in ChatJob /\ ChatJobInv(k)
    BY <1>0, <1>1, <1>2, ChatJobType DEF ChatInv, Chatting, ChatPc
  <2>. QED
    BY <2>1 DEF ChatJobInv, talk, ChatJob
<1>3. \A g \in Chatting' : ChatJobInv(job[g])'
  BY <1>1, <1>2 DEF ChatJobInv
<1>4. ChatJobsInv' /\ FirstChatInv'
  BY <1>0, <1>1 DEF ChatInv, ChatJobsInv, FirstChatInv, ChatsOf, talk
<1>5. ChatsHeld' /\ OneChatPerBuyer'
  BY <1>0 DEF ChatInv, ChatsHeld, OneChatPerBuyer, ChatsOf, talk
<1>. QED
  BY <1>3, <1>4, <1>5 DEF ChatInv

\* What a review says of its order.
LEMMA ReviewsStay ==
  ASSUME IInv, UNCHANGED rated,
         \A o \in OrderIds : order[o] # NoOrder =>
            /\ order'[o] # NoOrder /\ order'[o].buyer = order[o].buyer
            /\ order[o].stage \in {"Reviewable", "Past"} => order'[o].stage \in {"Reviewable", "Past"},
         \A g \in Handlers : job'[g].pc \in ReviewPc => job'[g] = job[g]
  PROVE  ReviewInv'
<1>0. TypeOK /\ ReviewInv
  BY Halves
<1>1. Rating' \subseteq Rating /\ \A g \in Rating' : job'[g] = job[g]
  BY DEF Rating, ReviewPc
<1>2. ASSUME NEW g \in Rating', NEW k, k = job'[g]
      PROVE  ReviewJobInv(k)'
  <2>1. k \in ReviewJob /\ ReviewJobInv(k)
    BY <1>0, <1>1, <1>2, ReviewJobType DEF ReviewInv, Rating, ReviewPc
  <2>. QED
    BY <2>1 DEF ReviewJobInv, ReviewJob, InRange, Reviewee, rated
<1>3. \A g \in Rating' : ReviewJobInv(job[g])'
  BY <1>1, <1>2 DEF ReviewJobInv, InRange, Reviewee
<1>4. RatingInRange'
  BY <1>0 DEF ReviewInv, RatingInRange, InRange, rated
<1>5. ReviewsEarned'
  <2>1. ASSUME NEW r \in review
        PROVE  /\ order'[r.order].stage \in {"Reviewable", "Past"}
               /\ {r.by, r.about} = {order'[r.order].buyer, Seller}
    <3>1. /\ r.order \in OrderIds /\ order[r.order].stage \in {"Reviewable", "Past"}
          /\ {r.by, r.about} = {order[r.order].buyer, Seller}
      BY <1>0, <2>1 DEF ReviewInv, ReviewsEarned, TypeOK, Review
    <3>2. order[r.order] # NoOrder
      BY <3>1 DEF NoOrder
    <3>. QED
      BY <3>1, <3>2
  <2>. QED
    BY <1>0, <2>1 DEF ReviewInv, ReviewsEarned, rated
<1>. QED
  BY <1>3, <1>4, <1>5 DEF ReviewInv

-----------------------------------------------------------------------------
(***************************************************************************)
(* Chats                                                                   *)
(***************************************************************************)

\* What a chat handler relies on is not touched.
Steady(k) ==
  /\ k.pc \in {"create", "place"} => channel'[k.chat] = k.buyer
  /\ k.pc = "create" => chat'[k.chat] = Nothing
  /\ k.pc = "place" => chat'[k.chat] = k.buyer
  /\ k.order # Nothing => order'[k.order] = NoOrder

\* Two chat handlers are not in each other's way.
Apart(j, k) ==
  /\ j.pc = "create" /\ k.pc = "create" => j.chat # k.chat
  /\ j.order # Nothing => j.order # k.order
  /\ j.buyer = k.buyer => j.buyer \in crossed'

LEMMA ChatJobsKeep ==
  ASSUME TypeOK, ChatInv, NEW h \in Handlers, NEW j \in ChatJob \cup {Idle}, Goes(h, j),
         crossed \subseteq crossed',
         j \in ChatJob => ChatJobInv(j)',
         \A g \in Chatting \ {h} : Steady(job[g]),
         \A g \in Chatting \ {h} : j \in ChatJob => Apart(j, job[g])
  PROVE  (\A g \in Chatting : ChatJobInv(job[g]))' /\ ChatJobsInv'
<1>1. \A g \in Handlers : job'[g] = IF g = h THEN j ELSE job[g]
  BY Moved
<1>2. \A g \in Chatting' : IF g = h THEN j \in ChatJob ELSE g \in Chatting
  BY <1>1, PcOfJob DEF Chatting, ChatPc, Idle
<1>3. ASSUME NEW g \in Chatting', NEW k, k = job'[g]
      PROVE  ChatJobInv(k)'
  <2>1. CASE g = h
    BY <1>1, <1>2, <1>3, <2>1 DEF Chatting
  <2>2. CASE g # h
    <3>1. k = job[g] /\ g \in Chatting
      BY <1>1, <1>2, <1>3, <2>2 DEF Chatting
    <3>2. ChatJobInv(k) /\ Steady(k)
      BY <2>2, <3>1 DEF ChatInv, Steady
    <3>. QED
      BY <3>2 DEF ChatJobInv, Steady
  <2>. QED
    BY <2>1, <2>2
<1>4. (\A g \in Chatting : ChatJobInv(job[g]))'
  BY <1>3 DEF ChatJobInv
<1>5. ASSUME NEW f \in Chatting', NEW g \in Chatting', f # g
      PROVE  /\ job'[f].pc = "create" /\ job'[g].pc = "create" => job'[f].chat # job'[g].chat
             /\ job'[f].order # Nothing => job'[f].order # job'[g].order
             /\ job'[f].buyer = job'[g].buyer => job'[f].buyer \in crossed'
  <2>1. f \in Handlers /\ g \in Handlers
    BY <1>5 DEF Chatting
  <2>2. CASE f = h
    BY <1>1, <1>2, <1>5, <2>1, <2>2 DEF Apart
  <2>3. CASE g = h
    BY <1>1, <1>2, <1>5, <2>1, <2>3 DEF Apart
  <2>4. CASE f # h /\ g # h
    BY <1>1, <1>2, <1>5, <2>1, <2>4 DEF ChatInv, ChatJobsInv
  <2>. QED
    BY <2>2, <2>3, <2>4
<1>6. ChatJobsInv'
  BY <1>5 DEF ChatJobsInv
<1>. QED
  BY <1>4, <1>6

\* The chat handlers are not in the way of one that goes on with its own buyer
\* and order.
LEMMA StayApart ==
  ASSUME ChatInv, crossed \subseteq crossed', NEW h \in Chatting, NEW j,
         j.buyer = job[h].buyer, j.order = job[h].order, NEW g \in Chatting \ {h},
         j.pc = "create" /\ job[g].pc = "create" => j.chat # job[g].chat
  PROVE  Apart(j, job[g])
BY DEF ChatInv, ChatJobsInv, Apart

LEMMA SteadyIfSame ==
  ASSUME ChatInv, UNCHANGED <<chat, channel, order>>, NEW g \in Chatting
  PROVE  Steady(job[g])
BY DEF ChatInv, ChatJobInv, Steady

LEMMA InvAskChat ==
  ASSUME IInv, NEW h \in Handlers, NEW b \in Buyers, NEW o \in OrderIds \cup {Nothing}, AskChat(h, b, o)
  PROVE  ChatInv' /\ ReviewInv'
<1>0. TypeOK /\ ChatInv
  BY Halves
<1>1. PICK j : j = [pc |-> "find", buyer |-> b, order |-> o, chat |-> Nothing]
  OBVIOUS
<1>2. j \in ChatJob /\ j.pc = "find" /\ j.buyer = b /\ j.order = o
  BY <1>1 DEF ChatJob
<1>3. /\ Goes(h, j) /\ UNCHANGED <<chat, channel, order, rated>> /\ job[h] = Idle
      /\ o # Nothing => order[o] = NoOrder /\ \A g \in Chatting : job[g].order # o
      /\ crossed' = IF \E g \in Chatting : job[g].buyer = b THEN crossed \cup {b} ELSE crossed
  BY <1>1 DEF AskChat, MayStart, Busy
<1>4. ChatJobInv(j)'
  BY <1>2, <1>3 DEF ChatJobInv
<1>5. \A g \in Chatting : Steady(job[g])
  BY <1>0, <1>3, SteadyIfSame
<1>6. \A g \in Chatting : Apart(j, job[g])
  BY <1>2, <1>3 DEF Apart
<1>7. (\A g \in Chatting : ChatJobInv(job[g]))' /\ ChatJobsInv'
  BY <1>0, <1>2, <1>3, <1>4, <1>5, <1>6, ChatJobsKeep
<1>8. \A g \in Handlers : job'[g] = IF g = h THEN j ELSE job[g]
  BY <1>0, <1>3, Moved
<1>9. FirstChatInv'
  BY <1>0, <1>2, <1>3, <1>8 DEF ChatInv, FirstChatInv, ChatsOf, Chatting
<1>10. ChatsHeld' /\ OneChatPerBuyer'
  BY <1>0, <1>3 DEF ChatInv, ChatsHeld, OneChatPerBuyer, ChatsOf
<1>11. ReviewInv'
  BY <1>2, <1>3, <1>8, ReviewsStay DEF ReviewPc
<1>. QED
  BY <1>7, <1>9, <1>10, <1>11 DEF ChatInv

LEMMA InvFindChat ==
  ASSUME IInv, NEW h \in Handlers, FindChat(h)
  PROVE  ChatInv' /\ ReviewInv'
<1>0. TypeOK /\ ChatInv
  BY Halves
<1>1. job[h] \in ChatJob /\ h \in Chatting /\ job[h].pc = "find" /\ job[h].buyer \in Buyers
  BY <1>0, ChatJobType DEF FindChat, ChatPc, ChatJob
<1>2. /\ UNCHANGED <<talk, order, rated>>
      /\ \E j : /\ Goes(h, j)
                /\ \/ \E i \in ChatsOf(job[h].buyer) : j = WithChat(job[h], i)
                   \/ ChatsOf(job[h].buyer) = {} /\ j = [job[h] EXCEPT !.pc = "channel"]
  BY DEF FindChat
<1>3. PICK j : /\ Goes(h, j)
               /\ \/ \E i \in ChatsOf(job[h].buyer) : j = WithChat(job[h], i)
                  \/ ChatsOf(job[h].buyer) = {} /\ j = [job[h] EXCEPT !.pc = "channel"]
  BY <1>2
<1>4. /\ j \in ChatJob \cup {Idle}
      /\ j # Idle => j.buyer = job[h].buyer /\ j.order = job[h].order /\ j.pc \in {"channel", "place"}
      /\ j.pc = "channel" => ChatsOf(job[h].buyer) = {}
      /\ j.pc = "place" => j.order # Nothing /\ j.chat \in ChatsOf(job[h].buyer)
  <2>1. ASSUME NEW i \in ChatsOf(job[h].buyer), j = WithChat(job[h], i)
        PROVE  \/ j = Idle
               \/ /\ j \in ChatJob /\ j.buyer = job[h].buyer /\ j.order = job[h].order /\ j.pc = "place"
                  /\ j.order # Nothing /\ j.chat = i
    BY <1>1, <2>1 DEF WithChat, ChatJob, ChatsOf
  <2>2. ASSUME j = [job[h] EXCEPT !.pc = "channel"]
        PROVE  j \in ChatJob /\ j.buyer = job[h].buyer /\ j.order = job[h].order /\ j.pc = "channel"
    BY <1>1, <2>2 DEF ChatJob
  <2>. QED
    BY <1>3, <2>1, <2>2 DEF Idle
<1>5. ASSUME j \in ChatJob PROVE ChatJobInv(j)'
  <2>1. ChatJobInv(job[h])
    BY <1>0, <1>1 DEF ChatInv
  <2>2. j # Idle
    BY <1>5, PcOfJob
  <2>3. j.pc = "place" => j.chat \in ChatIds /\ chat[j.chat] = j.buyer /\ channel[j.chat] = j.buyer
    BY <1>0, <1>1, <1>4, <2>2, DealsAssumption DEF ChatInv, ChatsHeld, ChatsOf
  <2>4. j.order # Nothing => j.order \in OrderIds
    BY <1>5 DEF ChatJob
  <2>. QED
    BY <1>2, <1>4, <2>1, <2>2, <2>3, <2>4 DEF ChatJobInv, talk
<1>6. \A g \in Chatting : Steady(job[g])
  BY <1>0, <1>2, SteadyIfSame DEF talk
<1>7. \A g \in Chatting \ {h} : j \in ChatJob => Apart(j, job[g])
  <2>1. ASSUME j \in ChatJob PROVE j # Idle
    BY <2>1, PcOfJob
  <2>. QED
    BY <1>0, <1>1, <1>2, <1>4, <2>1, StayApart DEF talk
<1>8. (\A g \in Chatting : ChatJobInv(job[g]))' /\ ChatJobsInv'
  BY <1>0, <1>2, <1>3, <1>4, <1>5, <1>6, <1>7, ChatJobsKeep DEF talk
<1>9. \A g \in Handlers : job'[g] = IF g = h THEN j ELSE job[g]
  BY <1>0, <1>3, Moved
<1>10. FirstChatInv'
  BY <1>0, <1>2, <1>4, <1>9, PcOfJob DEF ChatInv, FirstChatInv, ChatsOf, Chatting, Idle, talk
<1>11. ChatsHeld' /\ OneChatPerBuyer'
  BY <1>0, <1>2 DEF ChatInv, ChatsHeld, OneChatPerBuyer, ChatsOf, talk
<1>12. ReviewInv'
  BY <1>2, <1>4, <1>9, ReviewsStay DEF ReviewPc, Idle
<1>. QED
  BY <1>8, <1>10, <1>11, <1>12 DEF ChatInv

LEMMA InvNewChannel ==
  ASSUME IInv, NEW h \in Handlers, NEW i \in ChatIds, NewChannel(h, i)
  PROVE  ChatInv' /\ ReviewInv'
<1>0. TypeOK /\ ChatInv
  BY Halves
<1>1. /\ job[h] \in ChatJob /\ h \in Chatting /\ job[h].pc = "channel" /\ job[h].buyer \in Buyers
      /\ ChatJobInv(job[h])
  BY <1>0, ChatJobType DEF NewChannel, ChatPc, ChatJob, ChatInv
<1>2. PICK j : j = [job[h] EXCEPT !.pc = "create", !.chat = i]
  OBVIOUS
<1>3. j \in ChatJob /\ j.pc = "create" /\ j.chat = i /\ j.buyer = job[h].buyer /\ j.order = job[h].order
  BY <1>1, <1>2 DEF ChatJob
<1>4. /\ Goes(h, j) /\ channel[i] = Nothing /\ channel' = [channel EXCEPT ![i] = job[h].buyer]
      /\ UNCHANGED <<chat, crossed, order, rated>>
  BY <1>2 DEF NewChannel
<1>5. channel'[i] = j.buyer /\ \A k \in ChatIds : k # i => channel'[k] = channel[k]
  BY <1>0, <1>3, <1>4 DEF TypeOK
<1>6. chat[i] = Nothing
  BY <1>0, <1>4 DEF ChatInv, ChatsHeld
<1>7. ChatJobInv(j)'
  BY <1>1, <1>3, <1>4, <1>5, <1>6 DEF ChatJobInv
<1>8. ASSUME NEW g \in Chatting, g # h
      PROVE  /\ Steady(job[g])
             /\ job[g].pc = "create" => job[g].chat # i
  <2>1. job[g] \in ChatJob /\ ChatJobInv(job[g]) /\ job[g].buyer # Nothing
    BY <1>0, ChatJobType, DealsAssumption DEF Chatting, ChatPc, ChatInv, ChatJob
  <2>2. job[g].pc \in {"create", "place"} => job[g].chat \in ChatIds /\ job[g].chat # i
    BY <1>4, <2>1 DEF ChatJobInv
  <2>. QED
    BY <1>4, <1>5, <2>1, <2>2 DEF ChatJobInv, Steady
<1>9. \A g \in Chatting \ {h} : Apart(j, job[g])
  BY <1>0, <1>1, <1>3, <1>4, <1>8, StayApart
<1>10. (\A g \in Chatting : ChatJobInv(job[g]))' /\ ChatJobsInv'
  BY <1>0, <1>3, <1>4, <1>7, <1>8, <1>9, ChatJobsKeep
<1>11. \A g \in Handlers : job'[g] = IF g = h THEN j ELSE job[g]
  BY <1>0, <1>4, Moved
<1>12. FirstChatInv'
  BY <1>0, <1>1, <1>3, <1>4, <1>11 DEF ChatInv, FirstChatInv, ChatsOf, Chatting
<1>13. ChatsHeld' /\ OneChatPerBuyer'
  BY <1>0, <1>4, <1>5, <1>6 DEF ChatInv, ChatsHeld, OneChatPerBuyer, ChatsOf
<1>14. ReviewInv'
  BY <1>3, <1>4, <1>11, ReviewsStay DEF ReviewPc
<1>. QED
  BY <1>10, <1>12, <1>13, <1>14 DEF ChatInv

LEMMA InvCreateChat ==
  ASSUME IInv, NEW h \in Handlers, CreateChat(h)
  PROVE  ChatInv' /\ ReviewInv'
<1>0. TypeOK /\ ChatInv
  BY Halves
<1>1. PICK b, i, j : b = job[h].buyer /\ i = job[h].chat /\ j = WithChat(job[h], i)
  OBVIOUS
<1>2. /\ job[h] \in ChatJob /\ h \in Chatting /\ job[h].pc = "create" /\ b \in Buyers /\ b # Nothing
      /\ ChatJobInv(job[h]) /\ i \in ChatIds /\ channel[i] = b /\ chat[i] = Nothing
  BY <1>0, <1>1, ChatJobType, DealsAssumption DEF CreateChat, ChatPc, ChatJob, ChatInv, ChatJobInv
<1>3. /\ Goes(h, j) /\ chat' = [chat EXCEPT ![i] = b]
      /\ UNCHANGED <<channel, crossed, order, rated>>
  BY <1>1 DEF CreateChat
<1>4. chat'[i] = b /\ \A k \in ChatIds : k # i => chat'[k] = chat[k]
  BY <1>0, <1>2, <1>3 DEF TypeOK
<1>5. \/ j = Idle
      \/ /\ j \in ChatJob /\ j.buyer = b /\ j.order = job[h].order /\ j.pc = "place"
         /\ j.order # Nothing /\ j.order \in OrderIds /\ j.chat = i
  BY <1>1, <1>2 DEF WithChat, ChatJob
<1>6. j \in ChatJob => j # Idle
  BY PcOfJob
<1>7. j \in ChatJob => ChatJobInv(j)'
  BY <1>2, <1>3, <1>4, <1>5, <1>6 DEF ChatJobInv
<1>8. ASSUME NEW g \in Chatting, g # h
      PROVE  Steady(job[g])
  <2>1. ChatJobInv(job[g])
    BY <1>0 DEF ChatInv
  <2>2. job[g].pc \in {"create", "place"} => job[g].chat \in ChatIds
    BY <2>1 DEF ChatJobInv
  <2>3. job[g].pc = "create" => job[g].chat # i
    BY <1>0, <1>1, <1>2, <1>8 DEF ChatInv, ChatJobsInv
  <2>4. job[g].pc = "place" => job[g].chat # i
    <3>1. job[g] \in ChatJob
      BY <1>0, ChatJobType DEF Chatting, ChatPc
    <3>. QED
      BY <1>2, <2>1, <3>1, DealsAssumption DEF ChatJobInv, ChatJob
  <2>. QED
    BY <1>3, <1>4, <2>1, <2>2, <2>3, <2>4 DEF ChatJobInv, Steady
<1>9. \A g \in Chatting \ {h} : j \in ChatJob => Apart(j, job[g])
  BY <1>0, <1>1, <1>2, <1>3, <1>5, <1>6, StayApart
<1>10. (\A g \in Chatting : ChatJobInv(job[g]))' /\ ChatJobsInv'
  BY <1>0, <1>3, <1>5, <1>7, <1>8, <1>9, ChatJobsKeep
<1>11. \A g \in Handlers : job'[g] = IF g = h THEN j ELSE job[g]
  BY <1>0, <1>3, Moved
<1>12. FirstChatInv'
  <2>1. ASSUME NEW g \in Chatting', job'[g].pc \in {"channel", "create"}, job'[g].buyer \notin crossed
        PROVE  {k \in ChatIds : chat'[k] = job'[g].buyer} = {}
    <3>1. g # h /\ job'[g] = job[g] /\ g \in Chatting
      BY <1>5, <1>11, <2>1 DEF Chatting, Idle
    <3>2. job[g].buyer # b
      BY <1>0, <1>1, <1>2, <2>1, <3>1 DEF ChatInv, ChatJobsInv
    <3>3. ChatsOf(job[g].buyer) = {}
      BY <1>0, <2>1, <3>1 DEF ChatInv, FirstChatInv
    <3>. QED
      BY <1>4, <3>1, <3>2, <3>3 DEF ChatsOf
  <2>. QED
    BY <1>3, <2>1 DEF FirstChatInv, ChatsOf
<1>13. ChatsHeld'
  <2>1. \A k \in ChatIds : chat'[k] # Nothing => channel[k] = chat'[k]
    BY <1>0, <1>2, <1>4 DEF ChatInv, ChatsHeld
  <2>2. ASSUME NEW o \in OrderIds, order[o].chat # Nothing PROVE chat'[order[o].chat] = order[o].buyer
    <3>1. chat[order[o].chat] = order[o].buyer
      BY <1>0, <2>2 DEF ChatInv, ChatsHeld
    <3>2. order[o].buyer \in Buyers /\ order[o].chat \in ChatIds
      BY <1>0, <2>2 DEF TypeOK, NoOrder, Order
    <3>3. order[o].chat # i
      BY <1>2, <3>1, <3>2, DealsAssumption
    <3>. QED
      BY <1>4, <3>1, <3>2, <3>3
  <2>. QED
    BY <1>0, <1>3, <2>1, <2>2 DEF ChatInv, ChatsHeld
<1>14. OneChatPerBuyer'
  <2>1. ASSUME NEW c \in Buyers \ crossed, NEW k \in ChatsOf(c)', NEW l \in ChatsOf(c)'
        PROVE  k = l
    <3>1. CASE c = b
      <4>1. ChatsOf(b) = {}
        BY <1>0, <1>1, <1>2, <2>1, <3>1 DEF ChatInv, FirstChatInv
      <4>. QED
        BY <1>4, <2>1, <3>1, <4>1 DEF ChatsOf
    <3>2. CASE c # b
      BY <1>0, <1>4, <2>1, <3>2 DEF ChatInv, OneChatPerBuyer, ChatsOf
    <3>. QED
      BY <3>1, <3>2
  <2>. QED
    BY <1>3, <2>1 DEF OneChatPerBuyer
<1>15. ReviewInv'
  BY <1>3, <1>5, <1>11, ReviewsStay DEF ReviewPc, Idle
<1>. QED
  BY <1>10, <1>12, <1>13, <1>14, <1>15 DEF ChatInv

LEMMA InvPlaceOrder ==
  ASSUME IInv, NEW h \in Handlers, PlaceOrder(h)
  PROVE  ChatInv' /\ ReviewInv'
<1>0. TypeOK /\ ChatInv
  BY Halves
<1>1. PICK b, i, p : b = job[h].buyer /\ i = job[h].chat /\ p = job[h].order
  OBVIOUS
<1>2. /\ job[h] \in ChatJob /\ h \in Chatting /\ job[h].pc = "place" /\ b \in Buyers
      /\ i \in ChatIds /\ i # Nothing /\ chat[i] = b
      /\ p \in OrderIds /\ p # Nothing /\ order[p] = NoOrder
  BY <1>0, <1>1, ChatJobType, DealsAssumption DEF PlaceOrder, ChatPc, ChatJob, ChatInv, ChatJobInv
<1>3. PICK n : n = [stage |-> "Begun", buyer |-> b, chat |-> i]
  OBVIOUS
<1>4. /\ Goes(h, Idle) /\ UNCHANGED <<talk, rated>>
      /\ \A o \in OrderIds : order'[o] = IF o = p THEN n
                                         ELSE IF order[o].chat = i THEN [order[o] EXCEPT !.chat = Nothing]
                                         ELSE order[o]
  BY <1>1, <1>3 DEF PlaceOrder
<1>5. /\ order'[p].buyer = b /\ order'[p].chat = i
      /\ \A o \in OrderIds : o # p =>
           /\ order'[o].buyer = order[o].buyer /\ order'[o].stage = order[o].stage
           /\ order'[o].chat = IF order[o].chat = i THEN Nothing ELSE order[o].chat
           /\ order[o] = NoOrder => order'[o] = NoOrder
           /\ order[o] # NoOrder => order'[o] # NoOrder
  <2>1. ASSUME NEW o \in OrderIds, o # p, order[o].chat = i
        PROVE  /\ order'[o].buyer = order[o].buyer /\ order'[o].stage = order[o].stage
               /\ order'[o].chat = Nothing /\ order[o] # NoOrder /\ order'[o] # NoOrder
    <3>1. order[o] \in Order
      BY <1>0, <1>2, <2>1 DEF TypeOK, NoOrder
    <3>2. order'[o] = [order[o] EXCEPT !.chat = Nothing]
      BY <1>4, <2>1
    <3>3. /\ order'[o].buyer = order[o].buyer /\ order'[o].stage = order[o].stage
          /\ order'[o].chat = Nothing
      BY <3>1, <3>2 DEF Order
    <3>. QED
      BY <3>1, <3>3 DEF Order, NoOrder, Stage
  <2>2. ASSUME NEW o \in OrderIds, o # p, order[o].chat # i
        PROVE  order'[o] = order[o]
    BY <1>4, <2>2
  <2>3. order'[p] = n
    BY <1>2, <1>4
  <2>4. ASSUME NEW o \in OrderIds, o # p
        PROVE  /\ order'[o].buyer = order[o].buyer /\ order'[o].stage = order[o].stage
               /\ order'[o].chat = IF order[o].chat = i THEN Nothing ELSE order[o].chat
               /\ order[o] = NoOrder => order'[o] = NoOrder
               /\ order[o] # NoOrder => order'[o] # NoOrder
    <3>1. CASE order[o].chat = i
      BY <2>1, <2>4, <3>1
    <3>2. CASE order[o].chat # i
      BY <2>2, <2>4, <3>2
    <3>. QED
      BY <3>1, <3>2
  <2>. QED
    BY <1>3, <2>3, <2>4
<1>6. ASSUME NEW g \in Chatting, g # h
      PROVE  Steady(job[g])
  <2>1. job[g] \in ChatJob /\ ChatJobInv(job[g])
    BY <1>0, ChatJobType DEF Chatting, ChatPc, ChatInv
  <2>2. job[g].order # p
    BY <1>0, <1>1, <1>2, <1>6 DEF ChatInv, ChatJobsInv
  <2>. QED
    BY <1>4, <1>5, <2>1, <2>2 DEF ChatJobInv, ChatJob, Steady, talk
<1>7. (\A g \in Chatting : ChatJobInv(job[g]))' /\ ChatJobsInv'
  BY <1>0, <1>4, <1>6, PcOfJob, ChatJobsKeep DEF talk
<1>8. \A g \in Handlers : job'[g] = IF g = h THEN Idle ELSE job[g]
  BY <1>0, <1>4, Moved
<1>9. FirstChatInv'
  BY <1>0, <1>4, <1>8 DEF ChatInv, FirstChatInv, ChatsOf, Chatting, Idle, talk
<1>10. ChatsHeld'
  BY <1>0, <1>2, <1>4, <1>5 DEF ChatInv, ChatsHeld, talk
<1>11. OneChatPerBuyer'
  BY <1>0, <1>4 DEF ChatInv, OneChatPerBuyer, ChatsOf, talk
<1>12. ReviewInv'
  BY <1>2, <1>4, <1>5, <1>8, ReviewsStay DEF ReviewPc, Idle
<1>. QED
  BY <1>7, <1>9, <1>10, <1>11, <1>12 DEF ChatInv

-----------------------------------------------------------------------------
(***************************************************************************)
(* Reviews                                                                 *)
(***************************************************************************)

LEMMA ReviewJobsKeep ==
  ASSUME TypeOK, ReviewInv, NEW h \in Handlers, NEW j \in ReviewJob \cup {Idle}, Goes(h, j),
         UNCHANGED order, garbled \subseteq garbled', j \in ReviewJob => ReviewJobInv(j)
  PROVE  (\A g \in Rating : ReviewJobInv(job[g]))'
<1>1. \A g \in Handlers : job'[g] = IF g = h THEN j ELSE job[g]
  BY Moved
<1>2. ASSUME NEW g \in Rating', NEW k, k = job'[g]
      PROVE  ReviewJobInv(k)'
  <2>1. ReviewJobInv(k)
    <3>1. CASE g = h
      BY <1>1, <1>2, <3>1, PcOfJob DEF Rating, ReviewPc, Idle
    <3>2. CASE g # h
      BY <1>1, <1>2, <3>2 DEF Rating, ReviewInv
    <3>. QED
      BY <3>1, <3>2
  <2>. QED
    BY <2>1 DEF ReviewJobInv, Reviewee
<1>. QED
  BY <1>2 DEF ReviewJobInv, Reviewee

\* A review handler leaves the chats alone.
LEMMA ChatsApart ==
  ASSUME IInv, NEW h \in Handlers, NEW j \in ReviewJob \cup {Idle}, Goes(h, j), UNCHANGED <<talk, order>>
  PROVE  ChatInv'
<1>1. \A g \in Handlers : job'[g].pc \in ChatPc => job'[g] = job[g]
  <2>1. \A g \in Handlers : job'[g] = IF g = h THEN j ELSE job[g]
    BY Moved DEF IInv
  <2>. QED
    BY <2>1, PcOfJob DEF ReviewPc, ChatPc
<1>. QED
  BY <1>1, ChatsStay

LEMMA InvAskReview ==
  ASSUME IInv, NEW h \in Handlers, NEW o \in OrderIds, NEW by \in Accounts, NEW rating \in Ratings,
         NEW text \in BOOLEAN, AskReview(h, o, by, rating, text)
  PROVE  ChatInv' /\ ReviewInv'
<1>0. TypeOK /\ ReviewInv
  BY Halves
<1>1. PICK j : j = [pc |-> "read", order |-> o, by |-> by, rating |-> rating, text |-> text,
                    known |-> Unrated]
  OBVIOUS
<1>2. /\ j \in ReviewJob /\ j.pc = "read" /\ j.order = o /\ j.by = by
      /\ j.known.count = 0 /\ j.known.sum = 0
  BY <1>1 DEF ReviewJob, Unrated, Standing
<1>3. /\ Goes(h, j) /\ UNCHANGED <<talk, order, review, standing, garbled>>
      /\ order[o] # NoOrder /\ by \in {order[o].buyer, Seller}
  BY <1>1 DEF AskReview
<1>4. ReviewJobInv(j)
  BY <1>2, <1>3 DEF ReviewJobInv, InRange
<1>5. (\A g \in Rating : ReviewJobInv(job[g]))'
  BY <1>0, <1>2, <1>3, <1>4, ReviewJobsKeep
<1>6. RatingInRange' /\ ReviewsEarned'
  BY <1>0, <1>3 DEF ReviewInv, RatingInRange, InRange, ReviewsEarned
<1>7. ChatInv'
  BY <1>2, <1>3, ChatsApart
<1>. QED
  BY <1>5, <1>6, <1>7 DEF ReviewInv

LEMMA InvReadOrder ==
  ASSUME IInv, NEW h \in Handlers, ReadOrder(h)
  PROVE  ChatInv' /\ ReviewInv'
<1>0. TypeOK /\ ReviewInv
  BY Halves
<1>1. PICK a : a = Reviewee(job[h].order, job[h].by)
  OBVIOUS
<1>2. /\ job[h] \in ReviewJob /\ ReviewJobInv(job[h]) /\ job[h].pc = "read"
      /\ a \in Accounts /\ standing[a] \in Standing
  BY <1>0, <1>1, RevieweeType DEF ReadOrder, ReviewPc, TypeOK
<1>3. UNCHANGED <<talk, order, rated>>
  BY DEF ReadOrder
<1>4. PICK j : /\ Goes(h, j)
               /\ \/ j = Idle
                  \/ /\ order[job[h].order].stage = "Reviewable"
                     /\ j = [job[h] EXCEPT !.pc = "rate", !.known = standing[a]]
  BY <1>1 DEF ReadOrder
<1>5. /\ j \in ReviewJob \cup {Idle}
      /\ j # Idle => /\ j.order = job[h].order /\ j.by = job[h].by /\ j.known = standing[a]
                     /\ order[j.order].stage = "Reviewable"
  BY <1>2, <1>4 DEF ReviewJob
<1>6. a \notin garbled => InRange(standing[a])
  BY <1>0, <1>2 DEF ReviewInv, RatingInRange
<1>7. j \in ReviewJob => ReviewJobInv(j)
  BY <1>1, <1>2, <1>5, <1>6, PcOfJob DEF ReviewJobInv
<1>8. (\A g \in Rating : ReviewJobInv(job[g]))'
  BY <1>0, <1>3, <1>4, <1>5, <1>7, ReviewJobsKeep DEF rated
<1>9. RatingInRange' /\ ReviewsEarned'
  BY <1>0, <1>3 DEF ReviewInv, RatingInRange, InRange, ReviewsEarned, rated
<1>10. ChatInv'
  BY <1>3, <1>4, <1>5, ChatsApart
<1>. QED
  BY <1>8, <1>9, <1>10 DEF ReviewInv

\* One more review, of one to five points, leaves a rating in range.
LEMMA OneMore ==
  ASSUME NEW s \in Standing, InRange(s), NEW r \in Ratings
  PROVE  InRange([count |-> s.count + 1, sum |-> s.sum + r])
<1>1. PICK c \in Nat, t \in Nat : c = s.count /\ t = s.sum
  BY DEF Standing
<1>2. 2 * c <= t /\ t <= 10 * c
  BY <1>1 DEF InRange
<1>3. r \in Nat /\ 2 <= r /\ r <= 10
  BY RatingType
<1>4. 2 * (c + 1) <= t + r /\ t + r <= 10 * (c + 1)
  BY <1>2, <1>3
<1>. QED
  BY <1>1, <1>4 DEF InRange

LEMMA InvRated ==
  ASSUME IInv, NEW h \in Handlers, NEW s, Rated(h, s),
         \/ job[h].text
         \/ s = [count |-> job[h].known.count + 1, sum |-> job[h].known.sum + job[h].rating]
  PROVE  ChatInv' /\ ReviewInv'
<1>0. TypeOK /\ ReviewInv
  BY Halves
<1>1. PICK a, j : /\ a = Reviewee(job[h].order, job[h].by)
                  /\ j = [job[h] EXCEPT !.pc = "insert", !.known = Unrated]
  OBVIOUS
<1>2. job[h] \in ReviewJob /\ ReviewJobInv(job[h]) /\ job[h].pc = "rate" /\ a \in Accounts
  BY <1>0, <1>1, RevieweeType DEF Rated, ReviewPc
<1>3. /\ j \in ReviewJob /\ j.order = job[h].order /\ j.by = job[h].by
      /\ j.known.count = 0 /\ j.known.sum = 0
  BY <1>1, <1>2 DEF ReviewJob, Unrated, Standing
<1>4. /\ Goes(h, j) /\ standing' = [standing EXCEPT ![a] = s] /\ UNCHANGED <<talk, order, review, skewed>>
      /\ garbled' = IF job[h].text THEN garbled \cup {a} ELSE garbled
  BY <1>1 DEF Rated
<1>5. a \notin garbled' => InRange(s)
  <2>. SUFFICES ASSUME a \notin garbled' PROVE InRange(s)
    OBVIOUS
  <2>1. ~job[h].text /\ InRange(job[h].known)
    BY <1>1, <1>2, <1>4 DEF ReviewJobInv
  <2>2. job[h].known \in Standing /\ job[h].rating \in Ratings
    BY <1>2 DEF ReviewJob
  <2>. QED
    BY <2>1, <2>2, OneMore
<1>6. standing'[a] = s /\ \A b \in Accounts : b # a => standing'[b] = standing[b]
  BY <1>0, <1>2, <1>4 DEF TypeOK
<1>7. ReviewJobInv(j)
  BY <1>2, <1>3 DEF ReviewJobInv, InRange
<1>8. (\A g \in Rating : ReviewJobInv(job[g]))'
  BY <1>0, <1>3, <1>4, <1>7, ReviewJobsKeep
<1>9. RatingInRange'
  <2>1. ASSUME NEW b \in Accounts, b \notin garbled'
        PROVE  InRange(standing'[b])
    <3>1. CASE b = a
      BY <1>5, <1>6, <2>1, <3>1
    <3>2. CASE b # a
      <4>1. InRange(standing[b])
        BY <1>0, <1>4, <2>1 DEF ReviewInv, RatingInRange
      <4>. QED
        BY <1>6, <2>1, <3>2, <4>1
    <3>. QED
      BY <3>1, <3>2
  <2>. QED
    BY <2>1 DEF RatingInRange, InRange
<1>10. ReviewsEarned'
  BY <1>0, <1>4 DEF ReviewInv, ReviewsEarned
<1>11. ChatInv'
  BY <1>3, <1>4, ChatsApart
<1>. QED
  BY <1>8, <1>9, <1>10, <1>11 DEF ReviewInv

LEMMA InvRate ==
  ASSUME IInv, NEW h \in Handlers, RateByNumber(h) \/ RateByText(h)
  PROVE  ChatInv' /\ ReviewInv'
<1>1. CASE UnratedByText(h)
  <2>0. TypeOK /\ ReviewInv
    BY Halves
  <2>1. Goes(h, Idle) /\ UNCHANGED <<talk, order, review, standing, garbled>>
    BY <1>1 DEF UnratedByText, rated
  <2>2. (\A g \in Rating : ReviewJobInv(job[g]))'
    BY <2>0, <2>1, PcOfJob, ReviewJobsKeep DEF ReviewPc
  <2>3. RatingInRange' /\ ReviewsEarned'
    BY <2>0, <2>1 DEF ReviewInv, RatingInRange, InRange, ReviewsEarned
  <2>4. ChatInv'
    BY <2>1, ChatsApart
  <2>. QED
    BY <2>2, <2>3, <2>4 DEF ReviewInv
<1>2. CASE ~UnratedByText(h)
  BY <1>2, RateSteps, InvRated
<1>. QED
  BY <1>1, <1>2

LEMMA InvInsertReview ==
  ASSUME IInv, NEW h \in Handlers, InsertReview(h)
  PROVE  ChatInv' /\ ReviewInv'
<1>0. TypeOK /\ ReviewInv
  BY Halves
<1>1. PICK a, j, n : /\ a = Reviewee(job[h].order, job[h].by) /\ j = job[h]
                     /\ n = [order |-> j.order, by |-> j.by, about |-> a, rating |-> j.rating]
  OBVIOUS
<1>2. j \in ReviewJob /\ ReviewJobInv(j) /\ j.pc = "insert"
  BY <1>0, <1>1, RevieweeType DEF InsertReview, ReviewPc
<1>3. /\ Goes(h, Idle) /\ UNCHANGED <<talk, order, standing, garbled>>
      /\ IF Accepted(j) THEN review' = review \cup {n} ELSE review' = review
  BY <1>1 DEF InsertReview
<1>4. (\A g \in Rating : ReviewJobInv(job[g]))'
  BY <1>0, <1>3, PcOfJob, ReviewJobsKeep DEF ReviewPc
<1>5. RatingInRange'
  BY <1>0, <1>3 DEF ReviewInv, RatingInRange, InRange
<1>6. ReviewsEarned'
  <2>1. CASE ~Accepted(j)
    BY <1>0, <1>3, <2>1 DEF ReviewInv, ReviewsEarned
  <2>2. CASE Accepted(j)
    <3>1. review' = review \cup {n}
      BY <1>3, <2>2
    <3>2. order[n.order].stage \in {"Reviewable", "Past"} /\ {n.by, n.about} = {order[n.order].buyer, Seller}
      BY <1>1, <1>2 DEF ReviewJobInv, Reviewee
    <3>3. \A r \in review : ~(r.order = n.order /\ r.by = n.by)
      BY <1>1, <2>2 DEF Accepted
    <3>. QED
      BY <1>0, <1>3, <3>1, <3>2, <3>3 DEF ReviewInv, ReviewsEarned
  <2>. QED
    BY <2>1, <2>2
<1>7. ChatInv'
  BY <1>3, ChatsApart
<1>. QED
  BY <1>4, <1>5, <1>6, <1>7 DEF ReviewInv

-----------------------------------------------------------------------------
(***************************************************************************)
(* Theorems                                                                *)
(***************************************************************************)

LEMMA InvInit == Init => IInv
<1>. SUFFICES ASSUME Init PROVE IInv
  OBVIOUS
<1>1. TypeOK
  BY DEF Init, TypeOK, Unrated, Standing
<1>2. Chatting = {} /\ Rating = {}
  BY DEF Init, Chatting, Rating, Idle
<1>3. RatingInRange
  BY DEF Init, RatingInRange, InRange, Unrated
<1>4. ReviewsEarned /\ ChatsHeld
  BY DEF Init, ReviewsEarned, ChatsHeld, NoOrder
<1>5. OneChatPerBuyer
  BY DealsAssumption DEF Init, OneChatPerBuyer, ChatsOf
<1>. QED
  BY <1>1, <1>2, <1>3, <1>4, <1>5 DEF IInv, JobInv, ChatJobsInv, FirstChatInv

LEMMA InvNext == IInv /\ [Next]_vars => IInv'
<1>. SUFFICES ASSUME IInv, [Next]_vars PROVE IInv'
  OBVIOUS
<1>0. TypeOK /\ ChatInv /\ ReviewInv
  BY Halves
<1>1. ASSUME NEW h \in Handlers, Begin(h) PROVE ChatInv' /\ ReviewInv'
  BY <1>1, InvAskChat, InvAskReview DEF Begin
<1>2. ASSUME NEW h \in Handlers, ForChat(h) PROVE ChatInv' /\ ReviewInv'
  BY <1>2, InvFindChat, InvNewChannel, InvCreateChat, InvPlaceOrder DEF ForChat
<1>3. ASSUME NEW h \in Handlers, ForReview(h) PROVE ChatInv' /\ ReviewInv'
  BY <1>3, InvReadOrder, InvRate, InvInsertReview DEF ForReview
<1>4. ASSUME NEW h \in Handlers, Throws(h) PROVE ChatInv' /\ ReviewInv'
  <2>1. Goes(h, Idle) /\ UNCHANGED <<talk, order, review, standing, garbled>>
    BY <1>4 DEF Throws
  <2>2. ChatInv'
    BY <2>1, ChatsApart
  <2>3. (\A g \in Rating : ReviewJobInv(job[g]))'
    BY <1>0, <2>1, PcOfJob, ReviewJobsKeep DEF ReviewPc
  <2>4. RatingInRange' /\ ReviewsEarned'
    BY <1>0, <2>1 DEF ReviewInv, RatingInRange, InRange, ReviewsEarned
  <2>. QED
    BY <2>2, <2>3, <2>4 DEF ReviewInv
<1>5. ASSUME NEW o \in OrderIds, Progress(o) PROVE ChatInv' /\ ReviewInv'
  <2>1. PICK s \in Stage : /\ order' = [order EXCEPT ![o].stage = s]
                           /\ order[o].stage \in Stage
                           /\ s \in {"Reviewable", "Past"}
    <3>1. PICK move \in {<<"Begun", "Reviewable">>, <<"Reviewable", "Past">>, <<"Past", "Reviewable">>} :
                 order[o].stage = move[1] /\ order' = [order EXCEPT ![o].stage = move[2]]
      BY <1>5 DEF Progress
    <3>2. PICK s : s = move[2]
      OBVIOUS
    <3>3. s \in Stage /\ order[o].stage \in Stage /\ s \in {"Reviewable", "Past"}
      BY <3>1, <3>2 DEF Stage
    <3>. QED
      BY <3>1, <3>2, <3>3
  <2>2. order[o] \in Order
    BY <1>0, <2>1 DEF TypeOK, NoOrder, Stage
  <2>3. /\ order'[o].stage = s /\ order'[o].buyer = order[o].buyer /\ order'[o].chat = order[o].chat
        /\ \A q \in OrderIds : q # o => order'[q] = order[q]
    BY <1>0, <2>1, <2>2 DEF TypeOK, Order
  <2>4. order[o] # NoOrder /\ order'[o] # NoOrder
    BY <2>1, <2>3 DEF NoOrder, Stage
  <2>5. UNCHANGED <<talk, rated, job>>
    BY <1>5 DEF Progress
  <2>6. ChatInv'
    <3>1. \A q \in OrderIds : /\ order'[q].chat = order[q].chat /\ order'[q].buyer = order[q].buyer
                              /\ order[q] = NoOrder => order'[q] = NoOrder
      BY <2>3, <2>4
    <3>. QED
      BY <2>5, <3>1, ChatsStay
  <2>7. ReviewInv'
    <3>1. \A q \in OrderIds : order[q] # NoOrder =>
             /\ order'[q] # NoOrder /\ order'[q].buyer = order[q].buyer
             /\ order[q].stage \in {"Reviewable", "Past"} => order'[q].stage \in {"Reviewable", "Past"}
      BY <2>1, <2>3, <2>4
    <3>. QED
      BY <2>5, <3>1, ReviewsStay
  <2>. QED
    BY <2>6, <2>7
<1>6. ASSUME UNCHANGED vars PROVE ChatInv' /\ ReviewInv'
  <2>1. UNCHANGED <<talk, order, rated, job>>
    BY <1>6 DEF vars
  <2>. QED
    BY <2>1, ChatsStay, ReviewsStay
<1>7. ChatInv' /\ ReviewInv'
  BY <1>1, <1>2, <1>3, <1>4, <1>5, <1>6 DEF Next
<1>8. TypeOK'
  BY TypeNext
<1>. QED
  BY <1>7, <1>8 DEF IInv, JobInv, ChatInv, ReviewInv

\* Whatever overlaps or fails, every handler finds its chat and its order as it
\* left them, an order holds a chat of its buyer that no other order holds, and
\* a review is one of an order open to reviews by a party of it.
THEOREM DealsInductive == Spec => []IInv
BY InvInit, InvNext, PTL DEF Spec

\* The rating of an account that was never rated by a text stays between one and
\* five points, whichever reviews overlap or are refused after the rating was
\* changed.
THEOREM RatingsInRange == Spec => []RatingInRange
<1>1. IInv => RatingInRange
  BY DEF IInv
<1>. QED
  BY <1>1, DealsInductive, PTL

\* A buyer whose requests never overlap gets one chat about a product, wherever
\* the requests fail.
THEOREM OneChatEach == Spec => []OneChatPerBuyer
<1>1. IInv => OneChatPerBuyer
  BY DEF IInv
<1>. QED
  BY <1>1, DealsInductive, PTL

-----------------------------------------------------------------------------
(***************************************************************************)
(* What an account's reviews amount to                                     *)
(***************************************************************************)

\* What CountedInv says of one account.
Exact(a) ==
  /\ \A g, h \in About(a) : g = h
  /\ \A h \in About(a) : OnItsWay(a, job[h])
  /\ (\A h \in About(a) : job[h].pc # "insert") => standing[a] = Earned(a)

LEMMA CountedParts == CountedInv <=> IsFiniteSet(review) /\ \A a \in Accounts \ skewed : Exact(a)
BY DEF CountedInv, Exact, ReviewsCounted

LEMMA CountedAfter ==
  ASSUME IsFiniteSet(review'), \A a \in Accounts \ skewed' : Exact(a)'
  PROVE  CountedInv'
BY DEF CountedInv, Exact, ReviewsCounted

\* Nothing of the account changes, but for a handler that gives up before it
\* has written the rating.
LEMMA ExactStays ==
  ASSUME NEW a, Exact(a), ReviewsOf(a)' = ReviewsOf(a), standing'[a] = standing[a],
         About(a)' \subseteq About(a), \A g \in About(a)' : job'[g] = job[g],
         \A g \in About(a) : job[g].pc = "insert" => g \in About(a)'
  PROVE  Exact(a)'
<1>1. Earned(a)' = Earned(a)
  BY DEF Earned, Points
<1>2. \A g, h \in About(a)' : g = h
  BY DEF Exact
<1>3. \A h \in About(a)' : OnItsWay(a, job[h])'
  BY <1>1 DEF Exact, OnItsWay
<1>4. (\A h \in About(a)' : job'[h].pc # "insert") => standing'[a] = Earned(a)'
  BY <1>1 DEF Exact
<1>. QED
  BY <1>2, <1>3, <1>4 DEF Exact

LEMMA AboutMoved ==
  ASSUME TypeOK, NEW h \in Handlers, NEW j \in ReviewJob \cup {Idle}, Goes(h, j), UNCHANGED order
  PROVE  /\ job'[h] = j /\ \A g \in Handlers : g # h => job'[g] = job[g]
         /\ \A a : \A g : g # h => (g \in About(a)' <=> g \in About(a))
         /\ \A a : h \in About(a)' <=> j # Idle /\ Reviewee(j.order, j.by) = a
<1>1. job'[h] = j /\ \A g \in Handlers : g # h => job'[g] = job[g]
  BY Moved
<1>2. j.pc \in ReviewPc <=> j # Idle
  BY PcOfJob
<1>. QED
  BY <1>1, <1>2 DEF About, Rating, Reviewee, ReviewPc

\* The accounts that a review handler has nothing to do with.
LEMMA OthersExact ==
  ASSUME TypeOK, CountedInv, NEW h \in Handlers, NEW j \in ReviewJob \cup {Idle}, Goes(h, j),
         UNCHANGED order, NEW a \in Accounts \ skewed, h \notin About(a),
         j # Idle => Reviewee(j.order, j.by) # a,
         ReviewsOf(a)' = ReviewsOf(a), standing'[a] = standing[a]
  PROVE  Exact(a)'
<1>1. Exact(a)
  BY CountedParts
<1>2. About(a)' = About(a) /\ \A g \in About(a) : job'[g] = job[g]
  BY AboutMoved DEF About, Rating
<1>. QED
  BY <1>1, <1>2, ExactStays

\* What leaves the reviews and their handlers alone.
LEMMA CountStays ==
  ASSUME IInv, CountedInv, UNCHANGED rated,
         \A o \in OrderIds : order[o] # NoOrder => order'[o].buyer = order[o].buyer,
         \A g \in Handlers : job'[g].pc \in ReviewPc <=> job[g].pc \in ReviewPc,
         \A g \in Handlers : job[g].pc \in ReviewPc => job'[g] = job[g]
  PROVE  CountedInv'
<1>1. ASSUME NEW a PROVE About(a)' = About(a) /\ \A g \in About(a) : job'[g] = job[g]
  <2>1. ASSUME NEW g \in Handlers, job[g].pc \in ReviewPc
        PROVE  Reviewee(job[g].order, job[g].by)' = Reviewee(job[g].order, job[g].by)
    <3>1. /\ job[g] \in ReviewJob /\ ReviewJobInv(job[g]) /\ job'[g] = job[g]
      BY <2>1, RevieweeType
    <3>2. job[g].order \in OrderIds /\ order[job[g].order] # NoOrder
      BY <3>1 DEF ReviewJob, ReviewJobInv
    <3>. QED
      BY <3>1, <3>2 DEF Reviewee
  <2>. QED
    BY <2>1 DEF About, Rating, ReviewPc
<1>2. ASSUME NEW a \in Accounts \ skewed PROVE Exact(a)'
  <2>1. Exact(a) /\ ReviewsOf(a)' = ReviewsOf(a) /\ standing'[a] = standing[a]
    BY CountedParts DEF ReviewsOf, rated
  <2>. QED
    BY <1>1, <2>1, ExactStays
<1>3. IsFiniteSet(review') /\ skewed' = skewed
  BY CountedParts DEF rated
<1>. QED
  BY <1>2, <1>3, CountedAfter

LEMMA CountAskReview ==
  ASSUME IInv, CountedInv, NEW h \in Handlers, NEW o \in OrderIds, NEW by \in Accounts,
         NEW rating \in Ratings, NEW text \in BOOLEAN, AskReview(h, o, by, rating, text)
  PROVE  CountedInv'
<1>0. TypeOK
  BY DEF IInv
<1>1. PICK j, b : /\ j = [pc |-> "read", order |-> o, by |-> by, rating |-> rating, text |-> text,
                          known |-> Unrated]
                  /\ b = Reviewee(o, by)
  OBVIOUS
<1>2. /\ j \in ReviewJob /\ j.pc = "read" /\ j.order = o /\ j.by = by
  BY <1>1 DEF ReviewJob, Unrated, Standing
<1>3. /\ Goes(h, j) /\ UNCHANGED <<order, review, standing>> /\ job[h] = Idle
      /\ skewed' = IF About(b) # {} THEN skewed \cup {b} ELSE skewed
  BY <1>1 DEF AskReview, MayStart, Busy
<1>4. j # Idle /\ \A a : h \notin About(a)
  BY <1>2, <1>3, PcOfJob DEF About, Rating, ReviewPc
<1>5. \A a : ReviewsOf(a)' = ReviewsOf(a) /\ standing'[a] = standing[a]
  BY <1>3 DEF ReviewsOf
<1>6. ASSUME NEW a \in Accounts \ skewed' PROVE Exact(a)'
  <2>1. Exact(a) /\ a \in Accounts \ skewed
    BY <1>3, <1>6, CountedParts
  <2>2. CASE a # b
    BY <1>0, <1>1, <1>2, <1>3, <1>4, <1>5, <2>1, <2>2, OthersExact
  <2>3. CASE a = b
    <3>1. About(a) = {}
      BY <1>3, <1>6, <2>3
    <3>2. About(a)' = {h} /\ job'[h] = j
      BY <1>0, <1>1, <1>2, <1>3, <1>4, <2>3, <3>1, AboutMoved
    <3>3. standing[a] = Earned(a)
      BY <2>1, <3>1 DEF Exact
    <3>4. standing'[a] = Earned(a)'
      BY <1>5, <3>3 DEF Earned, Points
    <3>. QED
      BY <1>2, <3>2, <3>4 DEF Exact, OnItsWay
  <2>. QED
    BY <2>2, <2>3
<1>7. IsFiniteSet(review')
  BY <1>3, CountedParts
<1>. QED
  BY <1>6, <1>7, CountedAfter

LEMMA CountReadOrder ==
  ASSUME IInv, CountedInv, NEW h \in Handlers, ReadOrder(h)
  PROVE  CountedInv'
<1>0. TypeOK
  BY DEF IInv
<1>1. PICK b, i : i = job[h] /\ b = Reviewee(i.order, i.by)
  OBVIOUS
<1>2. i \in ReviewJob /\ i.pc = "read" /\ UNCHANGED <<order, rated>>
  BY <1>1, RevieweeType DEF ReadOrder, ReviewPc
<1>3. PICK j : /\ Goes(h, j)
               /\ \/ j = Idle
                  \/ j = [i EXCEPT !.pc = "rate", !.known = standing[b]]
  BY <1>1 DEF ReadOrder
<1>4. /\ j \in ReviewJob \cup {Idle}
      /\ j # Idle => j.order = i.order /\ j.by = i.by /\ j.known = standing[b] /\ j.pc = "rate"
  <2>1. b \in Accounts
    BY <1>1, <1>2, RevieweeType DEF ReviewPc
  <2>2. standing[b] \in Standing
    BY <1>0, <2>1 DEF TypeOK
  <2>. QED
    BY <1>2, <1>3, <2>2 DEF ReviewJob
<1>5. \A a : h \in About(a) <=> a = b
  BY <1>1, <1>2 DEF About, Rating
<1>6. \A a : ReviewsOf(a)' = ReviewsOf(a) /\ standing'[a] = standing[a]
  BY <1>2 DEF ReviewsOf, rated
<1>7. j # Idle => Reviewee(j.order, j.by) = b
  BY <1>1, <1>4
<1>8. ASSUME NEW a \in Accounts \ skewed' PROVE Exact(a)'
  <2>1. Exact(a) /\ a \in Accounts \ skewed
    BY <1>2, <1>8, CountedParts DEF rated
  <2>2. CASE a # b
    BY <1>0, <1>2, <1>3, <1>4, <1>5, <1>6, <1>7, <2>1, <2>2, OthersExact
  <2>3. CASE a = b /\ j = Idle
    <3>1. About(a)' = About(a) \ {h} /\ \A g \in About(a)' : job'[g] = job[g]
      BY <1>0, <1>2, <1>3, <2>3, AboutMoved DEF About, Rating
    <3>2. \A g \in About(a) : job[g].pc = "insert" => g \in About(a)'
      BY <1>1, <1>2, <3>1
    <3>. QED
      BY <1>6, <2>1, <3>1, <3>2, ExactStays
  <2>4. CASE a = b /\ j # Idle
    <3>1. About(a) = {h}
      BY <1>5, <2>1, <2>4 DEF Exact
    <3>2. About(a)' = {h} /\ job'[h] = j
      BY <1>0, <1>2, <1>3, <1>4, <1>7, <2>4, <3>1, AboutMoved
    <3>3. standing[a] = Earned(a)
      BY <1>1, <1>2, <2>1, <3>1 DEF Exact
    <3>4. standing'[a] = Earned(a)'
      BY <1>6, <3>3 DEF Earned, Points
    <3>5. j.pc = "rate" /\ j.known = standing'[a]
      BY <1>4, <1>6, <2>4
    <3>. QED
      BY <3>2, <3>4, <3>5 DEF Exact, OnItsWay
  <2>. QED
    BY <2>2, <2>3, <2>4
<1>9. IsFiniteSet(review')
  BY <1>2, CountedParts DEF rated
<1>. QED
  BY <1>8, <1>9, CountedAfter

\* A handler that ends has left the rating as it was, or its account is skewed.
LEMMA CountGivesUp ==
  ASSUME IInv, CountedInv, NEW h \in Handlers, Goes(h, Idle), UNCHANGED <<order, review, standing>>,
         skewed \subseteq skewed',
         job[h].pc = "insert" => Reviewee(job[h].order, job[h].by) \in skewed'
  PROVE  CountedInv'
<1>0. TypeOK
  BY DEF IInv
<1>1. \A a : About(a)' = About(a) \ {h} /\ \A g \in About(a)' : job'[g] = job[g]
  BY <1>0, AboutMoved DEF About, Rating
<1>2. ASSUME NEW a \in Accounts \ skewed' PROVE Exact(a)'
  <2>1. Exact(a) /\ ReviewsOf(a)' = ReviewsOf(a) /\ standing'[a] = standing[a]
    BY <1>2, CountedParts DEF ReviewsOf
  <2>2. \A g \in About(a) : job[g].pc = "insert" => g \in About(a)'
    BY <1>1, <1>2 DEF About
  <2>. QED
    BY <1>1, <2>1, <2>2, ExactStays
<1>3. IsFiniteSet(review')
  BY CountedParts
<1>. QED
  BY <1>2, <1>3, CountedAfter

LEMMA CountRated ==
  ASSUME IInv, CountedInv, NEW h \in Handlers, NEW s, Rated(h, s),
         \/ job[h].text
         \/ s = [count |-> job[h].known.count + 1, sum |-> job[h].known.sum + job[h].rating]
  PROVE  CountedInv'
<1>0. TypeOK
  BY DEF IInv
<1>1. PICK b, i, j : /\ i = job[h] /\ b = Reviewee(i.order, i.by)
                     /\ j = [i EXCEPT !.pc = "insert", !.known = Unrated]
  OBVIOUS
<1>2. i \in ReviewJob /\ i.pc = "rate" /\ b \in Accounts
  BY <1>1, RevieweeType DEF Rated, ReviewPc
<1>3. /\ Goes(h, j) /\ UNCHANGED <<order, review, skewed>>
      /\ standing' = [standing EXCEPT ![b] = s]
  BY <1>1 DEF Rated
<1>4. /\ j \in ReviewJob /\ j.order = i.order /\ j.by = i.by /\ j.pc = "insert"
      /\ j.rating = i.rating /\ j.text = i.text /\ j # Idle
  BY <1>1, <1>2, PcOfJob DEF ReviewJob, Unrated, Standing
<1>5. \A a : h \in About(a) <=> a = b
  BY <1>1, <1>2 DEF About, Rating
<1>6. /\ \A a : ReviewsOf(a)' = ReviewsOf(a)
      /\ \A a \in Accounts : standing'[a] = IF a = b THEN s ELSE standing[a]
  BY <1>0, <1>3 DEF ReviewsOf, TypeOK
<1>7. Reviewee(j.order, j.by) = b
  BY <1>1, <1>4
<1>8. ASSUME NEW a \in Accounts \ skewed' PROVE Exact(a)'
  <2>1. Exact(a) /\ a \in Accounts \ skewed
    BY <1>3, <1>8, CountedParts
  <2>2. CASE a # b
    <3>1. standing'[a] = standing[a]
      BY <1>6, <2>1, <2>2
    <3>. QED
      BY <1>0, <1>3, <1>4, <1>5, <1>6, <1>7, <2>1, <2>2, <3>1, OthersExact
  <2>3. CASE a = b
    <3>1. About(a) = {h}
      BY <1>5, <2>1, <2>3 DEF Exact
    <3>2. About(a)' = {h} /\ job'[h] = j
      BY <1>0, <1>3, <1>4, <1>7, <2>3, <3>1, AboutMoved
    <3>3. standing[a] = Earned(a) /\ i.known = standing[a]
      BY <1>1, <1>2, <2>1, <3>1 DEF Exact, OnItsWay
    <3>4. Earned(a)' = Earned(a)
      BY <1>6 DEF Earned, Points
    <3>5. ~j.text => standing'[a] = [count |-> Earned(a).count + 1, sum |-> Earned(a).sum + j.rating]
      BY <1>1, <1>4, <1>6, <2>3, <3>3
    <3>. QED
      BY <1>4, <3>2, <3>4, <3>5 DEF Exact, OnItsWay
  <2>. QED
    BY <2>2, <2>3
<1>9. IsFiniteSet(review')
  BY <1>3, CountedParts
<1>. QED
  BY <1>8, <1>9, CountedAfter

LEMMA CountRate ==
  ASSUME IInv, CountedInv, NEW h \in Handlers, RateByNumber(h) \/ RateByText(h)
  PROVE  CountedInv'
<1>1. CASE UnratedByText(h)
  BY <1>1, CountGivesUp DEF UnratedByText, rated
<1>2. CASE ~UnratedByText(h)
  BY <1>2, RateSteps, CountRated
<1>. QED
  BY <1>1, <1>2

LEMMA CountInsertReview ==
  ASSUME IInv, CountedInv, NEW h \in Handlers, InsertReview(h)
  PROVE  CountedInv'
<1>0. TypeOK
  BY DEF IInv
<1>1. PICK b, i, n : /\ i = job[h] /\ b = Reviewee(i.order, i.by)
                     /\ n = [order |-> i.order, by |-> i.by, about |-> b, rating |-> i.rating]
  OBVIOUS
<1>2. i \in ReviewJob /\ i.pc = "insert" /\ b \in Accounts
  BY <1>1, RevieweeType DEF InsertReview, ReviewPc
<1>3. /\ Goes(h, Idle) /\ UNCHANGED <<order, standing>> /\ (Accepted(i) => ~i.text)
      /\ IF Accepted(i) THEN review' = review \cup {n} /\ skewed' = skewed
                        ELSE review' = review /\ skewed' = skewed \cup {b}
  BY <1>1 DEF InsertReview, Accepted
<1>4. /\ n \in Review /\ n.about = b /\ Points[n] = i.rating /\ i.rating \in Int
      /\ \A r \in Review : Points[r] \in Int
  <2>1. n \in Review /\ n.about = b /\ n.rating = i.rating /\ i.rating \in Ratings
    BY <1>1, <1>2 DEF Review, ReviewJob
  <2>2. \A r \in Review : r.rating \in Ratings
    BY DEF Review
  <2>3. \A r \in Ratings : r \in Int
    BY RatingType
  <2>. QED
    BY <2>1, <2>2, <2>3 DEF Points
<1>5. \A a : h \in About(a) <=> a = b
  BY <1>1, <1>2 DEF About, Rating
<1>6. \A a : About(a)' = About(a) \ {h} /\ \A g \in About(a)' : job'[g] = job[g]
  BY <1>0, <1>3, AboutMoved DEF About, Rating
<1>7. IsFiniteSet(review) /\ IsFiniteSet(review')
  BY <1>3, CountedParts, FS_AddElement
<1>8. ASSUME NEW a \in Accounts \ skewed' PROVE Exact(a)'
  <2>1. Exact(a) /\ a \in Accounts \ skewed
    BY <1>3, <1>8, CountedParts
  <2>2. CASE a # b
    <3>1. ReviewsOf(a)' = ReviewsOf(a)
      BY <1>3, <1>4, <2>2 DEF ReviewsOf
    <3>. QED
      BY <1>0, <1>3, <1>5, <2>1, <2>2, <3>1, OthersExact
  <2>3. CASE a = b
    <3>1. Accepted(i) /\ review' = review \cup {n} /\ n \notin review
      BY <1>1, <1>3, <1>8, <2>3 DEF Accepted
    <3>2. About(a) = {h} /\ About(a)' = {}
      BY <1>5, <1>6, <2>1, <2>3 DEF Exact
    <3>3. standing[a] = [count |-> Earned(a).count + 1, sum |-> Earned(a).sum + i.rating]
      BY <1>1, <1>2, <1>3, <2>1, <3>1, <3>2 DEF Exact, OnItsWay
    <3>4. PICK R : R = ReviewsOf(a)
      OBVIOUS
    <3>5. IsFiniteSet(R) /\ R \subseteq Review /\ n \notin R /\ ReviewsOf(a)' = R \cup {n}
      <4>1. R \subseteq review
        BY <3>4 DEF ReviewsOf
      <4>2. IsFiniteSet(R)
        BY <1>7, <4>1, FS_Subset
      <4>. QED
        BY <1>0, <1>4, <2>3, <3>1, <3>4, <4>1, <4>2 DEF ReviewsOf, TypeOK
    <3>6. Cardinality(R \cup {n}) = Cardinality(R) + 1
      BY <3>5, FS_AddElement
    <3>7. SumFunctionOnSet(Points, R \cup {n}) = SumFunctionOnSet(Points, R) + i.rating
      BY <1>4, <3>5, SumAdd
    <3>8. /\ Earned(a).count = Cardinality(R) /\ Earned(a).sum = SumFunctionOnSet(Points, R)
          /\ Earned(a)' = [count |-> Cardinality(R \cup {n}),
                           sum |-> SumFunctionOnSet(Points, R \cup {n})]
      BY <3>4, <3>5 DEF Earned, Points
    <3>9. standing'[a] = Earned(a)'
      BY <1>3, <3>3, <3>6, <3>7, <3>8
    <3>. QED
      BY <3>2, <3>9 DEF Exact
  <2>. QED
    BY <2>2, <2>3
<1>. QED
  BY <1>7, <1>8, CountedAfter

LEMMA CountThrows ==
  ASSUME IInv, CountedInv, NEW h \in Handlers, Throws(h)
  PROVE  CountedInv'
BY CountGivesUp DEF Throws

LEMMA CountChat ==
  ASSUME IInv, CountedInv, NEW h \in Handlers,
         (\E b \in Buyers, o \in OrderIds \cup {Nothing} : AskChat(h, b, o)) \/ ForChat(h)
  PROVE  CountedInv'
<1>0. TypeOK
  BY DEF IInv
<1>1. job[h].pc \notin ReviewPc
  <2>1. ASSUME NEW b \in Buyers, NEW o \in OrderIds \cup {Nothing}, AskChat(h, b, o)
        PROVE  job[h].pc \notin ReviewPc
    BY <2>1, PcOfJob DEF AskChat, MayStart, Busy
  <2>2. ASSUME ForChat(h) PROVE job[h].pc \notin ReviewPc
    BY <2>2 DEF ForChat, FindChat, NewChannel, CreateChat, PlaceOrder, ReviewPc
  <2>. QED
    BY <2>1, <2>2
<1>2. PICK j : Goes(h, j) /\ j.pc \notin ReviewPc
  <2>1. ASSUME NEW b \in Buyers, NEW o \in OrderIds \cup {Nothing}, AskChat(h, b, o)
        PROVE  \E j : Goes(h, j) /\ j.pc \notin ReviewPc
    BY <2>1 DEF AskChat, ReviewPc
  <2>2. ASSUME ForChat(h) PROVE \E j : Goes(h, j) /\ j.pc \notin ReviewPc
    <3>1. job[h] \in ChatJob
      BY <1>0, <2>2, ChatJobType DEF ForChat, FindChat, NewChannel, CreateChat, PlaceOrder, ChatPc
    <3>2. /\ [job[h] EXCEPT !.pc = "channel"].pc = "channel"
          /\ \A i : /\ [job[h] EXCEPT !.pc = "create", !.chat = i].pc = "create"
                    /\ WithChat(job[h], i).pc \in {"idle", "place"}
      BY <3>1 DEF ChatJob, WithChat, Idle
    <3>3. Idle.pc = "idle"
      BY DEF Idle
    <3>4. CASE FindChat(h)
      BY <3>2, <3>4 DEF FindChat, ReviewPc
    <3>5. ASSUME NEW i \in ChatIds, NewChannel(h, i) PROVE \E j : Goes(h, j) /\ j.pc \notin ReviewPc
      BY <3>2, <3>5 DEF NewChannel, ReviewPc
    <3>6. CASE CreateChat(h)
      BY <3>2, <3>6 DEF CreateChat, ReviewPc
    <3>7. CASE PlaceOrder(h)
      BY <3>3, <3>7 DEF PlaceOrder, ReviewPc
    <3>. QED
      BY <2>2, <3>4, <3>5, <3>6, <3>7 DEF ForChat
  <2>. QED
    BY <2>1, <2>2
<1>3. \A g \in Handlers : job'[g] = IF g = h THEN j ELSE job[g]
  BY <1>0, <1>2, Moved
<1>4. UNCHANGED rated
  BY DEF AskChat, ForChat, FindChat, NewChannel, CreateChat, PlaceOrder
<1>5. \A o \in OrderIds : order[o] # NoOrder => order'[o].buyer = order[o].buyer
  <2>1. CASE PlaceOrder(h)
    <3>1. job[h].order # Nothing => order[job[h].order] = NoOrder
      BY <2>1 DEF PlaceOrder, IInv, JobInv, Chatting, ChatJobInv
    <3>2. job[h].order \in OrderIds => order[job[h].order] = NoOrder
      BY <3>1, DealsAssumption
    <3>3. ASSUME NEW o \in OrderIds, order[o] # NoOrder
          PROVE  order'[o].buyer = order[o].buyer
      <4>1. order[o] \in Order /\ o # job[h].order
        BY <1>0, <3>2, <3>3 DEF TypeOK
      <4>2. order'[o] \in {order[o], [order[o] EXCEPT !.chat = Nothing]}
        BY <2>1, <4>1 DEF PlaceOrder
      <4>. QED
        BY <4>1, <4>2 DEF Order
    <3>. QED
      BY <3>3
  <2>2. CASE UNCHANGED order
    BY <2>2
  <2>. QED
    BY <2>1, <2>2 DEF AskChat, ForChat, FindChat, NewChannel, CreateChat
<1>. QED
  BY <1>1, <1>2, <1>3, <1>4, <1>5, CountStays

LEMMA CountNext == IInv /\ CountedInv /\ [Next]_vars => CountedInv'
<1>. SUFFICES ASSUME IInv, CountedInv, [Next]_vars PROVE CountedInv'
  OBVIOUS
<1>0. TypeOK
  BY DEF IInv
<1>1. ASSUME NEW o \in OrderIds, Progress(o) PROVE CountedInv'
  <2>1. /\ \E s : order' = [order EXCEPT ![o].stage = s]
        /\ UNCHANGED <<rated, job>> /\ order[o].stage \in Stage
    <3>1. PICK move \in {<<"Begun", "Reviewable">>, <<"Reviewable", "Past">>, <<"Past", "Reviewable">>} :
                 order[o].stage = move[1] /\ order' = [order EXCEPT ![o].stage = move[2]]
      BY <1>1 DEF Progress
    <3>2. PICK s : s = move[2]
      OBVIOUS
    <3>3. order' = [order EXCEPT ![o].stage = s] /\ order[o].stage \in Stage
      BY <3>1, <3>2 DEF Stage
    <3>. QED
      BY <1>1, <3>3 DEF Progress
  <2>2. order[o] \in Order
    BY <1>0, <2>1 DEF TypeOK, NoOrder, Stage
  <2>3. \A q \in OrderIds : order'[q].buyer = order[q].buyer
    BY <1>0, <2>1, <2>2 DEF TypeOK, Order
  <2>. QED
    BY <2>1, <2>3, CountStays
<1>2. CASE UNCHANGED vars
  <2>1. UNCHANGED <<order, rated, job>>
    BY <1>2 DEF vars
  <2>. QED
    BY <2>1, CountStays
<1>. QED
  BY <1>1, <1>2, CountChat, CountAskReview, CountReadOrder, CountRate, CountInsertReview,
     CountThrows DEF Next, Begin, ForReview

LEMMA CountInit == Init => CountedInv
<1>. SUFFICES ASSUME Init PROVE CountedInv
  OBVIOUS
<1>1. Rating = {} /\ review = {}
  BY DEF Init, Rating, Idle
<1>2. ASSUME NEW a \in Accounts PROVE Exact(a)
  <2>1. About(a) = {} /\ ReviewsOf(a) = {}
    BY <1>1 DEF About, ReviewsOf
  <2>2. Earned(a) = Unrated
    BY <2>1, SumEmpty, FS_EmptySet DEF Earned, Unrated
  <2>3. standing[a] = Unrated
    BY <1>2 DEF Init
  <2>. QED
    BY <2>1, <2>2, <2>3 DEF Exact
<1>3. IsFiniteSet(review)
  BY <1>1, FS_EmptySet
<1>. QED
  BY <1>2, <1>3, CountedParts

\* Count and rating of an account are those of the reviews it has, unless two
\* reviews of it overlapped or one failed after the rating was written.
THEOREM RatingsAreReviews == Spec => []ReviewsCounted
<1>1. CountedInv => ReviewsCounted
  BY DEF CountedInv
<1>. QED
  BY <1>1, CountInit, CountNext, DealsInductive, PTL DEF Spec
=============================================================================
