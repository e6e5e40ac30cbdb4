----------------------------- MODULE AuctionPage -----------------------------
(***************************************************************************)
(* One bidder's auction page (frontend/src/pages/AuctionDetailPage.tsx)    *)
(* and what the server tells it: two GET requests that may be answered    *)
(* late or not at all, the answers to the page's own POSTs, and the        *)
(* bid:placed events of a socket (backend/src/controllers/bid.controller). *)
(*                                                                         *)
(* Bids are known by their place in the bids table.  What an answer says   *)
(* is fixed when the server reads it, so an answer under way is the number *)
(* of bids there were.  Which bids are legal is the subject of Auction;    *)
(* here they only have to rise.                                            *)
(***************************************************************************)
EXTENDS Integers, Sequences, SequencesExt, FiniteSets

CONSTANTS
    Me,                 \* the bidder whose page it is
    Others,             \* the other bidders
    NoBidder,           \* listings.winner_id IS NULL
    MaxPrice,           \* bound on the amounts
    MaxBids,            \* bound on the length of the bids table
    MaxDrops            \* bound on the losses of the connection

ASSUME AuctionPageAssumption ==
    /\ Me \notin Others /\ NoBidder \notin Others \cup {Me}
    /\ MaxPrice \in Nat /\ MaxBids \in Nat /\ MaxDrops \in Nat

VARIABLES
    bids,               \* the committed bids rows, oldest first
    outbox,             \* bids committed, not yet broadcast and answered
    get,                \* the GET requests of the page
    post,               \* the page's POST under way (submitting, autoBidSaving)
    channel,            \* bid:placed events on their way to the page
    room,               \* the server has the page's socket in the room
    socket,             \* the socket of the page
    drops,
    page,               \* listing, bidHistory, processedBids of the page
    early               \* history of the run: bids reached the page, or were
                        \* sent by it, before its bid history had come

vars == <<bids, outbox, get, post, channel, room, socket, drops, page, early>>
server == <<bids, outbox, room>>
client == <<page, early>>

Ids == 1..MaxBids
Elements(s) == {s[i] : i \in DOMAIN s}
PriceAfter(n) == IF n = 0 THEN 0 ELSE bids[n].amount
WinnerAfter(n) == IF n = 0 THEN NoBidder ELSE bids[n].bidder

\* The listing as the server reads it when there are n bids.
ListingAfter(n) == [price |-> PriceAfter(n), count |-> n,
                    winner |-> WinnerAfter(n)]

NoPost == [kind |-> "none", amount |-> 0, state |-> "none", ids |-> << >>,
           seen |-> 0]

Init ==
    /\ bids = << >> /\ outbox = {}
    /\ get = [k \in {"listing", "history"} |->
                 [state |-> IF k = "listing" THEN "asked" ELSE "none",
                  seen |-> 0]]
    /\ post = NoPost
    /\ channel = << >> /\ room = FALSE /\ socket = "off" /\ drops = 0
    /\ page = [loaded |-> FALSE, row |-> ListingAfter(0),
               history |-> << >>, processed |-> {}]
    /\ early = FALSE

-----------------------------------------------------------------------------
(***************************************************************************)
(* The server.                                                             *)
(***************************************************************************)
\* A request commits its own bid and, at times, the automatic answer of
\* another bidder, which may only match it (a same-price handover).
Batches(b, amount) ==
    {<<[bidder |-> b, amount |-> amount]>>} \cup
    {<<[bidder |-> b, amount |-> amount], [bidder |-> c, amount |-> a]>> :
        c \in (Others \cup {Me}) \ {b},
        a \in amount..MaxPrice}

\* Variant of NewIds that is one ahead.
NewIdsAhead(batch) == [i \in 1..Len(batch) |-> Len(bids) + i + 1]
NewIds(batch) == [i \in 1..Len(batch) |-> Len(bids) + i]

Commit(batch, mine) ==
    /\ Len(bids) + Len(batch) <= MaxBids
    /\ bids' = bids \o batch
    /\ outbox' = outbox \cup {[ids |-> NewIds(batch), mine |-> mine,
                               seen |-> Len(bids) + Len(batch)]}

OthersBid(b) ==
    /\ \E a \in (PriceAfter(Len(bids)) + 1)..MaxPrice :
          \E batch \in Batches(b, a) : Commit(batch, FALSE)
    /\ UNCHANGED <<get, post, channel, room, socket, drops, client>>

\* createBid and createAutoBid.  An auto-bid may be answered without a bid (its
\* bidder leads), or with one of Me's and a response.
ServePost ==
    /\ post.state = "sent"
    /\ \/ /\ \/ \E a \in (PriceAfter(Len(bids)) + 1)..MaxPrice :
                   /\ IF post.kind = "bid" THEN a = post.amount
                                           ELSE a <= post.amount
                   /\ \E batch \in Batches(Me, a) : Commit(batch, TRUE)
             \/ post.kind = "auto" /\ Commit(<< >>, TRUE)
          /\ post' = [post EXCEPT !.state = "committed"]
       \/ /\ post' = [post EXCEPT !.state = "refused"]
          /\ UNCHANGED <<bids, outbox>>
    /\ UNCHANGED <<get, channel, room, socket, drops, client>>

\* emitBidUpdates, then res.json: one turn of the server's event loop, at any
\* time after the commit.
Broadcast ==
    /\ \E o \in outbox :
          /\ outbox' = outbox \ {o}
          /\ channel' = IF room THEN channel \o o.ids ELSE channel
          /\ post' = IF o.mine
                     THEN [post EXCEPT !.state = "answered", !.ids = o.ids,
                                       !.seen = o.seen]
                     ELSE post
    /\ UNCHANGED <<bids, get, room, socket, drops, client>>

ServeGet(k) ==
    /\ get[k].state = "asked"
    /\ get' = [get EXCEPT ![k] = [state |-> "read", seen |-> Len(bids)]]
    /\ UNCHANGED <<server, post, channel, socket, drops, client>>

\* socket.on('listing:join')
Join ==
    /\ socket = "joining"
    /\ socket' = "open" /\ room' = TRUE
    /\ UNCHANGED <<bids, outbox, get, post, channel, drops, client>>

\* The connection is lost with the events on it.  The client connects again by
\* itself as a new socket; the page does not ask to join a second time.
Drop ==
    /\ socket # "off"
    /\ drops < MaxDrops
    /\ drops' = drops + 1
    /\ room' = FALSE /\ channel' = << >>
    /\ socket' = IF socket = "joining" THEN "joining" ELSE "open"
    /\ UNCHANGED <<bids, outbox, get, post, client>>

-----------------------------------------------------------------------------
(***************************************************************************)
(* The page.                                                               *)
(***************************************************************************)
\* Variants of ApplyBid: without processedBids, without any guard, and for the
\* summary only.
ApplyBidAgain(p, i) ==
    [p EXCEPT
        !.row = [price |-> bids[i].amount, count |-> p.row.count + 1,
                 winner |-> bids[i].bidder],
        !.history = IF i \in Elements(p.history) THEN @ ELSE <<i>> \o @,
        !.processed = @ \cup {i}]
ApplyBidUnguarded(p, i) ==
    [p EXCEPT
        !.row = [price |-> bids[i].amount, count |-> p.row.count + 1,
                 winner |-> bids[i].bidder],
        !.history = <<i>> \o @]
ApplyBidToRow(p, i) ==
    [p EXCEPT !.row = [price |-> bids[i].amount, count |-> p.row.count + 1,
                       winner |-> bids[i].bidder]]

\* applyAcceptedBid
ApplyBid(p, i) ==
    IF i \in p.processed THEN p
    ELSE [p EXCEPT
            !.row = [price |-> bids[i].amount, count |-> p.row.count + 1,
                     winner |-> bids[i].bidder],
            !.history = IF i \in Elements(p.history) THEN @ ELSE <<i>> \o @,
            !.processed = @ \cup {i}]

ApplyBids(p, ids) == FoldLeft(ApplyBid, p, ids)

Answer(k) == [get EXCEPT ![k].state = "done"]
HistoryCame == get["history"].state = "done"

\* The effects that depend on listing.id start with the listing.
ShowListing ==
    /\ get["listing"].state = "read"
    /\ get' = [k \in DOMAIN get |->
                  [get[k] EXCEPT !.state =
                      IF k = "listing" THEN "done" ELSE "asked"]]
    /\ page' = [page EXCEPT !.loaded = TRUE,
                            !.row = ListingAfter(get["listing"].seen)]
    /\ socket' = "joining"
    /\ UNCHANGED <<server, post, channel, drops, early>>

\* setBidHistory, and processedBids cleared and filled from the answer.
ShowHistory ==
    /\ get["history"].state = "read"
    /\ LET n == get["history"].seen
       IN  page' = [page EXCEPT !.history = Reverse([i \in 1..n |-> i]),
                                !.processed = 1..n]
    /\ get' = Answer("history")
    /\ UNCHANGED <<server, post, channel, socket, drops, early>>

\* A GET that fails: no page, or an empty history.
GetFails(k) ==
    /\ get[k].state = "read"
    /\ get' = [get EXCEPT ![k].state = "failed"]
    /\ page' = IF k = "history" THEN [page EXCEPT !.history = << >>] ELSE page
    /\ UNCHANGED <<server, post, channel, socket, drops, early>>

ReceiveBid ==
    /\ channel # << >>
    /\ page' = ApplyBid(page, Head(channel))
    /\ channel' = Tail(channel)
    /\ early' = (early \/ ~ HistoryCame)
    /\ UNCHANGED <<server, get, post, socket, drops>>

\* submitBid and submitAutoBid: their buttons are disabled while one is under
\* way, and they check the amount against the page's row.
Submit(kind, amount) ==
    /\ page.loaded
    /\ post = NoPost
    /\ CASE kind = "bid"  -> amount > page.row.price
         [] kind = "auto" -> amount >= page.row.price
                                + (IF page.row.winner = Me THEN 0 ELSE 1)
    /\ post' = [NoPost EXCEPT !.kind = kind, !.amount = amount,
                              !.state = "sent"]
    /\ early' = (early \/ ~ HistoryCame)
    /\ UNCHANGED <<server, get, channel, socket, drops, page>>

\* Variant of ShowAnswer that shows a bid before it was accepted.
ShowAnswerOptimistic ==
    /\ post.state \in {"answered", "refused"}
    /\ page' = [ApplyBids(page, post.ids) EXCEPT
                   !.row.price = post.amount, !.row.winner = Me]
    /\ post' = NoPost
    /\ UNCHANGED <<server, get, channel, socket, drops, early>>

\* Variant of ShowAnswer that leaves the history to the socket.
ShowAnswerRowOnly ==
    /\ post.state \in {"answered", "refused"}
    /\ page' = IF post.state = "refused" THEN page
               ELSE [page EXCEPT !.row.price = PriceAfter(post.seen),
                                 !.row.winner = WinnerAfter(post.seen)]
    /\ post' = NoPost
    /\ UNCHANGED <<server, get, channel, socket, drops, early>>

\* The bids of the answer are applied; then the row takes the currentBid and the
\* winnerId that the request had committed.
ShowAnswer ==
    /\ post.state \in {"answered", "refused"}
    /\ page' = IF post.state = "refused" THEN page
               ELSE [ApplyBids(page, post.ids) EXCEPT
                        !.row.price = PriceAfter(post.seen),
                        !.row.winner = WinnerAfter(post.seen)]
    /\ post' = NoPost
    /\ UNCHANGED <<server, get, channel, socket, drops, early>>

-----------------------------------------------------------------------------
Next ==
    \/ \E b \in Others : OthersBid(b)
    \/ ServePost \/ Broadcast \/ Join \/ Drop
    \/ \E k \in DOMAIN get : ServeGet(k) \/ GetFails(k)
    \/ ShowListing \/ ShowHistory
    \/ ReceiveBid \/ ShowAnswer
    \/ \E kind \in {"bid", "auto"}, a \in 1..MaxPrice :
          Submit(kind, a)

Spec == Init /\ [][Next]_vars

\* The server's loop and the page's run on; nobody is obliged to bid.
Fairness ==
    /\ WF_vars(ServePost) /\ SF_vars(Broadcast)
    /\ WF_vars(ReceiveBid) /\ WF_vars(ShowAnswer)

FairSpec == Spec /\ Fairness

-----------------------------------------------------------------------------
Bids == [bidder : Others \cup {Me}, amount : 1..MaxPrice]

\* What is known of a bid, to anybody, is known of a committed one.
TypeOK ==
    /\ bids \in Seq(Bids) /\ Len(bids) <= MaxBids
    /\ room \in BOOLEAN
    /\ \A o \in outbox : Elements(o.ids) \subseteq DOMAIN bids
    /\ \A k \in DOMAIN get :
          /\ get[k].state \in {"none", "asked", "read", "done", "failed"}
          /\ get[k].seen \in 0..Len(bids)
    /\ Elements(channel) \cup Elements(post.ids) \subseteq DOMAIN bids
    /\ socket \in {"off", "joining", "open"}
    /\ page.processed \cup Elements(page.history) \subseteq DOMAIN bids
    /\ page.row.winner \in Others \cup {Me, NoBidder}

(***************************************************************************)
(* The price and the leader the page shows are those some committed bid    *)
(* made, and never more than the price of the auction: not what the bidder *)
(* has asked for, and not a mixture of two bids.                           *)
(***************************************************************************)
ShowsACommittedBid ==
    \/ page.row.price = 0 /\ page.row.winner = NoBidder
    \/ \E i \in DOMAIN bids : /\ page.row.price = bids[i].amount
                              /\ page.row.winner = bids[i].bidder

(***************************************************************************)
(* A bid that comes in the answer to a POST, over the socket and in the    *)
(* history is listed once, in whatever order they come.                    *)
(***************************************************************************)
ListedOnce ==
    \A i, j \in DOMAIN page.history :
        page.history[i] = page.history[j] => i = j

(***************************************************************************)
(* "The processedBids set prevents double counting when the same event     *)
(* arrives through HTTP response and WebSocket": while the bid history has *)
(* come before the first of them, the page counts no bid twice.            *)
(***************************************************************************)
CountedOnce == HistoryCame /\ ~ early => page.row.count <= Len(bids)

(***************************************************************************)
(* Me's bid, once it is accepted, appears on the page, even when the       *)
(* connection of the socket has been lost; the history must have come      *)
(* before the bid was sent.                                                *)
(***************************************************************************)
OwnBidAppears ==
    \A i \in Ids :
        (/\ HistoryCame /\ ~ early
         /\ \E o \in outbox : o.mine /\ i \in Elements(o.ids))
            ~> i \in Elements(page.history)

(***************************************************************************)
(* A bid broadcast to the page appears on it unless the connection is lost.*)
(***************************************************************************)
BroadcastBidAppears ==
    \A i \in Ids :
        (HistoryCame /\ i \in Elements(channel))
            ~> (i \in Elements(page.history) \/ drops > 0)

(***************************************************************************)
(* "Keep bid-history and the listing summary in sync" (applyAcceptedBid):  *)
(* with nothing under way the summary counts the bids that are listed.  It *)
(* does not hold: see "Refuted" in the README.                             *)
(***************************************************************************)
SummaryInSync ==
    (/\ HistoryCame /\ room /\ drops = 0
     /\ outbox = {} /\ channel = << >> /\ post = NoPost)
        => page.row.count = Len(page.history)
=============================================================================
