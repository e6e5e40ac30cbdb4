# Bid For Good: a verification project

TLA+ models of *Bid For Good* (an Express/PostgreSQL backend in `backend/src`,
a React client in `frontend/src`), the TLC configurations that check them, and
TLAPS proofs about them.  All line numbers are of the repository's files;
`postgres.repository.ts` is `backend/src/repositories/postgres.repository.ts`,
the services are in `backend/src/services`, the pages in `frontend/src/pages`.

## 1. Inventory

Charities run campaigns, donors give items, bidders buy them in timed auctions
whose price is a donation.  Everything persistent is in PostgreSQL; the Node
process keeps only a rate limiter and timers in memory.  There are two ways in
which code runs concurrently: HTTP requests (each `await` of a query lets
another request run) and the deadline worker of `index.ts:25-41`.

| component | state | operations | correct means |
|---|---|---|---|
| bidding, `bid.service.ts` | `listings.current_bid/bid_count/winner_id`, `bids`, `auto_bids` | `placeBid`, `setAutoBid`, `cancelAutoBid`, `resolveAutoBids` | price ladder respected, private maximums never exceeded, stable winner after every request, listing row agrees with the bids |
| closing, `payment.service.ts:47-141` | `listings.status`, `payments` | worker, force-close, a bid on an ended auction | highest bid gets exactly one offer; ended auctions do close |
| payment, `payment.service.ts:143-302` | `payments`, `receipts`, `listings` | `completePayment`, `expireOverduePaymentAndListing`, `releaseEscrowForListing`, `regenerateReceipt` | money, status and receipt agree; paid and expired exclude each other; offers do not stay open |
| shipping and delivery, `listing.service.ts:359-419` | `deliveries`, `listings.status`, `payments.escrow_state` | `provideTracking`, `confirmDelivery` | nothing is shipped unpaid; delivered items have their escrow released |
| editing and cancelling, `listing.service.ts:218-289` | the whole `listings` row | `updateListingDetails`, `deleteListing` | does not disturb a running auction or an open offer |
| submission and two-stage review, `listing.service.ts:133-357`, `listingReview.service.ts` | `listings.status/review_stage/review_note` | create, approve, request changes, reject, charity decision, resubmit | only a listing approved twice becomes active; decisions are not lost |
| charities, campaigns, staff | `charities`, `campaigns`, staff users | application, decision, campaign create/edit/close, staff create/deactivate | listings only for approved charities; a closed campaign stays closed |
| registration, login, one-time codes | `users`, `pending_registrations`, `login_otps`, `password_reset_tokens`, login attempt records | register, login, verify, resend, reset, change | limited attempts, the account is what was verified, a temporary password is changed |
| sessions and CSRF | `sessions`, the cookie, each tab's store | create, slide, refresh, revoke, authenticate | who is active stays signed in; a write is done for the user on show |
| audit log | `audit_events` | `appendAuditEvent` | one unbroken hash chain that agrees with the rows |
| transactions, `utils/db.ts`, `withListingLock` | row and table locks, a pool of 20 | BEGIN, FOR UPDATE, COMMIT, ROLLBACK | no one waits for ever, nothing half done |
| auction page, `AuctionDetailPage.tsx` | listing, history, processed bids, a socket | load, bid, receive `bid:placed` | shows committed bids, each once |
| dashboards and review pages | the rows as they were last read | the buttons that send the calls above | whoever has to act next is given the button |
| mail, uploads, encryption, sanitising | - | - | no state of interest to a model checker |

How they interact: bidding, closing, expiring and completing run inside
`withListingLock` (`postgres.repository.ts:1207`), which starts a transaction
and takes the listing row `FOR UPDATE`; they see each other's work only after
COMMIT.  Nearly all other handlers read the row without a lock, change the object in
memory and write **every** column back (`updateListing`,
`postgres.repository.ts:1008`; `updateUser`, `updateSession` and the
tables of codes alike).  The write waits for the lock, the read does not.  `audit()` is called inside and outside transactions.  A bid on an ended
auction calls the closing from inside its own transaction.

What is hard here: stale full-row writes against the locked transactions;
exceptions thrown after a state change inside a transaction, which roll it
back; the proxy-bidding loop with its boundary cases; ordering by
`created_at`, which PostgreSQL sets to the *start* of the transaction;
statement sequences without a transaction that stop half-way; deadlines racing
the actions they end; locks taken in no fixed order; and a client that puts
together late answers, socket events and the state of other tabs.  `PROJECT.json` lists these hazards at their lines.

## 2. Modules

| module | models | state and actions in the code |
|---|---|---|
| `ProxyBidding` | the rules of automatic bidding as pure operators | `compareAutoBidPriority`, `canTakeTiePriority`, the filters, the target and the early returns of `resolveAutoBids` |
| `EnglishAuction` | **abstract specification**: an open ascending auction | what bidders are promised |
| `Auction` | bidding and closing of one listing with its transactions | `listing`, `bids`, `autoBids`, `offer` are the rows as the lock holder sees them; `tx` is the running transaction, `saved` what ROLLBACK restores; one action per request or statement group |
| `AuctionEdits` | `Auction` composed with the unlocked edits and cancellations and with the payment and expiry of the offer | `edit` is the row a request holds in memory between its read and its write; `offer` is the pending row of `payments`, `due` its deadline, `resolved` the rows that are paid or expired, `found` the worker's scan of sold listings |
| `ResolveLoop` | the resolution loop alone, from every start | the loop guard of 10 000 at its real value, amounts in cents |
| `Settlement` | payment, receipt, shipping, delivery, escrow | locked transactions are single steps; `req` holds the memory of each unlocked request, `pc` names its next statement |
| `ListingLocks` | several listings, the pool, row and table locks, the audit chain and the passes of the worker | `task[p]` is what a request or pass does, holds and has written but not committed; one action per query that locks or ends a transaction |
| `SettlementPages` | what the dashboards of bidder, donor and charity draw over the rows of `Settlement` | operators over its state, named as sections and buttons |
| `CharityRegistry` | applications, decisions, campaigns and their pages | `job[a]` is the request of user `a` between its read and its write |
| `ListingReview` | **composes** the registry with one listing's way through both review stages | `listing` is the row, `offered[a]` the buttons of the page `a` has open |
| `Accounts` | registration, passwords, one-time codes, lockout, staff accounts of one address | the tables; `job[r]` is the list of queries request `r` has still to do and the rows it has read |
| `SignIn` | sessions and tokens, CSRF, route guards, one browser with several tabs | `calls[c]` is a call in flight through its four moments: sent, looked up, answered, delivered |
| `AuctionPage` | a bidder's auction page fed by HTTP answers and socket events | `get`, `post`, `channel` are what is under way; `page` the component's state |
| `MC...` | constants for TLC | - |
| `ResolveLoopProofs` (with the rules of `ProxyBidding`), `AuctionProofs` (with `AuctionEdits`), `SettlementProofs` (with `SettlementPages`), `ListingReviewProofs`, `ListingLocksProofs`, `AccountsProofs`, `SignInProofs`, `AuctionPageProofs` | the theorems | - |

`Auction` and `EnglishAuction` are about one listing in detail, `ListingLocks`
about what several do to one another and reduces a bid to a count.
`Accounts` is about the tables behind one address, `SignIn` about sessions of
several users, where whether a password is right is left open.

Choices that matter:

* **A transaction is not atomic in `Auction`.** A bidding request takes the
  steps record, read the settings, respond (once per automatic bid), commit;
  it may roll back between any two, and `cancelAutoBid`, which takes no listing
  lock, may run between any two.  Everybody else sees `CommittedListing`,
  `CommittedBids`, `CommittedOffer`.
* **`created_at` and `updated_at`** are any instant between `LockWait` before
  now and now: `NOW()` is the start of the transaction, before it waited for
  the lock.  Rows inserted by one transaction have the same stamp.
* **Equal bids at closing**: the query orders by amount and `created_at` only;
  rows equal in both come in any order.
* In `Settlement` the locked operations are single steps: no other handler can
  see them half-way, and an exception rolls them back completely
  (`CompletePaymentLate` is what is left of one: the answer).  Bidding is
  reduced to who has bid and who leads.
* A client's amounts, increments, identities are small sets; texts, hashes,
  uploads, notifications and audit payloads are left out.
* In `ListingReview`, `CharityRegistry`, `Accounts` and `SignIn` nothing runs in
  a transaction: **every query is a step of its own**, and a handler writes the
  row it read.  A page shows the state it last read and offers its buttons;
  since it may be old, requests are checked again by the handler.
* PostgreSQL's lock queues and deadlock detection are external parts of
  `ListingLocks` (`Blocker`, `InCircle`, `Abort`): a circle of waiting
  transactions is broken by aborting one of them, any of them.
* Some definitions are followed or preceded by a *variant*: the same step with
  one slip.  The runs are repeated with the variant in place of the definition
  to see that the property it is paired with (`mutants` in `PROJECT.json`)
  notices.  No specification uses a variant.

## 3. Properties and runs

All runs but `ListingLocks_chain`, where the worker goes on for ever, say
`CHECK_DEADLOCK FALSE`: an auction ends, requests are counted and a bounded clock
stops.

**`Auction_safety`** three bidders, amounts 3 and 4, opening price and minimum
increment 1, own increment 2, two instants of bidding and one after the end
(about 740 000 states).  Three bidders are needed for a third setting to
interfere with a duel.  The first bid is at 2, so maximums 3 and 4 are the
smallest that make each case happen: equal maximums, a maximum exactly at and
just above the price (a handover, and a response the own increment overshoots),
a leader lowering his maximum.  `LockWait` is 0 here, so stamps follow the
order of the transactions; waiting for the lock is in the other `Auction` runs,
in the proofs, and `ResolveLoop` starts from any order of the setting times.
Checked: `TypeOK`, `RowAgreesWithBids`, `PublicLadder`, `AutoBidsWithinMax`,
`StableWinner`, `OfferMatchesHighestBid` and the refinement
`ImplementsEnglishAuction`.

**`Auction_live`** two bidders, amounts 3 to 5, one instant of waiting, under
`FairSpec`: `ResolutionEnds` and `EndedAuctionCloses`.  The second is not
obvious, because a late bid keeps closing the auction inside a transaction that
is then rolled back.

**`ResolveLoop_small`** the loop from every start with three bidders, five
maximums, two own increments, two setting times: it returns stable, raises no
further than the competition requires, needs at most one response per
increment of the price plus one, and a same-price handover is its last response.

**`AuctionEdits_offers`** one edit or cancellation by an administrator at any
moment of bidding, closing, paying and expiring (1.4 million states):
`OfferIsForARecordedBid`, the offer made is for a bid on record, by that
bidder; and `OpenOfferStands`, a pending offer keeps its bidder, amount and deadline until it is paid
in time or expires, also when its listing has become active again and is closed once
more.  The clock runs to 1 and a payment has one instant, so an offer made at 0 can be
paid and can expire.  After it is paid the guard no longer sees it
(`PaidItemNotOfferedAgain` under Refuted).

**`AuctionEdits_serial`** (violated, code bug) a detail edit between two bids
writes the old price back, so two manual bids of the same amount are accepted.

**`Settlement_fulfil`** two bidders, two concurrent unlocked requests, either
of which may stop after any statement, bidding, closing, payment and expiry:
`TypeOK`, `MoneyAgrees`, `PaidItemIsSoldOnce`, `ShippedOnlyAfterPayment`,
`PaidStaysPaid`, and over the dashboards `MoneyIsNeverStranded`: whatever stopped
half-way, somebody is shown the button that takes the money on.  Two requests are enough for every pairwise race of shipping
and confirming, including two inserted deliveries rows and a stale row that
undoes a confirmation.

**`Settlement_live`** under `FairSpec`, no failures and no administrator:
`OffersAreResolved` and `DeliveryReleasesEscrow`.  With failures the second does
not hold: a `confirmDelivery` that stops after `updateDelivery` is refused when
retried (`listing.service.ts:406`) and the escrow stays held.

**`ListingReview_stages`** two administrators, a charity's representative, a
staff member and a donor with one page open each, one listing, two applications,
four requests in all (1.3 million states): `PublicContentReviewed`,
`ReasonsAgree`, `PublishedAuctionIsOpen`, `ClosedCampaignStaysClosed`.  A note
remembers the version of the text it was written on, so that a decision written
over another's row or beside an edited text shows.  Four
requests are enough for a submission and three decisions, edits or campaign
changes that overlap in any order.

**`Accounts_rows`** two overlapping requests, six in all, on one address (1.5
million states): `AccountOfTheVerifiedSubmission`, `LockedOnlyAfterFailures`,
`TemporaryPasswordIsGated`.  Lockout and code attempts are 2 in the
configuration instead of 5, 3 and 5, so that they are reached in six requests;
the proofs have no such bound.

**`SignIn_tabs`** two tabs, three users (one of them an administrator, one with a
temporary password), two calls in flight, three forms sent, idle window 4,
absolute limit 5 (2.5 million states): `ActiveUserStaysSignedIn`, and
`WritesActForTheUserShown`.  The first says "every half idle window", not "every
idle window": a token used just before its half-life is not replaced, and ends
before the row does (see Deviations).

**`AuctionPage_feed`** one bidder's page, another bidder, three bids, one lost
connection: `ShowsACommittedBid`, `ListedOnce`, `CountedOnce`, and under
`FairSpec` `OwnBidAppears` and `BroadcastBidAppears`.  The bid history may come
late or not at all; `CountedOnce` says from when on the counting is right.

**`ListingLocks_chain`** two listings, two requests, one pass of the worker, a
pool of two: `ChainUnbroken`, `LogTellsTheTruth`, and under `FairSpec`
`PassesReachEveryListing`.  Two listings and three transactions are the least for
a circle over the rows and the audit table and for one that waits behind it; a
pool of two leaves one of three waiting for a connection.

### Fairness

Requests that hold the lock proceed by themselves: weak fairness of the
transaction's steps.  The worker runs every minute and queues for the row
lock, which PostgreSQL grants in the order of arrival: strong fairness of the
closing, whose guard is false while a late bid holds the lock.  For the same
reason `ListingLocks` has strong fairness of taking a listing's lock and the
table's (`OnListing`, `AppendAuditEvent`), and weak fairness of the other
statements, of the deadlock detector (`Abort`, which runs after
`deadlock_timeout`) and of the interval that starts passes.  On the auction page
answers that were sent arrive and events of an open connection are
delivered.  Time passes: weak fairness of `Tick`.  No fairness for bids,
payments, shipping, confirmations, edits or reviews: users are free.  `Accounts`,
`ListingReview` and `SignIn` state safety only: every handler ends, and nothing in
them has to happen unless a user asks.

### Bounds

`Amounts`, `Increments`, `Maxima`, `Times`, `Prices` bound what clients send;
`MaxClock` the clock; `LockWait` the waiting; `MaxEdits`, `Requests` the
unlocked requests; `MaxPayments` the offers of one listing; `PayPeriod` and
`PaymentWindow` stand for `PAYMENT_DEADLINE_HOURS`.  `ResponseLimit`
is the code's own guard, at its value 10 000 in every run.  In `Settlement`
the clock does not pass `MaxClock - PayPeriod` while the auction is active, so that
the deadline of an offer can be reached.  `MaxRequests`, `MaxCodes`, `MaxCalls`,
`MaxSessions` and `MaxTime` bound what users send, `MaxCharities`, `MaxContents`,
`Windows` and `CampaignEnds` what they submit, `Lag` how long a call takes,
`MaxBids`, `MaxPrice` and `MaxDrops` the auction page.

### Refuted

What the code or its documents say and the models refute.  The first is a run,
`AuctionEdits_serial`; the others are definitions of the modules, and TLC finds
the counterexample with the constants of the run named, the property in place
of the run's own.

| property | with | counterexample |
|---|---|---|
| `OneBidPerAmount` | `AuctionEdits_serial` | a detail edit between two bids restores the old price, and the second bid is accepted at the amount of the first (`TESTING.md:131` says only one succeeds) |
| `OfferGoesToLeader` | `Auction_live`, `Spec` | an auto-bidder whose maximum is matched keeps the lead at the same price (`bid.service.ts:76-89`); at closing bids are ordered by amount and `created_at`, so the matching manual bid may come first and get the offer (`payment.service.ts:57`; `:81` says `winner_id` "points to the original winning bidder only") |
| `StableOnReturn` | `ResolveLoop_small` with `Maxima <- MCLargeMaxima`, `MinIncrement`, `Prices` and `Increments` 100 (cents), two bidders | two maximums above 10 000 dollars and an increment of one dollar use up the 10 000 responses of the loop (`bid.service.ts:126`; `:165` says the guard should never be reached) |
| `PaidItemNotOfferedAgain` | `AuctionEdits_offers` | an administrator's edit reads the row of an active auction, which is force-closed and paid, and writes the row back: the listing is active again, the guard looks for *pending* payments only, and the next closing offers the paid item a second time (`payment.service.ts:129`; `:126-127` says "do not create duplicates") |
| `OverdueAuctionClosesUnderEdits` | `AuctionEdits_offers` with `MaxClock` 3, `EditFairSpec` | an edit that read the row before the closing and writes it after makes a sold listing active again; the guard sees the pending offer (`payment.service.ts:129`), the search for overdue offers looks at sold listings only, and the auction stays open for ever, long after the offer ran out |
| `ExpiryIsAsAnnounced` | `Settlement_fulfil` | a late payer is answered "The auction has expired" (`payment.service.ts:235`); the exception that carries the answer rolls the expiry back (`utils/db.ts:45`) |
| `NoOrphanedOffer` | `Settlement_live` with an administrator and `Ops = {"delete"}` | an administrator cancels a sold listing: its offer can neither be paid nor expire (`listing.service.ts:285`; `:283` says this "prevents orphaned bid/payment records later") |
| `SummaryInSync` | `AuctionPage_feed` | the listing is read before a bid and the history after it: the history lists the bid, the summary does not count it and never will (`AuctionDetailPage.tsx:135-155`) |
| `WinnerCanConfirm` | `Settlement_fulfil` | a shipping request that read the row before the auction ended writes the former leader back as winner; the payer's confirmation is refused |
| `FundsAreShown`, `ShippedItemsAreShown` | `Settlement_fulfil` | the donor's and the charity's pages count held and released money, and list shipped items, of listings that are still `sold`; shipping ends that |
| `PaymentShownOnce` | `Settlement_fulfil` | two requests insert two deliveries rows, and the join shows the payment twice |

### Deviations without a property

Met while modelling and, where not said otherwise, part of the models.  Most
are contradicted by no sentence of the repository; where one is, it is named, but too
loose to be a property.

* Bidding: a leader can stay in front of a higher maximum that cannot make the
  next legal bid (`bid.service.ts:97-98` says the highest maximum wins).  The
  audit row of a refused bid is rolled back with its transaction, and so are
  the closings a late bid makes.
* Settlement: `confirmDelivery` can succeed between `addDelivery` and the rest of
  `provideTracking`, so a sold listing becomes delivered without having been
  shipped (`TESTING.md:242`).  `regenerateReceipt` can never succeed: a held
  payment has a receipt (`MoneyAgrees`) and `payment_id` is UNIQUE.  A
  confirmation that stopped after its first write leaves the button "Item
  Received", which is then refused (`listing.service.ts:406`), and the
  escrow held.  Expired payments are shown as "Pending"; the forced closing is
  shown as "sold" also when it ended without bids.  The success messages of
  `BidderDashboard` and `DonorDashboard` are cleared by the reload that follows.
* Settlement again: the closing by the worker looks only at listings of approved
  charities (`postgres.repository.ts:1060`).  `Auction` and `ListingLocks` take the
  charity to be approved: it was when the campaign was opened, and only the late,
  stale decision of a second administrator takes that back.
* Review: the rejection of a charity is stored without a reason when none is given
  (`charity.service.ts:72-76`); only the page asks for one
  (`AdminCharitiesPage.tsx:65`).  The model leaves that reason out.  Of two decisions
  on one row the last write stands.
* Review: a rejection is not final, a donor may edit and resubmit
  (`listing.service.ts:346`), although `AdminListingsPage.tsx:165` reads so.
  The window that an acceptance moves ahead may end after its campaign, and
  the end of a campaign may be moved before its listings'.  A listing cancelled
  before its review is routed to the charity's dashboard.  Edit
  forms send every field as it was read, so two managers lose each other's
  changes, and a stale form removes an image uploaded since.  The dashboard's
  campaign form accepts what the backend refuses.
* Accounts: rows are written back as read, so a password, a deactivation, a
  lockout or an attempt counter written meanwhile can be undone; a session
  inserted after `revokeAllSessionsByUserId` survives a password reset;
  reset and profile codes share one row, and one replaces the other.
  `LockedOnlyAfterFailures` counts all failures ever, less than the "consecutive" of
  `TESTING.md:76`: a failed attempt that read the record before a successful one
  removed it writes the old count back.
* Sessions: a request in flight writes its session row back and so undoes a
  revocation (`session.service.ts:116`).  Pauses longer than half the idle window
  may sign a user out before the window is over, since a token is replaced only
  from its half-life on (`session.service.ts:127`).  A new tab is signed in by the
  shared cookie but has no CSRF token, so its writes are refused; a failed
  sign-in clears the tab's token; the late answer to `fetchMe` shows the user of
  an older session.  `RegisterCharityPage.tsx:197` repeats a used code when
  a later step failed.
* Auction page: the socket joins its room once; after a reconnection the bids of others
  are missed until the page is loaded again (`AuctionDetailPage.tsx:241`).
* Pages: `BidderDashboard` shows the newest bid by `created_at`, the start of its
  transaction, as "Your Bid", which need not be the highest;
  `PaymentDeadlinesPage` and `AdminActiveListingsPage` have no route.

## 4. Proofs

All proofs hold for every value of the constants allowed by the named
assumptions (`MinIncrementAssumption`: the increment is positive, as the
schema's CHECK says; `AuctionAssumption`: the donor and the bidders are user
ids, the starting price and the loop guard are positive, start before end;
`SettlementAssumption`, `ResolveLoopAssumption`, `ListingLocksAssumption`,
`ListingReviewAssumption`, `AccountsAssumption`, `SignInAssumption` and
`AuctionPageAssumption` say which constants are numbers and which are apart).
A theorem that needs more says so in its own ASSUME.

* `ResolveLoopProofs`, the rules.  `NextResponseIsLegal`: the candidate the loop
  selects always has a legal response, so the three early returns after the
  target is computed are unreachable.  `HandoverEndsResolution`: after a
  same-price handover nobody can respond, which bounds the handovers per call by
  one; the argument is that `Outranks` is transitive and the head of the list
  outranks everyone who could respond.
* `AuctionProofs`.  The inductive invariant `IInv` is the conjunction of the
  types, the safety properties of the rows as the lock holder sees them
  (`RowsOK`), the same of the rows ROLLBACK would restore (`SavedOK`), the
  shape of the running transaction (`TxOK`: among others, that every
  candidate's maximum is the one on record for its bidder, because the
  running request holds the lock and `cancelAutoBid` does not change
  maximums) and the offer (`OfferOK`).
  The properties themselves are not inductive: nothing in them says what
  ROLLBACK brings back.  From `IInv` follow `TypeCorrectness`,
  `RowAlwaysAgreesWithBids`, `BidsFormALadder`, `AutoBidsStayWithinMax`,
  `OfferIsForHighestBid` and `Refinement` (every step of `Auction` is a step of
  `EnglishAuction` or a stutter; a whole bidding transaction maps to one
  `Raise` or `Handover` at its commit).
  `WinnerIsStable` is the theorem about the loop carried into the transaction:
  while a request resolves, its row, its candidates and its count of responses
  are a state of `ResolveLoop` (`INSTANCE ResolveLoopProofs`), each `Respond` is
  one of its steps (`RespondsAsLoop`) and a cancellation in between can only
  deactivate a setting the loop has read.  The invariant `StableInv` says of the
  idle rows and of those ROLLBACK restores that nobody else's active setting
  reaches the next legal bid.  Its hypothesis, that no maximum is further from
  the starting price than the guard of 10 000 responses covers, is needed: the
  third line of "Refuted" is what happens beyond.
  Of `AuctionEdits`, `OffersAreForRecordedBids`, `OpenOffersStand` and
  `NoSecondOfferWithoutEdit` hold for any number of administrators and stale rows.
  Almost nothing `IInv` says survives an unlocked edit; `EditInv` is what does: rows
  have their types, the offer is for a bid in the table, the offer ROLLBACK restores
  is for a bid it restores, and a request that may still roll back can only have
  made an offer where there was none.
  `NoSecondOfferWithoutEdit` bounds the offers of one item, pending, paid or expired, by
  one more than the edits and cancellations: `CountInv` pays for each offer with the
  row leaving `active` and for each return to `active`, also by a row still in an
  administrator's memory, with that edit.
* `SettlementProofs`.  `TypesCorrect`, `MoneyAlwaysAgrees` and
  `PaidPaymentsStayPaid` hold for every set of concurrent operations, edits and
  cancellations included.  Their invariant is `MoneyInv`: a request that is
  about to release has found a payment that was successful (`FoundIsPaid`), and
  `MoneyStep` says what any step may do to a payment.  `PaidItemIsSoldOnlyOnce`
  and `NothingShippedUnpaid` assume that only shipping and confirming run
  (`Ops \subseteq {"ship", "confirm"}`): an edit or a cancellation can put a paid
  listing back into the auction, and TLC refutes `PaidItemIsSoldOnce` in
  `Settlement_fulfil` with `Ops = {"edit"}`.  Their
  invariant `SoldInv` adds that the listing has at most one payment and that a
  request past its checks has seen it paid (`RequestOK`): `getDelivery` alone
  does not check a payment, it is the parcel it finds that proves one.
  `NoMoneyIsStranded` is about what the dashboards show of the same rows.  The
  pages read different tables, so that nobody is left without a button rests on
  the order in which a request writes them: `PageInv` adds to `SoldInv` that a
  released payment belongs to a listing marked shipped or delivered, such a
  listing to a parcel that was marked, and that each request about to write the
  next table has written the one before (`SenderOK`).  A stale delivery row can
  undo a mark, but only by writing the other one.
* `ResolveLoopProofs`.  `LoopInv` says how the last response came about
  (`Explained`: who responded, whom they beat and why the amount was needed) and how
  far the price has come (`Paced`: each response but a handover raises it by the
  increment).  From it `ResponsesAreBounded`, `NobodyIsRaisedNeedlessly`,
  `HandoversAreFinal`, and `StableWithinTheGuard`: if every maximum is less than
  `(ResponseLimit - 1) * MinIncrement` above the price, the loop returns stable.
* `ListingReviewProofs`.  `ReviewInv` says of the row and of **every row a request
  has read and may yet write** what the properties say of the row (`RowOK`,
  `JobOK`); whole-row writes are harmless to them because each row in flight
  was right when read and the facts it relies on (versions forwarded, accepted,
  written by an administrator) only grow; a note names the version it was written on.  `OnlyReviewedContentIsPublished`, `ReasonsAgreeAlways`,
  `ClosedCampaignsStayClosed`, `AcceptedAuctionsCanBeBidOn`.
* `ListingLocksProofs`.  `ChainInv`: what each transaction would see is a chain that
  can be appended to, and only the holder of the table's lock has rows of its own
  (`OwnRowsUnderLock`).  `AuditLogIsAChain` holds for any number of listings,
  requests, passes and connections.  `CommittedLogIsTrue` counts: in the log, and in
  what each open transaction would make of it together with the events it has
  still to append (`OwnTruth`), there are as many rows of each kind as the listing has
  events behind it.  `TruthInv` needs the lock on the listing (nobody else changes
  the row a transaction has written) and that a request outside a transaction writes
  no row of a listing.
* `AccountsProofs`.  `AccountsInv` is the same idea as `ReviewInv` for four tables and
  the queries a request has still to do (`StepOK`): a verified submission in
  memory was submitted with its code, a failure record counts failures that
  happened, a user row with the temporary password has its gate.
  `AccountIsTheVerifiedSubmission`, `NoEarlyLockout`, `TemporaryPasswordStaysGated`.
* `SignInProofs`.  `SignInInv` relates the token of every tab and of every call in
  flight to the user of its session, and says that nobody knows the session of a
  sign-in whose answer is under way (`FreshSid`).  `WritesAreForTheUserShown`
  follows for any number of tabs, users, sessions and calls.
  `ActiveUsersStaySignedIn` adds the clock.  `UseInv` says that a session row lasts an
  idle window from the last answered use, less the `Lag` with which an older call
  may write it back (`LongEnough`), that the browser's token was less than half used
  up at that use (`Young`), and the same of every call in flight, whose answer may
  set an older token (`Timely`, `NotOlder`).  It holds for every timeout, as long as
  a call takes less than half an idle window (`Lag`).
* `AuctionPageProofs`.  The page is told of one bid up to three times, and `PageInv`
  says of everything under way (answers, broadcasts, the two GETs) that it names bids
  committed by then (`UnderWayOK`), of the page that its price and leader are those
  after some such bid and its history has none twice (`PageOK`), and that one POST is
  under way at most (`OneAnswer`).  `PageShowsACommittedBid` and `BidsAreListedOnce`
  need no more, nor does `OnlyCommittedBidsAreKnown`.  For `BidsAreCountedOnce`, `CountOK` compares the count with the bids
  in `processedBids`, or with those the history will bring if it has not come yet.
  `applyBid` over the bids of an answer is a `FoldLeft`; an answer has at most two
  bids (`Answerable`), so the recursive function behind the fold is written down for
  lengths 0 to 2 (`ApplyNone`, `ApplyOne`, `ApplyTwo`) and no induction is needed.

Every safety invariant and action property of a passing run is stated by a theorem.
Only model-checked, because liveness under fairness and ENABLED are out of the
prover's reach: `ResolutionEnds`, `EndedAuctionCloses`, `OffersAreResolved`,
`DeliveryReleasesEscrow`, `OwnBidAppears`, `BroadcastBidAppears` and
`PassesReachEveryListing`.

## 5. Not modelled

* Conversions: encryption, sanitising, formatting of numbers and dates, file
  checks.  No property is about them; a refused input is a step not taken.
* Mail and uploads; a code that is sent is known to its owner.
* The limiters, `checkBidVelocity` (`bid.service.ts:15`) and
  `otpRequestLimit.middleware.ts`: counters in the memory of one process, which
  only refuse requests before they reach the database.
* Roles, except as the pages and handlers a user has: `rbac.middleware.ts` is a
  lookup in a constant table.
* The Redis store of login attempts is modelled, whose read and write are two
  steps; the memory store makes them one.
* The cookie's `maxAge` (the token in it ends no later), several campaigns of one
  charity, sorting and counting on the dashboards, pages that only read.
* The unmount of `ForceChangePasswordPage` while its call is in flight.

What could come next: the auction page composed with `Auction` in place of its own
bids, and what of the bid rows survives any number of unlocked edits.
