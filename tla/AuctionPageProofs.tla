-------------------------- MODULE AuctionPageProofs --------------------------
(***************************************************************************)
(* Theorems about AuctionPage.tla, for any number of other bidders, prices *)
(* and bids, and any number of lost connections.                           *)
(***************************************************************************)
EXTENDS AuctionPage, SequenceTheorems, FiniteSetTheorems, TLAPS

-----------------------------------------------------------------------------
(***************************************************************************)
(* The inductive invariant.  First the shapes; NoPost apart, an answer     *)
(* carries one bid of its request, the automatic response to it, or none.  *)
(***************************************************************************)
Answers == [ids : Seq(Nat), mine : BOOLEAN, seen : Nat]
Gets    == [{"listing", "history"} ->
               [state : {"none", "asked", "read", "done", "failed"}, seen : Nat]]
Posts   == [kind : {"none", "bid", "auto"}, amount : Nat,
            state : {"none", "sent", "committed", "refused", "answered"},
            ids : Seq(Nat), seen : Nat]
Rows    == [price : Nat, count : Nat, winner : Others \cup {Me, NoBidder}]
Pages   == [loaded : BOOLEAN, row : Rows, history : Seq(Nat),
            processed : SUBSET Nat]

Shapes ==
    /\ bids \in Seq(Bids)
    /\ outbox \in SUBSET Answers
    /\ get \in Gets
    /\ post \in Posts
    /\ channel \in Seq(Nat)
    /\ room \in BOOLEAN /\ socket \in {"off", "joining", "open"}
    /\ page \in Pages
    /\ early \in BOOLEAN

\* Bids of the first n, and at most two of them.
Within(ids, n) == \A i \in DOMAIN ids : ids[i] \in 1 .. n
Answerable(ids, n) == Len(ids) <= 2 /\ Within(ids, n)

\* What is under way tells of committed bids.
UnderWayOK(n) ==
    /\ \A o \in outbox : Answerable(o.ids, n) /\ o.seen <= n
    /\ \A k \in {"listing", "history"} : get[k].seen <= n
    /\ Answerable(post.ids, n) /\ post.seen <= n
    /\ Within(channel, n)

\* The price and the leader of a row are those after some committed bid.
RowShown(row, bs) ==
    \/ row.price = 0 /\ row.winner = NoBidder
    \/ \E i \in 1 .. Len(bs) : row.price = bs[i].amount /\ row.winner = bs[i].bidder

NoneTwice(s) == \A i, j \in DOMAIN s : s[i] = s[j] => i = j

PageOK(p, bs) ==
    /\ p.processed \subseteq 1 .. Len(bs)
    /\ Within(p.history, Len(bs))
    /\ NoneTwice(p.history)
    /\ RowShown(p.row, bs)

\* One POST at a time, and none before there is a page.
OneAnswer ==
    /\ \A o \in outbox : o.mine => post.state = "committed"
    /\ \A o1, o2 \in outbox : o1.mine /\ o2.mine => o1 = o2
    /\ get["listing"].state # "done" => ~ page.loaded /\ post = NoPost

\* Until a bid comes early the page counts what the history will tell or the
\* bids it has processed.
CountOK ==
    ~ early =>
        /\ ~ HistoryCame => post = NoPost
        /\ HistoryCame => page.row.count <= Cardinality(page.processed)
        /\ get["history"].state \in {"none", "asked"} => page.row.count <= Len(bids)
        /\ get["history"].state = "read" => page.row.count <= get["history"].seen

PageInv ==
    /\ Shapes
    /\ Len(bids) <= MaxBids
    /\ UnderWayOK(Len(bids))
    /\ PageOK(page, bids)
    /\ OneAnswer
    /\ CountOK

-----------------------------------------------------------------------------
(***************************************************************************)
(* The bids of an answer are applied one after another.  FoldLeft is       *)
(* defined by a recursive function, and an answer has at most two bids:    *)
(* that function is written down and shown to be the one of the definition.*)
(***************************************************************************)
Fold(p, ids, g) ==
    [s \in SUBSET DOMAIN ids |->
        IF s = {} THEN p ELSE ApplyBid(g[s \ {Max(s)}], ids[Max(s)])]

LEMMA FoldExpands ==
    ASSUME NEW p, NEW ids
    PROVE  ApplyBids(p, ids) = (CHOOSE g : g = Fold(p, ids, g))[DOMAIN ids]
BY DEF ApplyBids, FoldLeft, MapThenFoldSet, Fold

LEMMA FoldIs ==
    ASSUME NEW p, NEW ids, NEW f, f = Fold(p, ids, f)
    PROVE  \E g : g = Fold(p, ids, g) /\ ApplyBids(p, ids) = g[DOMAIN ids]
<1>1. (CHOOSE g : g = Fold(p, ids, g)) = Fold(p, ids, CHOOSE g : g = Fold(p, ids, g))
  OBVIOUS
<1> QED
  BY <1>1, FoldExpands

LEMMA ApplyNone == ASSUME NEW p PROVE ApplyBids(p, << >>) = p
<1> DEFINE f == [s \in {{}} |-> p]
<1>1. SUBSET DOMAIN << >> = {{}} /\ DOMAIN << >> = {}
  OBVIOUS
<1>2. f = Fold(p, << >>, f)
  BY <1>1 DEF Fold
<1> HIDE DEF f
<1>3. PICK g : g = Fold(p, << >>, g) /\ ApplyBids(p, << >>) = g[DOMAIN << >>]
  BY <1>2, FoldIs
<1> QED
  BY <1>1, <1>3 DEF Fold

LEMMA ApplyOne == ASSUME NEW p, NEW i PROVE ApplyBids(p, <<i>>) = ApplyBid(p, i)
<1> DEFINE f == [s \in {{}, {1}} |-> IF s = {} THEN p ELSE ApplyBid(p, i)]
<1>1. SUBSET DOMAIN <<i>> = {{}, {1}} /\ DOMAIN <<i>> = {1} /\ {1} \ {1} = {}
  OBVIOUS
<1>2. Max({1}) = 1
  BY DEF Max
<1>3. f = Fold(p, <<i>>, f)
  BY <1>1, <1>2 DEF Fold
<1> HIDE DEF f
<1>4. PICK g : g = Fold(p, <<i>>, g) /\ ApplyBids(p, <<i>>) = g[DOMAIN <<i>>]
  BY <1>3, FoldIs
<1>5. g[{}] = p
  BY <1>1, <1>4 DEF Fold
<1>6. g[{1}] = ApplyBid(g[{}], i)
  <2> DEFINE ids == <<i>>
  <2>1. ids[1] = i /\ SUBSET DOMAIN ids = {{}, {1}} /\ g = Fold(p, ids, g)
    BY <1>1, <1>4
  <2> HIDE DEF ids
  <2> QED
    BY <1>1, <1>2, <2>1 DEF Fold
<1> QED
  BY <1>1, <1>4, <1>5, <1>6

LEMMA ApplyTwo ==
    ASSUME NEW p, NEW i, NEW j
    PROVE  ApplyBids(p, <<i, j>>) = ApplyBid(ApplyBid(p, i), j)
<1> DEFINE ids == <<i, j>>
           f == [s \in SUBSET {1, 2} |->
                    CASE s = {} -> p
                      [] s = {1} -> ApplyBid(p, i)
                      [] s = {2} -> ApplyBid(p, j)
                      [] OTHER -> ApplyBid(ApplyBid(p, i), j)]
<1>1. DOMAIN ids = {1, 2} /\ ids[1] = i /\ ids[2] = j
  OBVIOUS
<1>2. Max({1}) = 1 /\ Max({2}) = 2 /\ Max({1, 2}) = 2
  BY DEF Max
<1>3. SUBSET {1, 2} = {{}, {1}, {2}, {1, 2}}
  OBVIOUS
<1> HIDE DEF ids
<1>4. f = Fold(p, ids, f)
  <2>1. /\ f[{}] = p /\ f[{1}] = ApplyBid(p, i) /\ f[{2}] = ApplyBid(p, j)
        /\ f[{1,2}] = ApplyBid(ApplyBid(p, i), j)
    BY <1>3
  <2>2. {1} \ {1} = {} /\ {2} \ {2} = {} /\ {1, 2} \ {2} = {1}
    OBVIOUS
  <2>3. /\ Fold(p, ids, f)[{}] = p
        /\ Fold(p, ids, f)[{1}] = ApplyBid(p, i)
        /\ Fold(p, ids, f)[{2}] = ApplyBid(p, j)
        /\ Fold(p, ids, f)[{1, 2}] = ApplyBid(ApplyBid(p, i), j)
    <3> HIDE DEF f
    <3> QED
      BY <1>1, <1>2, <1>3, <2>1, <2>2 DEF Fold
  <2>4. /\ f = [s \in SUBSET {1, 2} |-> f[s]]
        /\ Fold(p, ids, f) = [s \in SUBSET {1, 2} |-> Fold(p, ids, f)[s]]
    BY <1>1 DEF Fold
  <2>5. ASSUME NEW s \in SUBSET {1, 2} PROVE f[s] = Fold(p, ids, f)[s]
    <3> DEFINE F == Fold(p, ids, f)
    <3>1. s = {} \/ s = {1} \/ s = {2} \/ s = {1, 2}
      BY <1>3
    <3>2. f[{}] = F[{}] /\ f[{1}] = F[{1}] /\ f[{2}] = F[{2}] /\ f[{1, 2}] = F[{1, 2}]
      BY <2>1, <2>3, Zenon
    <3> HIDE DEF f, F
    <3>3. f[s] = F[s]
      BY <3>1, <3>2
    <3> QED
      BY <3>3 DEF F
  <2> HIDE DEF f
  <2> QED
    BY <2>4, <2>5
<1> HIDE DEF f
<1>5. PICK g : g = Fold(p, ids, g) /\ ApplyBids(p, ids) = g[DOMAIN ids]
  BY <1>4, FoldIs
<1>6. g[{}] = p
  BY <1>1, <1>3, <1>5 DEF Fold
<1>7. ASSUME NEW s \in SUBSET DOMAIN ids, s # {}
      PROVE  g[s] = ApplyBid(g[s \ {Max(s)}], ids[Max(s)])
  BY <1>5, <1>7 DEF Fold
<1>8. g[{1}] = ApplyBid(g[{}], i)
  <2> DEFINE s == {1}
  <2>1. s \ {1} = {} /\ s # {} /\ s \in SUBSET DOMAIN ids /\ Max(s) = 1
    BY <1>1, <1>2
  <2> HIDE DEF s
  <2>2. g[s] = ApplyBid(g[s \ {Max(s)}], ids[Max(s)])
    BY <1>7, <2>1
  <2> QED
    BY <1>1, <2>1, <2>2 DEF s
<1>9. g[{1, 2}] = ApplyBid(g[{1}], j)
  <2> DEFINE s == {1, 2}
  <2>1. s \ {2} = {1} /\ s # {} /\ s \in SUBSET DOMAIN ids /\ Max(s) = 2
    BY <1>1, <1>2
  <2> HIDE DEF s
  <2>2. g[s] = ApplyBid(g[s \ {Max(s)}], ids[Max(s)])
    BY <1>7, <2>1
  <2> QED
    BY <1>1, <2>1, <2>2 DEF s
<1> QED
  BY <1>1, <1>5, <1>6, <1>8, <1>9 DEF ids

-----------------------------------------------------------------------------
(***************************************************************************)
(* One bid applied to a page.                                              *)
(***************************************************************************)
Counted(p) == p.row.count <= Cardinality(p.processed)

LEMMA PrependNew ==
    ASSUME NEW s \in Seq(Nat), NEW n \in Nat, NEW i \in 1 .. n,
           Within(s, n), NoneTwice(s), i \notin Elements(s)
    PROVE  /\ <<i>> \o s \in Seq(Nat)
           /\ Within(<<i>> \o s, n)
           /\ NoneTwice(<<i>> \o s)
<1> DEFINE t == <<i>> \o s
<1>1. /\ t \in Seq(Nat) /\ Len(t) = Len(s) + 1 /\ Len(s) \in Nat
      /\ DOMAIN t = 1 .. Len(t) /\ DOMAIN s = 1 .. Len(s)
      /\ t[1] = i /\ \A j \in 2 .. Len(t) : t[j] = s[j - 1]
  OBVIOUS
<1>2. \A j \in DOMAIN s : s[j] # i
  BY DEF Elements
<1> HIDE DEF t
<1>3. ASSUME NEW j \in DOMAIN t, j # 1
      PROVE  j - 1 \in DOMAIN s /\ t[j] = s[j - 1]
  <2>1. j \in 2 .. Len(t) /\ j - 1 \in 1 .. Len(s)
    <3>1. ASSUME NEW m \in Nat, NEW x \in 1 .. m + 1, x # 1
          PROVE  x \in 2 .. m + 1 /\ x - 1 \in 1 .. m
      BY <3>1
    <3>2. Len(s) \in Nat /\ j \in 1 .. Len(s) + 1 /\ Len(t) = Len(s) + 1
      BY <1>1
    <3> QED
      BY <1>3, <3>1, <3>2
  <2> QED
    BY <1>1, <2>1
<1>4. Within(t, n)
  BY <1>1, <1>3 DEF Within
<1>5. NoneTwice(t)
  <2> SUFFICES ASSUME NEW j \in DOMAIN t, NEW k \in DOMAIN t, t[j] = t[k]
               PROVE  j = k
    BY DEF NoneTwice
  <2>1. CASE j = 1 \/ k = 1
    BY <1>1, <1>2, <1>3, <2>1
  <2>2. CASE j # 1 /\ k # 1
    <3>1. j - 1 = k - 1
      BY <1>3, <2>2 DEF NoneTwice
    <3> QED
      BY <1>1, <3>1
  <2> QED
    BY <2>1, <2>2
<1> QED
  BY <1>1, <1>4, <1>5 DEF t

LEMMA ApplyBidOK ==
    ASSUME NEW p \in Pages, bids \in Seq(Bids),
           NEW i \in 1 .. Len(bids), PageOK(p, bids)
    PROVE  /\ ApplyBid(p, i) \in Pages
           /\ PageOK(ApplyBid(p, i), bids)
           /\ ApplyBid(p, i).loaded = p.loaded
           /\ Counted(p) => Counted(ApplyBid(p, i))
<1>1. CASE i \in p.processed
  BY <1>1 DEF ApplyBid
<1>2. CASE i \notin p.processed
  <2> DEFINE q == ApplyBid(p, i)
             row == [price |-> bids[i].amount, count |-> p.row.count + 1,
                     winner |-> bids[i].bidder]
             h == IF i \in Elements(p.history) THEN p.history
                                               ELSE <<i>> \o p.history
  <2>1. /\ Len(bids) \in Nat /\ i \in Nat /\ bids[i] \in Bids
        /\ p.row \in Rows /\ p.history \in Seq(Nat) /\ p.processed \in SUBSET Nat
    BY DEF Pages
  <2>2. row \in Rows /\ row.price = bids[i].amount /\ row.winner = bids[i].bidder
        /\ row.count = p.row.count + 1 /\ p.row.count \in Nat
    BY <2>1, AuctionPageAssumption DEF Rows, Bids
  <2>3. h \in Seq(Nat) /\ Within(h, Len(bids)) /\ NoneTwice(h)
    BY <2>1, PrependNew DEF PageOK
  <2>4. q = [p EXCEPT !.row = row, !.history = h,
                      !.processed = p.processed \cup {i}]
    BY <1>2, Zenon DEF ApplyBid
  <2> HIDE DEF row, h, q
  <2>5. /\ q \in Pages /\ q.row = row /\ q.history = h
        /\ q.processed = p.processed \cup {i} /\ q.loaded = p.loaded
    BY <2>1, <2>2, <2>3, <2>4 DEF Pages
  <2>6. RowShown(row, bids)
    BY <2>2 DEF RowShown
  <2>7. PageOK(q, bids)
    BY <2>3, <2>5, <2>6 DEF PageOK
  <2>8. Counted(p) => Counted(q)
    <3>1. IsFiniteSet(p.processed)
      <4>1. IsFiniteSet(1 .. Len(bids))
        BY <2>1, FS_Interval
      <4> QED
        BY <4>1, FS_Subset DEF PageOK
    <3>2. /\ Cardinality(p.processed) \in Nat
          /\ Cardinality(q.processed) = Cardinality(p.processed) + 1
      BY <1>2, <2>5, <3>1, FS_AddElement, FS_CardinalityType
    <3> QED
      BY <2>2, <2>5, <3>2 DEF Counted
  <2> QED
    BY <2>5, <2>7, <2>8 DEF q
<1> QED
  BY <1>1, <1>2

LEMMA ApplyBidsOK ==
    ASSUME NEW p \in Pages, bids \in Seq(Bids),
           NEW ids \in Seq(Nat), Answerable(ids, Len(bids)), PageOK(p, bids)
    PROVE  /\ ApplyBids(p, ids) \in Pages
           /\ PageOK(ApplyBids(p, ids), bids)
           /\ ApplyBids(p, ids).loaded = p.loaded
           /\ Counted(p) => Counted(ApplyBids(p, ids))
<1>1. Len(ids) \in {0, 1, 2} /\ DOMAIN ids = 1 .. Len(ids)
  <2>1. Len(ids) \in Nat /\ DOMAIN ids = 1 .. Len(ids)
    OBVIOUS
  <2>2. Len(ids) <= 2
    BY DEF Answerable
  <2> QED
    BY <2>1, <2>2
<1>2. CASE Len(ids) = 0
  <2>1. ids = << >>
    BY <1>2
  <2> QED
    BY <2>1, ApplyNone
<1>3. CASE Len(ids) = 1
  <2>1. ids = <<ids[1]>> /\ ids[1] \in 1 .. Len(bids)
    BY <1>1, <1>3 DEF Answerable, Within
  <2>2. ApplyBids(p, ids) = ApplyBid(p, ids[1])
    BY <2>1, ApplyOne
  <2> QED
    BY <2>1, <2>2, ApplyBidOK
<1>4. CASE Len(ids) = 2
  <2>1. /\ ids = <<ids[1], ids[2]>>
        /\ ids[1] \in 1 .. Len(bids) /\ ids[2] \in 1 .. Len(bids)
    BY <1>1, <1>4 DEF Answerable, Within
  <2>2. ApplyBids(p, ids) = ApplyBid(ApplyBid(p, ids[1]), ids[2])
    BY <2>1, ApplyTwo
  <2> DEFINE q == ApplyBid(p, ids[1])
  <2>3. /\ q \in Pages /\ PageOK(q, bids) /\ q.loaded = p.loaded
        /\ Counted(p) => Counted(q)
    BY <2>1, ApplyBidOK
  <2> HIDE DEF q
  <2>4. /\ ApplyBid(q, ids[2]) \in Pages /\ PageOK(ApplyBid(q, ids[2]), bids)
        /\ ApplyBid(q, ids[2]).loaded = q.loaded
        /\ Counted(q) => Counted(ApplyBid(q, ids[2]))
    BY <2>1, <2>3, ApplyBidOK
  <2>5. ApplyBids(p, ids) = ApplyBid(q, ids[2])
    BY <2>2 DEF q
  <2> QED
    BY <2>3, <2>4, <2>5
<1> QED
  BY <1>1, <1>2, <1>3, <1>4

-----------------------------------------------------------------------------
(***************************************************************************)
(* The server.  Committed bids stay, so what was told of them stays true.  *)
(***************************************************************************)
Extends(n) ==
    /\ bids' \in Seq(Bids) /\ Len(bids') \in n .. MaxBids
    /\ \A i \in 1 .. n : bids'[i] = bids[i]

LEMMA WithinMore ==
    ASSUME NEW ids, NEW n \in Nat, NEW m \in Nat, n <= m
    PROVE  /\ Within(ids, n) => Within(ids, m)
           /\ Answerable(ids, n) => Answerable(ids, m)
BY DEF Within, Answerable

LEMMA PageStaysOK ==
    ASSUME NEW n \in Nat, n = Len(bids), Extends(n), NEW p \in Pages, PageOK(p, bids)
    PROVE  PageOK(p, bids')
<1>1. Len(bids') \in Nat /\ n <= Len(bids') /\ 1 .. n \subseteq 1 .. Len(bids')
  BY DEF Extends
<1>2. RowShown(p.row, bids')
  BY <1>1 DEF PageOK, RowShown, Extends
<1> QED
  BY <1>1, <1>2, WithinMore DEF PageOK

\* A price the server knows is a natural number; so are the amounts above it.
LEMMA PricesAreNat ==
    ASSUME PageInv
    PROVE  /\ PriceAfter(Len(bids)) \in Nat
           /\ \A n \in 0 .. Len(bids) :
                 /\ ListingAfter(n) \in Rows /\ ListingAfter(n).count = n
                 /\ RowShown(ListingAfter(n), bids)
                 /\ ListingAfter(n).price = PriceAfter(n)
                 /\ ListingAfter(n).winner = WinnerAfter(n)
<1>1. bids \in Seq(Bids) /\ Len(bids) \in Nat /\ \A i \in 1 .. Len(bids) : bids[i] \in Bids
  BY DEF PageInv, Shapes
<1>2. ASSUME NEW n \in 0 .. Len(bids)
      PROVE  /\ PriceAfter(n) \in Nat
             /\ WinnerAfter(n) \in Others \cup {Me, NoBidder}
             /\ \/ PriceAfter(n) = 0 /\ WinnerAfter(n) = NoBidder
                \/ \E i \in 1 .. Len(bids) :
                      PriceAfter(n) = bids[i].amount /\ WinnerAfter(n) = bids[i].bidder
  <2>1. CASE n = 0
    BY <2>1 DEF PriceAfter, WinnerAfter
  <2>2. CASE n # 0
    <3>1. n \in 1 .. Len(bids) /\ bids[n] \in Bids
      BY <1>1, <2>2
    <3>2. bids[n].amount \in Nat /\ bids[n].bidder \in Others \cup {Me}
      BY <3>1, AuctionPageAssumption DEF Bids
    <3> QED
      BY <2>2, <3>1, <3>2 DEF PriceAfter, WinnerAfter
  <2> QED
    BY <2>1, <2>2
<1>3. ASSUME NEW n \in 0 .. Len(bids)
      PROVE  /\ ListingAfter(n) \in Rows /\ ListingAfter(n).count = n
             /\ RowShown(ListingAfter(n), bids)
             /\ ListingAfter(n).price = PriceAfter(n)
             /\ ListingAfter(n).winner = WinnerAfter(n)
  <2>1. /\ ListingAfter(n).count = n
        /\ ListingAfter(n).price = PriceAfter(n)
        /\ ListingAfter(n).winner = WinnerAfter(n)
    BY DEF ListingAfter
  <2>2. ListingAfter(n) \in Rows
    BY <1>1, <1>2 DEF ListingAfter, Rows
  <2>3. RowShown(ListingAfter(n), bids)
    BY <1>2, <2>1 DEF RowShown
  <2> QED
    BY <2>1, <2>2, <2>3
<1> QED
  BY <1>1, <1>2, <1>3

LEMMA BatchesAreBids ==
    ASSUME NEW b \in Others \cup {Me}, NEW a \in 1 .. MaxPrice,
           NEW batch \in Batches(b, a)
    PROVE  batch \in Seq(Bids) /\ Len(batch) \in {1, 2}
<1>1. [bidder |-> b, amount |-> a] \in Bids
  BY DEF Bids
<1>2. ASSUME NEW c \in (Others \cup {Me}) \ {b}, NEW x \in a .. MaxPrice
      PROVE  [bidder |-> c, amount |-> x] \in Bids
  BY AuctionPageAssumption DEF Bids
<1>3. CASE batch = <<[bidder |-> b, amount |-> a]>>
  BY <1>1, <1>3
<1>4. ASSUME NEW c \in (Others \cup {Me}) \ {b}, NEW x \in a .. MaxPrice,
             batch = <<[bidder |-> b, amount |-> a], [bidder |-> c, amount |-> x]>>
      PROVE  batch \in Seq(Bids) /\ Len(batch) \in {1, 2}
  BY <1>1, <1>2, <1>4
<1> QED
  BY <1>3, <1>4 DEF Batches

LEMMA CommitExtends ==
    ASSUME PageInv, NEW batch \in Seq(Bids), Len(batch) \in {0, 1, 2},
           NEW mine \in BOOLEAN, Commit(batch, mine)
    PROVE  /\ Extends(Len(bids))
           /\ \E o \in Answers :
                 /\ o.mine = mine /\ outbox' = outbox \cup {o}
                 /\ Answerable(o.ids, Len(bids')) /\ o.seen <= Len(bids')
<1>1. /\ bids \in Seq(Bids) /\ Len(bids) \in Nat /\ bids' = bids \o batch
      /\ Len(bids) + Len(batch) <= MaxBids
  BY DEF PageInv, Shapes, Commit
<1>2. /\ bids' \in Seq(Bids) /\ Len(bids') = Len(bids) + Len(batch)
      /\ \A i \in 1 .. Len(bids) : bids'[i] = bids[i]
  BY <1>1
<1> DEFINE o == [ids |-> NewIds(batch), mine |-> mine,
                 seen |-> Len(bids) + Len(batch)]
<1>3. /\ NewIds(batch) \in Seq(Nat) /\ Len(NewIds(batch)) = Len(batch)
      /\ DOMAIN NewIds(batch) = 1 .. Len(batch)
      /\ \A i \in 1 .. Len(batch) : NewIds(batch)[i] = Len(bids) + i
  BY <1>1 DEF NewIds
<1>4. Answerable(NewIds(batch), Len(bids'))
  <2>1. ASSUME NEW i \in 1 .. Len(batch) PROVE NewIds(batch)[i] \in 1 .. Len(bids')
    BY <1>1, <1>2, <1>3
  <2>2. Len(NewIds(batch)) <= 2
    <3>1. \A n \in {0, 1, 2} : n <= 2
      OBVIOUS
    <3> QED
      BY <1>3, <3>1, Zenon
  <2> QED
    BY <1>3, <2>1, <2>2, Zenon DEF Answerable, Within
<1>5. /\ o \in Answers /\ o.mine = mine /\ o.ids = NewIds(batch)
      /\ o.seen = Len(bids')
  BY <1>1, <1>2, <1>3 DEF Answers
<1>6. outbox' = outbox \cup {o}
  BY DEF Commit
<1>7. o.seen <= Len(bids')
  BY <1>1, <1>2, <1>5
<1> HIDE DEF o
<1>8. Extends(Len(bids))
  BY <1>1, <1>2, AuctionPageAssumption DEF Extends
<1> QED
  BY <1>4, <1>5, <1>6, <1>7, <1>8

\* Whoever commits: the invariant holds again, if the page's own answer is
\* alone under way.
LEMMA CommitOK ==
    ASSUME PageInv, NEW batch \in Seq(Bids), Len(batch) \in {0, 1, 2},
           NEW mine \in BOOLEAN, Commit(batch, mine),
           UNCHANGED <<get, channel, room, socket, drops, page, early>>,
           IF mine THEN post.state = "sent" /\ post' = [post EXCEPT !.state = "committed"]
                   ELSE UNCHANGED post
    PROVE  PageInv'
<1>1. PICK o \in Answers :
         /\ o.mine = mine /\ outbox' = outbox \cup {o}
         /\ Answerable(o.ids, Len(bids')) /\ o.seen <= Len(bids')
  BY CommitExtends
<1>2. /\ Extends(Len(bids)) /\ Len(bids) \in Nat /\ Len(bids') \in Nat
      /\ Len(bids) <= Len(bids') /\ Len(bids') <= MaxBids
  <2>1. Extends(Len(bids))
    BY CommitExtends
  <2> QED
    BY <2>1 DEF Extends, PageInv, Shapes
<1>3. Shapes /\ UnderWayOK(Len(bids)) /\ PageOK(page, bids) /\ OneAnswer /\ CountOK
  BY DEF PageInv
<1>4. /\ post' \in Posts /\ post'.ids = post.ids /\ post'.seen = post.seen
      /\ mine => post.state = "sent" /\ post'.state = "committed"
      /\ ~ mine => post' = post
      /\ post' = NoPost <=> post = NoPost
  <2>1. CASE mine
    BY <1>3, <2>1 DEF Shapes, Posts, NoPost
  <2>2. CASE ~ mine
    BY <1>3, <2>2 DEF Shapes
  <2> QED
    BY <2>1, <2>2
<1>5. Shapes'
  BY <1>1, <1>2, <1>3, <1>4 DEF Shapes, Extends
<1>6. UnderWayOK(Len(bids))'
  <2>1. ASSUME NEW x \in outbox' PROVE Answerable(x.ids, Len(bids')) /\ x.seen <= Len(bids')
    <3>1. CASE x \in outbox
      <4>1. Answerable(x.ids, Len(bids)) /\ x.seen <= Len(bids) /\ x.seen \in Nat
        BY <1>3, <3>1 DEF UnderWayOK, Shapes, Answers
      <4> QED
        BY <1>2, <4>1, WithinMore
    <3>2. CASE x = o
      BY <1>1, <3>2
    <3> QED
      BY <1>1, <3>1, <3>2
  <2>2. ASSUME NEW k \in {"listing", "history"} PROVE get[k].seen <= Len(bids')
    <3>1. get[k].seen \in Nat /\ get[k].seen <= Len(bids)
      BY <1>3 DEF UnderWayOK, Shapes, Gets
    <3> QED
      BY <1>2, <3>1
  <2>3. Answerable(post.ids, Len(bids')) /\ Within(channel, Len(bids'))
    BY <1>2, <1>3, WithinMore DEF UnderWayOK
  <2>4. post.seen <= Len(bids')
    <3>1. post.seen \in Nat /\ post.seen <= Len(bids)
      BY <1>3 DEF UnderWayOK, Shapes, Posts
    <3> QED
      BY <1>2, <3>1
  <2> QED
    BY <1>4, <2>1, <2>2, <2>3, <2>4 DEF UnderWayOK
<1>7. PageOK(page', bids')
  BY <1>2, <1>3, PageStaysOK DEF Shapes
<1>8. OneAnswer'
  BY <1>1, <1>3, <1>4 DEF OneAnswer
<1>9. CountOK'
  <2>1. page.row.count \in Nat
    BY <1>3 DEF Shapes, Pages, Rows
  <2> QED
    BY <1>2, <1>3, <1>4, <2>1 DEF CountOK, HistoryCame
<1> QED
  BY <1>2, <1>5, <1>6, <1>7, <1>8, <1>9 DEF PageInv

LEMMA OthersBidOK ==
    ASSUME PageInv, NEW b \in Others, OthersBid(b)
    PROVE  PageInv'
<1>1. PICK a \in (PriceAfter(Len(bids)) + 1) .. MaxPrice :
         \E batch \in Batches(b, a) : Commit(batch, FALSE)
  BY DEF OthersBid
<1>2. a \in 1 .. MaxPrice
  BY <1>1, PricesAreNat, AuctionPageAssumption
<1>3. PICK batch \in Batches(b, a) : Commit(batch, FALSE)
  BY <1>1
<1>4. batch \in Seq(Bids) /\ Len(batch) \in {0, 1, 2}
  BY <1>2, <1>3, BatchesAreBids
<1>5. UNCHANGED <<get, post, channel, room, socket, drops, page, early>>
  BY DEF OthersBid, client
<1> QED
  BY <1>3, <1>4, <1>5, CommitOK

LEMMA ServePostOK ==
    ASSUME PageInv, ServePost
    PROVE  PageInv'
<1>1. /\ post.state = "sent"
      /\ UNCHANGED <<get, channel, room, socket, drops, page, early>>
  BY DEF ServePost, client
<1>2. ASSUME NEW batch \in Seq(Bids), Len(batch) \in {0, 1, 2}, Commit(batch, TRUE),
             post' = [post EXCEPT !.state = "committed"]
      PROVE  PageInv'
  BY <1>1, <1>2, CommitOK
<1>3. ASSUME NEW a \in (PriceAfter(Len(bids)) + 1) .. MaxPrice,
             NEW batch \in Batches(Me, a), Commit(batch, TRUE),
             post' = [post EXCEPT !.state = "committed"]
      PROVE  PageInv'
  <2>1. a \in 1 .. MaxPrice
    BY <1>3, PricesAreNat, AuctionPageAssumption
  <2>2. batch \in Seq(Bids) /\ Len(batch) \in {0, 1, 2}
    BY <1>3, <2>1, BatchesAreBids
  <2> QED
    BY <1>2, <1>3, <2>2
<1>4. ASSUME Commit(<< >>, TRUE), post' = [post EXCEPT !.state = "committed"]
      PROVE  PageInv'
  <2>1. << >> \in Seq(Bids) /\ Len(<< >>) = 0
    OBVIOUS
  <2> QED
    BY <1>2, <1>4, <2>1
<1>5. ASSUME post' = [post EXCEPT !.state = "refused"], UNCHANGED <<bids, outbox>>
      PROVE  PageInv'
  <2>1. /\ post' \in Posts /\ post'.ids = post.ids /\ post'.seen = post.seen
        /\ post # NoPost /\ \A o \in outbox : ~ o.mine
    <3>1. post \in Posts /\ \A o \in outbox : o.mine => post.state = "committed"
      BY DEF PageInv, Shapes, OneAnswer
    <3>2. post' \in Posts /\ post'.ids = post.ids /\ post'.seen = post.seen
      BY <1>5, <3>1 DEF Posts
    <3>3. post # NoPost
      BY <1>1 DEF NoPost
    <3>4. \A o \in outbox : ~ o.mine
      BY <1>1, <3>1
    <3> QED
      BY <3>2, <3>3, <3>4
  <2>2. Shapes' /\ UnderWayOK(Len(bids))'
    BY <1>1, <1>5, <2>1 DEF PageInv, Shapes, UnderWayOK
  <2>3. OneAnswer' /\ CountOK'
    BY <1>1, <1>5, <2>1 DEF PageInv, OneAnswer, CountOK, HistoryCame
  <2> QED
    BY <1>1, <1>5, <2>2, <2>3 DEF PageInv
<1> QED
  BY <1>3, <1>4, <1>5 DEF ServePost

LEMMA BroadcastOK ==
    ASSUME PageInv, Broadcast
    PROVE  PageInv'
<1>1. PICK o \in outbox :
         /\ outbox' = outbox \ {o}
         /\ channel' = IF room THEN channel \o o.ids ELSE channel
         /\ post' = IF o.mine
                    THEN [post EXCEPT !.state = "answered", !.ids = o.ids,
                                      !.seen = o.seen]
                    ELSE post
  BY DEF Broadcast
<1>2. UNCHANGED <<bids, get, room, socket, drops, page, early>>
  BY DEF Broadcast, client
<1>3. Shapes /\ UnderWayOK(Len(bids)) /\ PageOK(page, bids) /\ OneAnswer /\ CountOK
      /\ Len(bids) <= MaxBids
  BY DEF PageInv
<1>4. /\ o \in Answers /\ o.ids \in Seq(Nat) /\ o.seen \in Nat
      /\ Answerable(o.ids, Len(bids)) /\ o.seen <= Len(bids)
  BY <1>3 DEF Shapes, UnderWayOK, Answers
<1>5. channel' \in Seq(Nat) /\ Within(channel', Len(bids))
  <2>1. CASE room
    <3> DEFINE s == channel \o o.ids
    <3>1. /\ channel \in Seq(Nat) /\ s \in Seq(Nat) /\ Len(s) = Len(channel) + Len(o.ids)
          /\ Len(channel) \in Nat /\ Len(o.ids) \in Nat
          /\ DOMAIN s = 1 .. Len(s) /\ DOMAIN channel = 1 .. Len(channel)
          /\ DOMAIN o.ids = 1 .. Len(o.ids)
          /\ \A i \in 1 .. Len(s) : s[i] = IF i <= Len(channel) THEN channel[i]
                                           ELSE o.ids[i - Len(channel)]
      BY <1>3, <1>4, ConcatProperties, LenProperties DEF Shapes
    <3>2. s = channel'
      BY <1>1, <2>1
    <3> HIDE DEF s
    <3>3. ASSUME NEW i \in 1 .. Len(s) PROVE s[i] \in 1 .. Len(bids)
      <4>1. CASE i <= Len(channel)
        <5>1. i \in DOMAIN channel /\ s[i] = channel[i]
          BY <3>1, <4>1
        <5> QED
          BY <1>3, <5>1 DEF UnderWayOK, Within
      <4>2. CASE ~ (i <= Len(channel))
        <5>1. i - Len(channel) \in DOMAIN o.ids /\ s[i] = o.ids[i - Len(channel)]
          BY <3>1, <4>2
        <5> QED
          BY <1>4, <5>1 DEF Answerable, Within
      <4> QED
        BY <4>1, <4>2
    <3> QED
      BY <3>1, <3>2, <3>3 DEF Within
  <2>2. CASE ~ room
    BY <1>1, <1>3, <2>2 DEF Shapes, UnderWayOK
  <2> QED
    BY <2>1, <2>2
<1>6. /\ post' \in Posts /\ Answerable(post'.ids, Len(bids)) /\ post'.seen <= Len(bids)
      /\ post' = NoPost <=> post = NoPost
      /\ ~ o.mine => post' = post
      /\ o.mine => post.state = "committed"
  <2>1. CASE o.mine
    <3>1. post.state = "committed"
      BY <1>3, <2>1 DEF OneAnswer
    <3>2. post' = [post EXCEPT !.state = "answered", !.ids = o.ids, !.seen = o.seen]
      BY <1>1, <2>1
    <3>3. /\ post' \in Posts /\ post'.ids = o.ids /\ post'.seen = o.seen
          /\ post'.state = "answered"
      BY <1>3, <1>4, <3>2 DEF Shapes, Posts
    <3> QED
      BY <1>4, <2>1, <3>1, <3>3 DEF NoPost
  <2>2. CASE ~ o.mine
    BY <1>1, <1>3, <2>2 DEF Shapes, UnderWayOK
  <2> QED
    BY <2>1, <2>2
<1>7. Shapes'
  BY <1>1, <1>2, <1>3, <1>5, <1>6 DEF Shapes
<1>8. UnderWayOK(Len(bids))'
  BY <1>1, <1>2, <1>3, <1>5, <1>6 DEF UnderWayOK
<1>9. OneAnswer'
  BY <1>1, <1>2, <1>3, <1>6 DEF OneAnswer
<1>10. CountOK'
  BY <1>2, <1>3, <1>6 DEF CountOK, HistoryCame
<1> QED
  BY <1>2, <1>3, <1>7, <1>8, <1>9, <1>10 DEF PageInv

\* Nothing of what the invariant speaks of grows.
LEMMA ConnectionOK ==
    ASSUME PageInv, Join \/ Drop
    PROVE  PageInv'
<1>1. /\ UNCHANGED <<bids, outbox, get, post, page, early>>
      /\ channel' = channel \/ channel' = << >>
      /\ room' \in BOOLEAN /\ socket' \in {"off", "joining", "open"}
  BY DEF Join, Drop, client, PageInv, Shapes
<1>2. Shapes /\ UnderWayOK(Len(bids)) /\ PageOK(page, bids) /\ OneAnswer /\ CountOK
  BY DEF PageInv
<1>3. << >> \in Seq(Nat) /\ Within(<< >>, Len(bids))
  BY DEF Within
<1>4. channel' \in Seq(Nat) /\ Within(channel', Len(bids))
  BY <1>1, <1>2, <1>3 DEF Shapes, UnderWayOK
<1>5. Shapes'
  BY <1>1, <1>2, <1>4 DEF Shapes
<1>6. UnderWayOK(Len(bids))'
  BY <1>1, <1>2, <1>4 DEF UnderWayOK
<1>7. OneAnswer' /\ CountOK'
  BY <1>1, <1>2 DEF OneAnswer, CountOK, HistoryCame
<1> QED
  BY <1>1, <1>2, <1>5, <1>6, <1>7 DEF PageInv

\* One of the two requests is answered with n bids, or fails.
LEMMA GetStep ==
    ASSUME PageInv, NEW k \in {"listing", "history"}, NEW n \in 0 .. Len(bids),
           NEW s \in {"none", "asked", "read", "done", "failed"},
           get' = [get EXCEPT ![k] = [state |-> s, seen |-> n]]
    PROVE  /\ get' \in Gets
           /\ \A x \in {"listing", "history"} : get'[x].seen <= Len(bids)
           /\ get'[k].state = s /\ get'[k].seen = n
           /\ \A x \in {"listing", "history"} \ {k} : get'[x] = get[x]
<1>1. get \in Gets /\ n \in Nat /\ n <= Len(bids) /\ UnderWayOK(Len(bids))
  BY DEF PageInv, Shapes
<1>2. /\ get'[k].state = s /\ get'[k].seen = n
      /\ \A x \in {"listing", "history"} \ {k} : get'[x] = get[x]
  BY <1>1 DEF Gets
<1>3. get' \in Gets
  BY <1>1 DEF Gets
<1> QED
  BY <1>1, <1>2, <1>3 DEF UnderWayOK

LEMMA ServeGetOK ==
    ASSUME PageInv, NEW k \in {"listing", "history"}, ServeGet(k)
    PROVE  PageInv'
<1>1. /\ get[k].state = "asked"
      /\ get' = [get EXCEPT ![k] = [state |-> "read", seen |-> Len(bids)]]
      /\ UNCHANGED <<bids, outbox, room, post, channel, socket, drops, page, early>>
  BY DEF ServeGet, server, client
<1>2. /\ get' \in Gets
      /\ \A x \in {"listing", "history"} : get'[x].seen <= Len(bids)
      /\ get'[k].state = "read" /\ get'[k].seen = Len(bids)
      /\ \A x \in {"listing", "history"} \ {k} : get'[x] = get[x]
  <2>1. Len(bids) \in 0 .. Len(bids)
    BY DEF PageInv, Shapes
  <2> QED
    BY <1>1, <2>1, GetStep
<1>3. Shapes' /\ UnderWayOK(Len(bids))'
  BY <1>1, <1>2 DEF PageInv, Shapes, UnderWayOK
<1>4. OneAnswer'
  BY <1>1, <1>2 DEF PageInv, OneAnswer
<1>5. CountOK'
  <2>1. CASE k = "history"
    BY <1>1, <1>2, <2>1 DEF PageInv, CountOK, HistoryCame
  <2>2. CASE k = "listing"
    <3>1. get'["history"] = get["history"]
      BY <1>2, <2>2
    <3> QED
      BY <1>1, <3>1 DEF PageInv, CountOK, HistoryCame
  <2> QED
    BY <2>1, <2>2
<1> QED
  BY <1>1, <1>3, <1>4, <1>5 DEF PageInv

-----------------------------------------------------------------------------
(***************************************************************************)
(* The page.                                                               *)
(***************************************************************************)
LEMMA ShowListingOK ==
    ASSUME PageInv, ShowListing
    PROVE  PageInv'
<1> DEFINE n == get["listing"].seen
<1>1. /\ get["listing"].state = "read"
      /\ get' = [k \in DOMAIN get |->
                   [get[k] EXCEPT !.state =
                       IF k = "listing" THEN "done" ELSE "asked"]]
      /\ page' = [page EXCEPT !.loaded = TRUE, !.row = ListingAfter(n)]
      /\ socket' = "joining"
      /\ UNCHANGED <<bids, outbox, room, post, channel, drops, early>>
  BY DEF ShowListing, server
<1>2. Shapes /\ UnderWayOK(Len(bids)) /\ PageOK(page, bids) /\ OneAnswer
  BY DEF PageInv
<1>3. n \in 0 .. Len(bids) /\ get \in Gets /\ page \in Pages
  BY <1>2 DEF Shapes, UnderWayOK, Gets
<1> HIDE DEF n
<1>4. /\ get' \in Gets
      /\ \A k \in {"listing", "history"} : get'[k].seen = get[k].seen
      /\ get'["listing"].state = "done" /\ get'["history"].state = "asked"
  BY <1>1, <1>3 DEF Gets
<1>5. /\ ListingAfter(n) \in Rows /\ ListingAfter(n).count = n
      /\ RowShown(ListingAfter(n), bids)
  BY <1>3, PricesAreNat
<1>6. /\ page' \in Pages /\ page'.row = ListingAfter(n)
      /\ page'.history = page.history /\ page'.processed = page.processed
  BY <1>1, <1>3, <1>5 DEF Pages
<1>7. Shapes' /\ UnderWayOK(Len(bids))'
  BY <1>1, <1>2, <1>4, <1>6 DEF Shapes, UnderWayOK
<1>8. PageOK(page', bids')
  BY <1>1, <1>2, <1>5, <1>6 DEF PageOK
<1>9. OneAnswer'
  BY <1>1, <1>2, <1>4 DEF OneAnswer
<1>10. CountOK'
  <2>1. post' = NoPost
    BY <1>1, <1>2 DEF OneAnswer
  <2>2. page'.row.count <= Len(bids)
    BY <1>3, <1>5, <1>6
  <2> QED
    BY <1>1, <1>4, <2>1, <2>2 DEF CountOK, HistoryCame
<1> QED
  BY <1>1, <1>7, <1>8, <1>9, <1>10 DEF PageInv

\* The history as it is shown, newest first.
LEMMA ReverseListsAll ==
    ASSUME NEW n \in Nat, NEW m \in Nat, n <= m
    PROVE  LET h == Reverse([i \in 1 .. n |-> i])
           IN  h \in Seq(Nat) /\ Within(h, m) /\ NoneTwice(h)
<1> DEFINE s == [i \in 1 .. n |-> i]
           h == Reverse(s)
<1>1. s \in Seq(Nat) /\ Len(s) = n
  OBVIOUS
<1>2. h = [i \in 1 .. n |-> (n - i) + 1]
  BY <1>1 DEF Reverse
<1> HIDE DEF s, h
<1>3. h \in Seq(Nat) /\ DOMAIN h = 1 .. n /\ \A i \in 1 .. n : h[i] = (n - i) + 1
  BY <1>2
<1>4. Within(h, m) /\ NoneTwice(h)
  BY <1>3 DEF Within, NoneTwice
<1> QED
  BY <1>3, <1>4 DEF h, s

LEMMA ShowHistoryOK ==
    ASSUME PageInv, ShowHistory
    PROVE  PageInv'
<1> DEFINE n == get["history"].seen
           h == Reverse([i \in 1 .. n |-> i])
<1>1. /\ get["history"].state = "read"
      /\ page' = [page EXCEPT !.history = h, !.processed = 1 .. n]
      /\ get' = [get EXCEPT !["history"].state = "done"]
      /\ UNCHANGED <<bids, outbox, room, post, channel, socket, drops, early>>
  BY DEF ShowHistory, Answer, server
<1>2. Shapes /\ UnderWayOK(Len(bids)) /\ PageOK(page, bids) /\ OneAnswer /\ CountOK
  BY DEF PageInv
<1>3. /\ n \in Nat /\ n <= Len(bids) /\ Len(bids) \in Nat
      /\ get \in Gets /\ page \in Pages
  BY <1>2 DEF Shapes, UnderWayOK, Gets
<1>4. h \in Seq(Nat) /\ Within(h, Len(bids)) /\ NoneTwice(h)
  BY <1>3, ReverseListsAll
<1>5. /\ get' \in Gets
      /\ \A k \in {"listing", "history"} : get'[k].seen = get[k].seen
      /\ get'["listing"] = get["listing"] /\ get'["history"].state = "done"
  BY <1>1, <1>3 DEF Gets
<1> HIDE DEF n, h
<1>6. /\ page' \in Pages /\ page'.row = page.row /\ page'.loaded = page.loaded
      /\ page'.history = h /\ page'.processed = 1 .. n
  <2>1. 1 .. n \in SUBSET Nat
    OBVIOUS
  <2> DEFINE s == 1 .. n
  <2>2. s \in SUBSET Nat /\ page' = [page EXCEPT !.history = h, !.processed = s]
    BY <1>1, <2>1
  <2> HIDE DEF s
  <2>3. /\ page' \in Pages /\ page'.row = page.row /\ page'.loaded = page.loaded
        /\ page'.history = h /\ page'.processed = s
    BY <1>3, <1>4, <2>2 DEF Pages
  <2> QED
    BY <2>3 DEF s
<1>7. Shapes' /\ UnderWayOK(Len(bids))'
  BY <1>1, <1>2, <1>5, <1>6 DEF Shapes, UnderWayOK
<1>8. PageOK(page', bids')
  <2>1. 1 .. n \subseteq 1 .. Len(bids)
    BY <1>3
  <2> QED
    BY <1>1, <1>2, <1>4, <1>6, <2>1 DEF PageOK
<1>9. OneAnswer'
  BY <1>1, <1>2, <1>5, <1>6 DEF OneAnswer
<1>10. CountOK'
  <2>1. Cardinality(1 .. n) = n
    BY <1>3, FS_Interval
  <2>2. ~ early => page.row.count <= n
    BY <1>1, <1>2 DEF CountOK, n
  <2> QED
    BY <1>1, <1>5, <1>6, <2>1, <2>2 DEF CountOK, HistoryCame
<1> QED
  BY <1>1, <1>2, <1>7, <1>8, <1>9, <1>10 DEF PageInv

LEMMA GetFailsOK ==
    ASSUME PageInv, NEW k \in {"listing", "history"}, GetFails(k)
    PROVE  PageInv'
<1>1. /\ get[k].state = "read"
      /\ get' = [get EXCEPT ![k].state = "failed"]
      /\ page' = IF k = "history" THEN [page EXCEPT !.history = << >>] ELSE page
      /\ UNCHANGED <<bids, outbox, room, post, channel, socket, drops, early>>
  BY DEF GetFails, server
<1>2. Shapes /\ UnderWayOK(Len(bids)) /\ PageOK(page, bids) /\ OneAnswer /\ CountOK
  BY DEF PageInv
<1>3. /\ get' \in Gets
      /\ \A x \in {"listing", "history"} : get'[x].seen = get[x].seen
      /\ get'[k].state = "failed"
      /\ \A x \in {"listing", "history"} \ {k} : get'[x] = get[x]
  BY <1>1, <1>2 DEF Gets, Shapes
<1>4. /\ page' \in Pages /\ page'.row = page.row /\ page'.loaded = page.loaded
      /\ page'.history = page.history \/ page'.history = << >>
      /\ page'.processed = page.processed
  <2>1. page \in Pages /\ << >> \in Seq(Nat)
    BY <1>2 DEF Shapes
  <2>2. CASE k = "history"
    BY <1>1, <2>1, <2>2 DEF Pages
  <2>3. CASE k # "history"
    BY <1>1, <2>1, <2>3
  <2> QED
    BY <2>2, <2>3
<1>5. Shapes' /\ UnderWayOK(Len(bids))'
  BY <1>1, <1>2, <1>3, <1>4 DEF Shapes, UnderWayOK
<1>6. PageOK(page', bids')
  BY <1>1, <1>2, <1>4 DEF PageOK, Within, NoneTwice
<1>7. OneAnswer'
  BY <1>1, <1>2, <1>3, <1>4 DEF OneAnswer
<1>8. CountOK'
  <2>1. CASE k = "history"
    BY <1>1, <1>2, <1>3, <1>4, <2>1 DEF CountOK, HistoryCame
  <2>2. CASE k = "listing"
    <3>1. get'["history"] = get["history"]
      BY <1>3, <2>2
    <3> QED
      BY <1>1, <1>2, <1>4, <3>1 DEF CountOK, HistoryCame
  <2> QED
    BY <2>1, <2>2
<1> QED
  BY <1>1, <1>2, <1>5, <1>6, <1>7, <1>8 DEF PageInv

LEMMA ReceiveBidOK ==
    ASSUME PageInv, ReceiveBid
    PROVE  PageInv'
<1>1. /\ channel # << >>
      /\ page' = ApplyBid(page, Head(channel))
      /\ channel' = Tail(channel)
      /\ early' = (early \/ ~ HistoryCame)
      /\ UNCHANGED <<bids, outbox, room, get, post, socket, drops>>
  BY DEF ReceiveBid, server
<1>2. Shapes /\ UnderWayOK(Len(bids)) /\ PageOK(page, bids) /\ OneAnswer /\ CountOK
  BY DEF PageInv
<1>3. /\ Head(channel) \in 1 .. Len(bids)
      /\ Tail(channel) \in Seq(Nat) /\ Within(Tail(channel), Len(bids))
  <2>1. /\ channel \in Seq(Nat) /\ Len(channel) \in Nat /\ Len(channel) > 0
        /\ DOMAIN channel = 1 .. Len(channel) /\ Head(channel) = channel[1]
        /\ Tail(channel) \in Seq(Nat) /\ Len(Tail(channel)) = Len(channel) - 1
        /\ DOMAIN Tail(channel) = 1 .. (Len(channel) - 1)
        /\ \A i \in 1 .. (Len(channel) - 1) : Tail(channel)[i] = channel[i + 1]
    BY <1>1, <1>2, HeadTailProperties, LenProperties, EmptySeq DEF Shapes
  <2>2. \A i \in 1 .. Len(channel) : channel[i] \in 1 .. Len(bids)
    BY <1>2, <2>1 DEF UnderWayOK, Within
  <2>3. \A i \in 1 .. (Len(channel) - 1) : i + 1 \in 1 .. Len(channel)
    BY <2>1
  <2> QED
    BY <2>1, <2>2, <2>3 DEF Within
<1>4. /\ page' \in Pages /\ PageOK(page', bids) /\ page'.loaded = page.loaded
      /\ Counted(page) => Counted(page')
  BY <1>1, <1>2, <1>3, ApplyBidOK DEF Shapes
<1>5. Shapes' /\ UnderWayOK(Len(bids))'
  BY <1>1, <1>2, <1>3, <1>4 DEF Shapes, UnderWayOK
<1>6. PageOK(page', bids')
  BY <1>1, <1>4
<1>7. OneAnswer'
  BY <1>1, <1>2, <1>4 DEF OneAnswer
<1>8. CountOK'
  BY <1>1, <1>2, <1>4 DEF CountOK, Counted, HistoryCame
<1> QED
  BY <1>1, <1>2, <1>5, <1>6, <1>7, <1>8 DEF PageInv

LEMMA SubmitOK ==
    ASSUME PageInv, NEW kind \in {"bid", "auto"}, NEW amount \in 1 .. MaxPrice,
           Submit(kind, amount)
    PROVE  PageInv'
<1>1. /\ page.loaded /\ post = NoPost
      /\ post' = [NoPost EXCEPT !.kind = kind, !.amount = amount, !.state = "sent"]
      /\ early' = (early \/ ~ HistoryCame)
      /\ UNCHANGED <<bids, outbox, room, get, channel, socket, drops, page>>
  BY DEF Submit, server
<1>2. Shapes /\ UnderWayOK(Len(bids)) /\ PageOK(page, bids) /\ OneAnswer /\ CountOK
  BY DEF PageInv
<1>3. /\ post' \in Posts /\ post'.ids = post.ids /\ post'.seen = post.seen
      /\ post'.state = "sent" /\ post.state = "none"
  <2>1. amount \in Nat
    BY AuctionPageAssumption
  <2>2. << >> \in Seq(Nat)
    OBVIOUS
  <2>3. post' = [kind |-> kind, amount |-> amount, state |-> "sent", ids |-> << >>, seen |-> 0]
    BY <1>1 DEF NoPost
  <2>4. post' \in Posts
    BY <2>1, <2>2, <2>3 DEF Posts
  <2>5. /\ post'.ids = post.ids /\ post'.seen = post.seen
        /\ post'.state = "sent" /\ post.state = "none"
    BY <1>1, <2>3 DEF NoPost
  <2> QED
    BY <2>4, <2>5
<1>4. Shapes' /\ UnderWayOK(Len(bids))'
  BY <1>1, <1>2, <1>3 DEF Shapes, UnderWayOK
<1>5. OneAnswer'
  BY <1>1, <1>2, <1>3 DEF OneAnswer
<1>6. CountOK'
  BY <1>1, <1>2 DEF CountOK, HistoryCame
<1> QED
  BY <1>1, <1>2, <1>4, <1>5, <1>6 DEF PageInv

LEMMA ShowAnswerOK ==
    ASSUME PageInv, ShowAnswer
    PROVE  PageInv'
<1> DEFINE p == ApplyBids(page, post.ids)
<1>1. /\ post.state \in {"answered", "refused"}
      /\ page' = IF post.state = "refused" THEN page
                 ELSE [p EXCEPT !.row.price = PriceAfter(post.seen),
                                !.row.winner = WinnerAfter(post.seen)]
      /\ post' = NoPost
      /\ UNCHANGED <<bids, outbox, room, get, channel, socket, drops, early>>
  BY DEF ShowAnswer, server
<1>2. Shapes /\ UnderWayOK(Len(bids)) /\ PageOK(page, bids) /\ OneAnswer /\ CountOK
  BY DEF PageInv
<1>3. /\ post.ids \in Seq(Nat) /\ Answerable(post.ids, Len(bids))
      /\ post.seen \in 0 .. Len(bids) /\ page \in Pages /\ post # NoPost
      /\ bids \in Seq(Bids) /\ Len(bids) \in Nat
  BY <1>1, <1>2 DEF Shapes, UnderWayOK, Posts, NoPost
<1>4. /\ p \in Pages /\ PageOK(p, bids) /\ p.loaded = page.loaded
      /\ Counted(page) => Counted(p)
  BY <1>2, <1>3, ApplyBidsOK
<1> HIDE DEF p
<1>5. /\ page' \in Pages /\ PageOK(page', bids) /\ page'.loaded = page.loaded
      /\ Counted(page) => Counted(page')
  <2>1. CASE post.state = "refused"
    BY <1>1, <1>2, <1>3, <2>1
  <2>2. CASE post.state = "answered"
    <3> DEFINE shown == ListingAfter(post.seen)
               row == [p.row EXCEPT !.price = shown.price, !.winner = shown.winner]
    <3>1. /\ shown \in Rows /\ RowShown(shown, bids)
          /\ shown.price = PriceAfter(post.seen)
          /\ shown.winner = WinnerAfter(post.seen)
      BY <1>3, PricesAreNat
    <3>2. page' = [p EXCEPT !.row.price = shown.price, !.row.winner = shown.winner]
      BY <1>1, <2>2, <3>1
    <3> HIDE DEF shown
    <3>3. /\ row \in Rows /\ row.price = shown.price /\ row.winner = shown.winner
          /\ row.count = p.row.count
      BY <1>4, <3>1 DEF Rows, Pages
    <3>4. page' = [p EXCEPT !.row = row]
      BY <1>4, <3>2 DEF Pages, Rows
    <3> HIDE DEF row
    <3>5. /\ page' \in Pages /\ page'.row = row /\ page'.loaded = p.loaded
          /\ page'.history = p.history /\ page'.processed = p.processed
      BY <1>4, <3>3, <3>4 DEF Pages
    <3>6. RowShown(row, bids)
      BY <3>1, <3>3 DEF RowShown
    <3> QED
      BY <1>4, <3>3, <3>5, <3>6 DEF PageOK, Counted
  <2> QED
    BY <1>1, <2>1, <2>2
<1>6. NoPost \in Posts /\ Answerable(NoPost.ids, Len(bids)) /\ NoPost.seen <= Len(bids)
  BY <1>3 DEF NoPost, Posts, Answerable, Within
<1>7. Shapes' /\ UnderWayOK(Len(bids))'
  BY <1>1, <1>2, <1>5, <1>6 DEF Shapes, UnderWayOK
<1>8. PageOK(page', bids')
  BY <1>1, <1>5
<1>9. OneAnswer'
  <2>1. \A o \in outbox : ~ o.mine
    BY <1>1, <1>2 DEF OneAnswer
  <2> QED
    BY <1>1, <1>2, <1>3, <2>1 DEF OneAnswer
<1>10. CountOK'
  BY <1>1, <1>2, <1>3, <1>5 DEF CountOK, Counted, HistoryCame
<1> QED
  BY <1>1, <1>2, <1>7, <1>8, <1>9, <1>10 DEF PageInv

-----------------------------------------------------------------------------
LEMMA PageInvariant == Spec => []PageInv
<1>1. Init => PageInv
  <2> SUFFICES ASSUME Init PROVE PageInv
    OBVIOUS
  <2>1. /\ bids = << >> /\ outbox = {} /\ post = NoPost /\ channel = << >>
        /\ room = FALSE /\ socket = "off" /\ early = FALSE
        /\ get = [k \in {"listing", "history"} |->
                    [state |-> IF k = "listing" THEN "asked" ELSE "none", seen |-> 0]]
        /\ page = [loaded |-> FALSE, row |-> ListingAfter(0),
                   history |-> << >>, processed |-> {}]
    BY DEF Init
  <2>2. ListingAfter(0) = [price |-> 0, count |-> 0, winner |-> NoBidder]
    BY DEF ListingAfter, PriceAfter, WinnerAfter
  <2>3. /\ page \in Pages /\ page.row.price = 0 /\ page.row.winner = NoBidder
        /\ page.row.count = 0 /\ page.history = << >> /\ page.processed = {}
        /\ ~ page.loaded
    BY <2>1, <2>2 DEF Pages, Rows
  <2>4. /\ get \in Gets /\ get["listing"].state = "asked"
        /\ get["history"].state = "none"
        /\ \A k \in {"listing", "history"} : get[k].seen = 0
    BY <2>1 DEF Gets
  <2>5. post \in Posts /\ post.ids = << >> /\ post.seen = 0
    BY <2>1 DEF Posts, NoPost
  <2>6. Shapes
    <3>1. << >> \in Seq(Bids) /\ << >> \in Seq(Nat) /\ {} \in SUBSET Answers
      OBVIOUS
    <3>2. bids \in Seq(Bids) /\ outbox \in SUBSET Answers /\ channel \in Seq(Nat)
      BY <2>1, <3>1
    <3> QED
      BY <2>1, <2>3, <2>4, <2>5, <3>2 DEF Shapes
  <2>7. UnderWayOK(Len(bids)) /\ PageOK(page, bids) /\ Len(bids) <= MaxBids
    BY <2>1, <2>3, <2>4, <2>5, AuctionPageAssumption
       DEF UnderWayOK, Answerable, Within, PageOK, NoneTwice, RowShown
  <2>8. OneAnswer /\ CountOK
    BY <2>1, <2>3, <2>4 DEF OneAnswer, CountOK, HistoryCame
  <2> QED
    BY <2>6, <2>7, <2>8 DEF PageInv
<1>2. PageInv /\ [Next]_vars => PageInv'
  <2> SUFFICES ASSUME PageInv, [Next]_vars PROVE PageInv'
    OBVIOUS
  <2>1. DOMAIN get = {"listing", "history"}
    BY DEF PageInv, Shapes, Gets
  <2>2. CASE UNCHANGED vars
    <3>1. UNCHANGED <<bids, outbox, get, post, channel, room, socket, page, early>>
      BY <2>2 DEF vars
    <3> QED
      BY <3>1 DEF PageInv, Shapes, UnderWayOK, OneAnswer, CountOK, HistoryCame
  <2> QED
    BY <2>1, <2>2, OthersBidOK, ServePostOK, BroadcastOK, ConnectionOK, ServeGetOK,
       GetFailsOK, ShowListingOK, ShowHistoryOK, ReceiveBidOK, ShowAnswerOK, SubmitOK
       DEF Next
<1> QED
  BY <1>1, <1>2, PTL DEF Spec

(***************************************************************************)
(* What the page, the answers and broadcasts under way and the requests    *)
(* know of a bid, they know of a committed one: emits come after COMMIT.   *)
(***************************************************************************)
THEOREM OnlyCommittedBidsAreKnown == Spec => []TypeOK
<1>1. PageInv => TypeOK
  <2> SUFFICES ASSUME PageInv PROVE TypeOK
    OBVIOUS
  <2>1. /\ bids \in Seq(Bids) /\ Len(bids) \in Nat /\ DOMAIN bids = 1 .. Len(bids)
        /\ get \in Gets /\ page \in Pages /\ page.row \in Rows
        /\ room \in BOOLEAN /\ socket \in {"off", "joining", "open"}
    BY LenProperties DEF PageInv, Shapes, Pages
  <2>2. UnderWayOK(Len(bids)) /\ PageOK(page, bids) /\ Len(bids) <= MaxBids
    BY DEF PageInv
  <2>3. ASSUME NEW ids, Within(ids, Len(bids))
        PROVE  Elements(ids) \subseteq DOMAIN bids
    BY <2>1, <2>3 DEF Within, Elements
  <2>4. \A o \in outbox : Elements(o.ids) \subseteq DOMAIN bids
    BY <2>2, <2>3 DEF UnderWayOK, Answerable
  <2>5. ASSUME NEW k \in DOMAIN get
        PROVE  /\ get[k].state \in {"none", "asked", "read", "done", "failed"}
               /\ get[k].seen \in 0 .. Len(bids)
    BY <2>1, <2>2, <2>5 DEF UnderWayOK, Gets
  <2>6. Elements(channel) \cup Elements(post.ids) \subseteq DOMAIN bids
    BY <2>2, <2>3 DEF UnderWayOK, Answerable
  <2>7. page.processed \cup Elements(page.history) \subseteq DOMAIN bids
    BY <2>1, <2>2, <2>3 DEF PageOK
  <2>8. page.row.winner \in Others \cup {Me, NoBidder}
    BY <2>1 DEF Rows
  <2> QED
    BY <2>1, <2>2, <2>4, <2>5, <2>6, <2>7, <2>8 DEF TypeOK
<1> QED
  BY <1>1, PageInvariant, PTL

(***************************************************************************)
(* The price and the leader the page shows are those some committed bid    *)
(* made, however late or doubled the answers and events arrive.            *)
(***************************************************************************)
THEOREM PageShowsACommittedBid == Spec => []ShowsACommittedBid
<1>1. PageInv => ShowsACommittedBid
  BY LenProperties DEF PageInv, Shapes, PageOK, RowShown, ShowsACommittedBid
<1> QED
  BY <1>1, PageInvariant, PTL

(***************************************************************************)
(* A bid that comes in the answer to a POST, over the socket and in the    *)
(* history is listed once, in whatever order they come.                    *)
(***************************************************************************)
THEOREM BidsAreListedOnce == Spec => []ListedOnce
<1>1. PageInv => ListedOnce
  BY DEF PageInv, PageOK, NoneTwice, ListedOnce
<1> QED
  BY <1>1, PageInvariant, PTL

(***************************************************************************)
(* When the history came before the first bid, processedBids keeps the     *)
(* page from counting a bid twice.                                         *)
(***************************************************************************)
THEOREM BidsAreCountedOnce == Spec => []CountedOnce
<1>1. ASSUME PageInv, HistoryCame, ~ early PROVE page.row.count <= Len(bids)
  <2>1. /\ page.row.count \in Nat /\ Len(bids) \in Nat
        /\ page.row.count <= Cardinality(page.processed)
        /\ page.processed \subseteq 1 .. Len(bids)
    BY <1>1 DEF PageInv, Shapes, Pages, Rows, CountOK, PageOK
  <2>2. IsFiniteSet(1 .. Len(bids)) /\ Cardinality(1 .. Len(bids)) = Len(bids)
    <3>1. IsFiniteSet(1 .. Len(bids))
      BY <2>1, FS_Interval
    <3>2. ASSUME NEW n \in Nat PROVE Cardinality(1 .. n) = n
      BY FS_Interval
    <3> QED
      BY <2>1, <3>1, <3>2
  <2>3. /\ Cardinality(page.processed) <= Cardinality(1 .. Len(bids))
        /\ Cardinality(page.processed) \in Nat
    BY <2>1, <2>2, FS_Subset, FS_CardinalityType
  <2> QED
    BY <2>1, <2>2, <2>3
<1>2. PageInv => CountedOnce
  BY <1>1 DEF CountedOnce
<1> QED
  BY <1>2, PageInvariant, PTL
==============================================================================
