------------------------- MODULE ResolveLoopProofs -------------------------
(***************************************************************************)
(* The rules of automatic bidding (ProxyBidding.tla), and what the loop of *)
(* resolveAutoBids guarantees from every start (ResolveLoop.tla): any set  *)
(* of bidders, any maximums, increments, setting times and price.          *)
(***************************************************************************)
EXTENDS ResolveLoop, TLAPS

\* A response that is next in line is always legal: the three early returns
\* of resolveAutoBids after the target is computed are never taken.
THEOREM NextResponseIsLegal ==
    ASSUME NEW p \in Nat, NEW l,
           NEW cs \in SUBSET [bidder : Nat, max : Nat, inc : Nat, updatedAt : Nat],
           \A c \in cs : c.inc >= MinIncrement,
           NEW c \in cs,
           IsNextCandidate(c, p, l, cs)
    PROVE  IsLegalResponse(c, p, l, cs)
BY MinIncrementAssumption
   DEF IsNextCandidate, Responders, IsLegalResponse, TargetAmount, Smaller

\* A response never exceeds the private maximum of the candidate who makes it.
LEMMA TargetWithinMax ==
    ASSUME NEW p \in Nat, NEW l, NEW cs,
           NEW c \in [bidder : Nat, max : Nat, inc : Nat, updatedAt : Nat]
    PROVE  /\ TargetAmount(c, p, l, cs) \in Nat
           /\ TargetAmount(c, p, l, cs) <= c.max
BY DEF TargetAmount, CanTakeTiePriority, Smaller

\* Priority is transitive, so that a handover cannot be answered by another.
LEMMA OutranksTransitive ==
    ASSUME NEW a \in [bidder : Nat, max : Nat, inc : Nat, updatedAt : Nat],
           NEW b \in [bidder : Nat, max : Nat, inc : Nat, updatedAt : Nat],
           NEW c \in [bidder : Nat, max : Nat, inc : Nat, updatedAt : Nat],
           Outranks(a, b), Outranks(b, c)
    PROVE  Outranks(a, c) /\ ~ Outranks(b, a)
BY DEF Outranks

(***************************************************************************)
(* After a same-price handover no candidate can respond: the handover is   *)
(* the last response of the call (comment on the loop guard of             *)
(* resolveAutoBids: "one final same-price tie-priority handover").         *)
(***************************************************************************)
THEOREM HandoverEndsResolution ==
    ASSUME NEW p \in Nat, NEW l,
           NEW cs \in SUBSET [bidder : Nat, max : Nat, inc : Nat, updatedAt : Nat],
           \A x, y \in cs : x.bidder = y.bidder => x = y,
           NEW c \in cs,
           IsNextCandidate(c, p, l, cs),
           CanTakeTiePriority(c, p, l, cs)
    PROVE  Responders(p, c.bidder, cs) = {}
<1> DEFINE R == Responders(p, l, cs)
<1>1. SUFFICES ASSUME NEW d \in Responders(p, c.bidder, cs)
               PROVE  FALSE
  OBVIOUS
<1>2. /\ d \in cs /\ d.bidder # c.bidder /\ d # c
      /\ c \in R /\ c.bidder # l /\ c.max = p
      /\ \A e \in R \ {c} : Outranks(c, e)
  BY <1>1 DEF Responders, IsNextCandidate, CanTakeTiePriority
<1>3. d.max >= p
  BY <1>1, <1>2, MinIncrementAssumption DEF Responders, CanTakeTiePriority
<1>4. ~ Outranks(c, d)
  <2>1. CASE d.max >= p + MinIncrement
    BY <2>1, <1>2, MinIncrementAssumption DEF Outranks
  <2>2. CASE CanTakeTiePriority(d, p, c.bidder, cs)
    <3>1. Outranks(d, c)
      BY <2>2, <1>2 DEF CanTakeTiePriority
    <3> QED
      BY <3>1, <1>2 DEF Outranks
  <2> QED
    BY <2>1, <2>2, <1>1 DEF Responders
<1>5. d \notin R
  BY <1>2, <1>4
<1>6. CASE d.bidder = l
  BY <1>6, <1>2, <1>4 DEF CanTakeTiePriority
<1>7. CASE d.bidder # l
  <2>1. CanTakeTiePriority(d, p, c.bidder, cs)
    BY <1>1, <1>2, <1>5, <1>7 DEF Responders
  <2>2. Outranks(d, c) /\ d.max = p
    BY <2>1, <1>2 DEF CanTakeTiePriority
  <2>3. \A w \in cs : w.bidder = l => Outranks(d, w)
    <3>1. SUFFICES ASSUME NEW w \in cs, w.bidder = l
                   PROVE  Outranks(d, w)
      OBVIOUS
    <3>2. Outranks(c, w)
      BY <3>1 DEF CanTakeTiePriority
    <3> QED
      BY <2>2, <3>2, OutranksTransitive, <1>2
  <2> QED
    BY <2>2, <2>3, <1>2, <1>5, <1>7 DEF Responders, CanTakeTiePriority
<1> QED
  BY <1>6, <1>7

-----------------------------------------------------------------------------

Rows == [bidder : Nat, max : Nat, inc : Nat, updatedAt : Nat]

\* The settings the call has read.
StartOK ==
    /\ start.candidates \in SUBSET Rows
    /\ \A c \in start.candidates : c.inc >= MinIncrement /\ c.max \in Maxima
    /\ \A c, d \in start.candidates : c.bidder = d.bidder => c = d
    /\ start.price \in Prices

\* What a response leaves: its bidder can pay the price, and the competition
\* or the start explains it.
Explained ==
    \E w \in candidates :
        /\ w.bidder = leader
        /\ price <= w.max
        /\ \/ price <= start.price + w.inc
           \/ \E c \in candidates : c.bidder # leader /\ price <= c.max + w.inc

\* Every response but a handover raises the price by the minimum increment,
\* and a handover leaves nobody to respond.
Paced ==
    \/ rounds * MinIncrement <= price - start.price
    \/ /\ (rounds - 1) * MinIncrement <= price - start.price
       /\ Responders(price, leader, candidates) = {}

LoopInv ==
    /\ StartOK
    /\ price \in Nat /\ rounds \in Nat
    /\ rounds = 0 => price = start.price
    /\ rounds > 0 => Explained
    /\ Paced
    /\ returned => rounds = ResponseLimit \/ Responders(price, leader, candidates) = {}

LEMMA StartIsOK == Init => StartOK
<1> SUFFICES ASSUME Init PROVE StartOK
  OBVIOUS
<1>0. PICK S \in SUBSET Bidders, p \in Prices, l \in Bidders : \E setting \in [S -> Settings] :
         start = [price |-> p, leader |-> l,
                  candidates |-> { Candidate(b, setting[b]) : b \in S }]
  BY DEF Init
<1>1. PICK setting \in [S -> Settings] :
         start = [price |-> p, leader |-> l,
                  candidates |-> { Candidate(b, setting[b]) : b \in S }]
  BY <1>0
<1>2. start.price \in Prices /\ start.candidates = { Candidate(b, setting[b]) : b \in S }
  BY <1>1
<1>3. \A b \in S : /\ Candidate(b, setting[b]) \in Rows
                   /\ Candidate(b, setting[b]).inc >= MinIncrement
                   /\ Candidate(b, setting[b]).max \in Maxima
  <2> TAKE b \in S
  <2>1. b \in Nat /\ setting[b] \in Settings
    BY ResolveLoopAssumption
  <2>2. /\ setting[b].max \in Maxima /\ setting[b].max \in Nat
        /\ setting[b].inc \in Nat /\ setting[b].updatedAt \in Nat
    BY <2>1, ResolveLoopAssumption DEF Settings
  <2> QED
    BY <2>1, <2>2, MinIncrementAssumption DEF Candidate, Larger, Rows
<1>4. \A c, d \in start.candidates : c.bidder = d.bidder => c = d
  BY DEF Init, IsCallable
<1> QED
  BY <1>2, <1>3, <1>4 DEF StartOK

LEMMA RespondKeeps ==
  ASSUME LoopInv, Respond
  PROVE  LoopInv'
<1>1. PICK c \in candidates :
         /\ IsNextCandidate(c, price, leader, candidates)
         /\ IsLegalResponse(c, price, leader, candidates)
         /\ price' = TargetAmount(c, price, leader, candidates)
         /\ leader' = c.bidder
  BY DEF Respond
<1>2. /\ ~returned /\ returned' = returned /\ start' = start /\ candidates' = candidates
      /\ rounds' = rounds + 1 /\ rounds' \in Nat
  BY DEF Respond, LoopInv, candidates
<1>3. /\ candidates \in SUBSET Rows /\ c \in Rows
      /\ start.price \in Nat /\ price \in Nat /\ rounds \in Nat /\ MinIncrement \in Nat \ {0}
  BY ResolveLoopAssumption, MinIncrementAssumption DEF LoopInv, StartOK, candidates
<1>4. c.bidder # leader
  BY <1>1 DEF IsNextCandidate, Responders
<1>5. /\ price' \in Nat /\ price' <= c.max
      /\ price <= price' /\ price' <= price + c.inc
  <2>1. price' \in Nat /\ price' <= c.max
    BY <1>1, <1>3, TargetWithinMax DEF Rows
  <2>2. price <= price'
    BY <1>1, <1>3, <2>1 DEF IsLegalResponse
  <2>3. price' <= price + c.inc
    BY <1>1, <1>3 DEF TargetAmount, Smaller, Rows
  <2> QED
    BY <2>1, <2>2, <2>3
<1>6. Explained'
  <2>1. CASE rounds = 0
    <3>1. price' <= start.price + c.inc
      BY <2>1, <1>5 DEF LoopInv
    <3> QED
      BY <3>1, <1>1, <1>2, <1>5 DEF Explained, candidates
  <2>2. CASE rounds # 0
    <3>1. PICK w \in candidates : w.bidder = leader /\ price <= w.max
      BY <2>2, <1>3 DEF LoopInv, Explained
    <3>2. w.max \in Nat /\ c.inc \in Nat
      BY <1>3 DEF Rows
    <3>3. price' <= w.max + c.inc
      BY <3>1, <3>2, <1>3, <1>5
    <3> QED
      BY <3>1, <3>3, <1>1, <1>2, <1>4, <1>5 DEF Explained, candidates
  <2> QED
    BY <2>1, <2>2
<1>7. Paced'
  <2>1. Responders(price, leader, candidates) # {}
    BY <1>1 DEF IsNextCandidate
  <2>2. rounds * MinIncrement <= price - start.price
    BY <2>1 DEF LoopInv, Paced
  <2>3. CASE CanTakeTiePriority(c, price, leader, candidates)
    <3>1. price' = price
      BY <1>1, <2>3 DEF TargetAmount
    <3>2. Responders(price, c.bidder, candidates) = {}
      BY <1>1, <1>3, <2>3, HandoverEndsResolution DEF LoopInv, StartOK, Rows, candidates
    <3>3. rounds' - 1 = rounds
      BY <1>2, <1>3
    <3> QED
      BY <1>1, <1>2, <2>2, <3>1, <3>2, <3>3 DEF Paced, candidates
  <2>4. CASE ~CanTakeTiePriority(c, price, leader, candidates)
    <3>1. price' >= price + MinIncrement
      BY <1>1, <2>4 DEF IsLegalResponse
    <3>2. (rounds + 1) * MinIncrement = rounds * MinIncrement + MinIncrement
      BY <1>3
    <3>3. rounds' * MinIncrement <= price' - start.price
      BY <1>2, <1>3, <1>5, <2>2, <3>1, <3>2
    <3> QED
      BY <1>2, <3>3 DEF Paced
  <2> QED
    BY <2>3, <2>4
<1> QED
  BY <1>2, <1>3, <1>5, <1>6, <1>7 DEF LoopInv, StartOK

\* The loop stops by itself only when nobody can respond.
LEMMA SettledMeansNobody ==
  ASSUME LoopInv, Settled(price, leader, candidates)
  PROVE  Responders(price, leader, candidates) = {}
<1>1. price \in Nat /\ candidates \in SUBSET Rows /\ \A c \in candidates : c.inc >= MinIncrement
  BY DEF LoopInv, StartOK, candidates
<1> QED
  BY <1>1, NextResponseIsLegal DEF Settled, Rows

LEMMA ReturnKeeps ==
  ASSUME LoopInv, Return
  PROVE  LoopInv'
<1>1. /\ start' = start /\ price' = price /\ leader' = leader /\ rounds' = rounds
      /\ rounds = ResponseLimit \/ Settled(price, leader, candidates)
  BY DEF Return
<1> QED
  BY <1>1, SettledMeansNobody DEF LoopInv, StartOK, Explained, Paced, candidates

LEMMA StutterKeeps ==
  ASSUME LoopInv, UNCHANGED vars
  PROVE  LoopInv'
BY DEF vars, LoopInv, StartOK, Explained, Paced, candidates

LEMMA LoopInvHolds == Spec => []LoopInv
<1>1. Init => LoopInv
  <2> SUFFICES ASSUME Init PROVE LoopInv
    OBVIOUS
  <2>1. StartOK /\ start.price \in Nat
    BY StartIsOK, ResolveLoopAssumption DEF StartOK
  <2>2. price = start.price /\ rounds = 0 /\ ~returned
    BY DEF Init
  <2>3. Paced
    BY <2>1, <2>2, MinIncrementAssumption DEF Paced
  <2> QED
    BY <2>1, <2>2, <2>3 DEF LoopInv
<1>2. LoopInv /\ [Next]_vars => LoopInv'
  BY RespondKeeps, ReturnKeeps, StutterKeeps DEF Next
<1> QED
  BY <1>1, <1>2, PTL DEF Spec

-----------------------------------------------------------------------------
(***************************************************************************)
(* The number of responses of a call of resolveAutoBids is bounded by the  *)
(* distance the price travels: the progress argument of the loop guard's   *)
(* comment.                                                                *)
(***************************************************************************)
THEOREM ResponsesAreBounded == Spec => []RoundsBounded
<1>1. LoopInv => RoundsBounded
  <2> SUFFICES ASSUME LoopInv PROVE RoundsBounded
    OBVIOUS
  <2>1. /\ rounds \in Nat /\ price \in Nat /\ start.price \in Nat
        /\ MinIncrement \in Nat \ {0}
    BY ResolveLoopAssumption, MinIncrementAssumption DEF LoopInv, StartOK
  <2>2. (rounds - 1) * MinIncrement = rounds * MinIncrement - MinIncrement
    BY <2>1
  <2> QED
    BY <2>1, <2>2 DEF LoopInv, Paced, RoundsBounded
<1> QED
  BY <1>1, LoopInvHolds, PTL

(***************************************************************************)
(* A winner of resolveAutoBids who was raised pays at most one own step    *)
(* more than the start or another bidder's maximum required.               *)
(***************************************************************************)
THEOREM NobodyIsRaisedNeedlessly == Spec => []NoNeedlessRaise
<1>1. LoopInv => NoNeedlessRaise
  BY DEF LoopInv, Explained, NoNeedlessRaise
<1> QED
  BY <1>1, LoopInvHolds, PTL

(***************************************************************************)
(* A same-price handover is the last response of a call of                 *)
(* resolveAutoBids.                                                        *)
(***************************************************************************)
THEOREM HandoversAreFinal == Spec => HandoverIsFinal
<1> DEFINE Final == price' = price /\ leader' # leader => Settled(price', leader', candidates')
<1>1. LoopInv /\ [Next]_vars => [Final]_vars
  <2> SUFFICES ASSUME LoopInv, Next, price' = price, leader' # leader
               PROVE  Settled(price', leader', candidates')
    OBVIOUS
  <2>1. Respond
    BY DEF Next, Return
  <2>2. PICK c \in candidates :
           /\ IsNextCandidate(c, price, leader, candidates)
           /\ IsLegalResponse(c, price, leader, candidates)
           /\ price' = TargetAmount(c, price, leader, candidates)
           /\ leader' = c.bidder
    BY <2>1 DEF Respond
  <2>3. candidates' = candidates
    BY <2>1 DEF Respond, candidates
  <2>4. CanTakeTiePriority(c, price, leader, candidates)
    BY <2>2 DEF IsLegalResponse
  <2>5. Responders(price, c.bidder, candidates) = {}
    BY <2>2, <2>4, HandoverEndsResolution DEF LoopInv, StartOK, Rows, candidates
  <2> QED
    BY <2>2, <2>3, <2>5 DEF Settled
<1> QED
  BY <1>1, LoopInvHolds, PTL DEF Spec, HandoverIsFinal

\* The guard is not reached when no maximum is as far from the start as it covers.
LEMMA GuardNotReached ==
  ASSUME LoopInv, \A m \in Maxima : m - start.price < (ResponseLimit - 1) * MinIncrement
  PROVE  rounds # ResponseLimit
<1> SUFFICES ASSUME rounds = ResponseLimit PROVE FALSE
  OBVIOUS
<1>1. /\ rounds \in Nat \ {0} /\ price \in Nat
      /\ start.price \in Nat /\ MinIncrement \in Nat \ {0}
  BY ResolveLoopAssumption, MinIncrementAssumption DEF LoopInv, StartOK
<1>2. PICK w \in candidates : price <= w.max
  BY <1>1 DEF LoopInv, Explained
<1>3. w.max \in Maxima /\ w.max \in Nat
  BY ResolveLoopAssumption DEF LoopInv, StartOK, candidates
<1>4. (rounds - 1) * MinIncrement = rounds * MinIncrement - MinIncrement
  BY <1>1
<1>5. (rounds - 1) * MinIncrement <= price - start.price
  BY <1>1, <1>4 DEF LoopInv, Paced
<1>6. w.max - start.price < (rounds - 1) * MinIncrement
  BY <1>1, <1>3
<1> QED
  BY <1>1, <1>2, <1>3, <1>4, <1>5, <1>6

(***************************************************************************)
(* resolveAutoBids returns with a stable winner whenever the distance from *)
(* the price to any maximum is less than its guard of 10 000 responses     *)
(* covers: this is the exact sense in which "the guard should never be     *)
(* reached".                                                               *)
(***************************************************************************)
THEOREM StableWithinTheGuard ==
  ASSUME \A m \in Maxima, p \in Prices : m - p < (ResponseLimit - 1) * MinIncrement
  PROVE  Spec => []StableOnReturn
<1>1. LoopInv => StableOnReturn
  <2> SUFFICES ASSUME LoopInv, returned PROVE rounds # ResponseLimit
    BY DEF LoopInv, StableOnReturn
  <2>1. \A m \in Maxima : m - start.price < (ResponseLimit - 1) * MinIncrement
    BY DEF LoopInv, StartOK
  <2> QED
    BY <2>1, GuardNotReached
<1> QED
  BY <1>1, LoopInvHolds, PTL
=============================================================================
