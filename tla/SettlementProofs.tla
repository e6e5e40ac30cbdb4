-------------------------- MODULE SettlementProofs --------------------------
(***************************************************************************)
(* Theorems about Settlement.tla and SettlementPages.tla, for every set of *)
(* bidders, administrators and concurrent requests, every schedule and     *)
(* every bound.                                                            *)
(***************************************************************************)
EXTENDS SettlementPages, SequenceTheorems, TLAPS

-----------------------------------------------------------------------------
(***************************************************************************)
(* Rows of a table change one at a time.                                   *)
(***************************************************************************)
LEMMA RowReplaced ==
    ASSUME NEW S, NEW rows \in Seq(S), NEW k \in DOMAIN rows, NEW row \in S
    PROVE  /\ [rows EXCEPT ![k] = row] \in Seq(S)
           /\ DOMAIN [rows EXCEPT ![k] = row] = DOMAIN rows
           /\ Len([rows EXCEPT ![k] = row]) = Len(rows)
           /\ [rows EXCEPT ![k] = row][k] = row
           /\ \A j \in DOMAIN rows \ {k} : [rows EXCEPT ![k] = row][j] = rows[j]
<1>1. k \in 1 .. Len(rows)
  BY LenProperties
<1>2. [rows EXCEPT ![k] = row] \in Seq(S) /\ Len([rows EXCEPT ![k] = row]) = Len(rows)
  BY <1>1, ExceptSeq
<1> QED
  BY <1>2

LEMMA PaymentReplaced ==
    ASSUME payments \in Seq(Payments), NEW k \in DOMAIN payments,
           NEW s \in {"pending", "successful", "expired"},
           NEW e \in {"not_held", "held", "released"},
           payments' = [payments EXCEPT ![k].status = s, ![k].escrow = e]
    PROVE  /\ payments' \in Seq(Payments)
           /\ Len(payments') = Len(payments)
           /\ DOMAIN payments' = DOMAIN payments
           /\ payments'[k].status = s
           /\ payments'[k].escrow = e
           /\ \A j \in DOMAIN payments \ {k} : payments'[j] = payments[j]
<1>1. payments[k] \in Payments
  BY LenProperties, ElementOfSeq
<1>2. PICK row \in Payments : row = [payments[k] EXCEPT !.status = s, !.escrow = e]
  BY <1>1 DEF Payments
<1>3. row.status = s /\ row.escrow = e
  BY <1>1, <1>2 DEF Payments
<1>4. payments' = [payments EXCEPT ![k] = row]
  BY <1>1, <1>2
<1>5. /\ [payments EXCEPT ![k] = row] \in Seq(Payments)
      /\ DOMAIN [payments EXCEPT ![k] = row] = DOMAIN payments
      /\ Len([payments EXCEPT ![k] = row]) = Len(payments)
      /\ [payments EXCEPT ![k] = row][k] = row
      /\ \A j \in DOMAIN payments \ {k} :
            [payments EXCEPT ![k] = row][j] = payments[j]
  BY RowReplaced
<1> QED
  BY <1>3, <1>4, <1>5

LEMMA PaymentAppended ==
    ASSUME payments \in Seq(Payments), NEW row \in Payments,
           payments' = Append(payments, row)
    PROVE  /\ payments' \in Seq(Payments)
           /\ DOMAIN payments = 1 .. Len(payments)
           /\ DOMAIN payments' = 1 .. (Len(payments) + 1)
           /\ \A j \in DOMAIN payments : payments'[j] = payments[j]
           /\ payments'[Len(payments) + 1] = row
           /\ Len(payments) \in Nat
<1>1. /\ payments' \in Seq(Payments)
      /\ Len(payments') = Len(payments) + 1
      /\ \A j \in 1 .. Len(payments) : payments'[j] = payments[j]
      /\ payments'[Len(payments) + 1] = row
  BY AppendProperties
<1>2. /\ DOMAIN payments = 1 .. Len(payments)
      /\ DOMAIN payments' = 1 .. Len(payments')
      /\ Len(payments) \in Nat
  BY <1>1, LenProperties
<1> QED
  BY <1>1, <1>2

-----------------------------------------------------------------------------
(***************************************************************************)
(* Types.                                                                  *)
(***************************************************************************)
LEMMA TypesStep == TypeOK /\ [Next]_vars => TypeOK'
<1> SUFFICES ASSUME TypeOK, [Next]_vars PROVE TypeOK'
  OBVIOUS
<1> USE DEF NoReply, locked
<1>1. ASSUME NEW b \in Bidders, Bid(b) PROVE TypeOK'
  BY <1>1 DEF TypeOK, Bid, Listings
<1>2. ASSUME NEW force \in BOOLEAN, CloseEndedActiveListing(force) PROVE TypeOK'
  <2>1. CASE UNCHANGED payments /\ listing' = [status |-> "expired",
                                               winner |-> NoBidder]
    BY <1>2, <2>1 DEF TypeOK, CloseEndedActiveListing, Listings, Statuses
  <2>2. CASE OfferPayment
    <3>1. PICK b \in bidders :
             /\ listing' = [status |-> "sold", winner |-> b]
             /\ payments' = Append(payments,
                   [bidder |-> b, status |-> "pending",
                    escrow |-> "not_held", deadline |-> now + PayPeriod])
      BY <2>2 DEF OfferPayment
    <3>2. [bidder |-> b, status |-> "pending", escrow |-> "not_held",
           deadline |-> now + PayPeriod] \in Payments
      BY SettlementAssumption DEF TypeOK, Payments
    <3>3. payments' \in Seq(Payments) /\ DOMAIN payments \subseteq DOMAIN payments'
      BY <3>1, <3>2, PaymentAppended DEF TypeOK
    <3>4. listing' \in Listings
      BY <3>1 DEF TypeOK, Listings, Statuses
    <3> QED
      BY <1>2, <3>3, <3>4 DEF TypeOK, CloseEndedActiveListing
  <2> QED
    BY <1>2, <2>1, <2>2 DEF CloseEndedActiveListing
<1>3. CASE FindSold
  BY <1>3 DEF TypeOK, FindSold
<1>4. CASE ProcessOverduePayment
  <2>1. CASE UNCHANGED <<payments, listing>>
    BY <1>4, <2>1 DEF TypeOK, ProcessOverduePayment
  <2>2. ASSUME NEW k \in DOMAIN payments,
               payments' = [payments EXCEPT ![k].status = "expired",
                                            ![k].escrow = "not_held"],
               listing' = [status |-> "expired", winner |-> NoBidder]
        PROVE  TypeOK'
    <3>1. payments' \in Seq(Payments) /\ DOMAIN payments' = DOMAIN payments
      BY <2>2, PaymentReplaced DEF TypeOK
    <3> QED
      BY <1>4, <2>2, <3>1 DEF TypeOK, ProcessOverduePayment, Listings, Statuses
  <2> QED
    BY <1>4, <2>1, <2>2 DEF ProcessOverduePayment
<1>5. ASSUME NEW k \in DOMAIN payments, CompletePayment(k) PROVE TypeOK'
  <2>1. payments' \in Seq(Payments) /\ DOMAIN payments' = DOMAIN payments
    BY <1>5, PaymentReplaced DEF TypeOK, CompletePayment
  <2> QED
    BY <1>5, <2>1 DEF TypeOK, CompletePayment
<1>6. ASSUME NEW k \in DOMAIN payments, CompletePaymentLate(k) PROVE TypeOK'
  BY <1>6 DEF TypeOK, CompletePaymentLate
<1>7. ASSUME NEW k \in DOMAIN payments, RegenerateReceipt(k) PROVE TypeOK'
  BY <1>7 DEF TypeOK, RegenerateReceipt
<1>8. ASSUME NEW r \in Requests PROVE
         /\ \A op \in Ops : ReadListing(r, op) => TypeOK'
         /\ Statement(r) => TypeOK'
         /\ Fail(r) => TypeOK'
  <2>0. IdleRequest \in RequestStates /\ req[r] \in RequestStates
    BY DEF TypeOK, IdleRequest, RequestStates, Listings, Statuses, Deliveries,
           NoDelivery
  <2>1. ASSUME NEW op \in Ops, ReadListing(r, op) PROVE TypeOK'
    <3>1. [IdleRequest EXCEPT !.op = op, !.pc = NextStatement(op), !.row = listing]
             \in RequestStates
      BY SettlementAssumption
      DEF TypeOK, IdleRequest, RequestStates, NextStatement, Deliveries, NoDelivery
    <3>2. NextStatement(op) \notin {"write_delivery", "release"}
      BY DEF NextStatement
    <3> QED
      BY <2>1, <3>1, <3>2 DEF TypeOK, ReadListing, IdleRequest
  <2>2. CASE CheckPaymentHeld(r)
    BY <2>0, <2>2 DEF TypeOK, CheckPaymentHeld, IdleRequest, RequestStates
  <2>3. CASE GetDelivery(r)
    <3>1. ASSUME NEW i \in DOMAIN deliveries,
                 req' = [req EXCEPT ![r].pc = "write_delivery", ![r].id = i,
                                    ![r].delivery = deliveries[i]]
          PROVE  TypeOK'
      <4>1. i \in Nat /\ deliveries[i] \in Deliveries
        BY <3>1, LenProperties, ElementOfSeq DEF TypeOK
      <4>2. req' \in [Requests -> RequestStates]
        BY <3>1, <4>1, <2>0 DEF TypeOK, RequestStates
      <4> QED
        BY <2>3, <3>1, <4>2 DEF TypeOK, GetDelivery, RequestStates
    <3>2. CASE req' = [req EXCEPT ![r].pc = "add_delivery"]
      BY <2>0, <2>3, <3>2 DEF TypeOK, GetDelivery, RequestStates
    <3>3. CASE req' = [req EXCEPT ![r] = IdleRequest]
      BY <2>0, <2>3, <3>3 DEF TypeOK, GetDelivery, IdleRequest
    <3> QED
      BY <2>3, <3>1, <3>2, <3>3 DEF GetDelivery
  <2>4. CASE AddDelivery(r)
    <3>1. NoDelivery \in Deliveries
      BY DEF NoDelivery, Deliveries
    <3>2. /\ deliveries' \in Seq(Deliveries)
          /\ DOMAIN deliveries' = 1 .. (Len(deliveries) + 1)
          /\ DOMAIN deliveries = 1 .. Len(deliveries)
          /\ Len(deliveries) \in Nat
      BY <2>4, <3>1, AppendProperties, LenProperties DEF TypeOK, AddDelivery
    <3>3. req' \in [Requests -> RequestStates]
      <4>1. Len(deliveries) + 1 \in Nat
        BY <3>2
      <4>2. [req[r] EXCEPT !.pc = "write_delivery", !.id = Len(deliveries) + 1]
               \in RequestStates
        BY <2>0, <4>1 DEF RequestStates
      <4> QED
        BY <2>4, <4>2 DEF TypeOK, AddDelivery
    <3> QED
      BY <2>4, <3>2, <3>3 DEF TypeOK, AddDelivery, RequestStates
  <2>5. CASE UpdateDelivery(r)
    <3> DEFINE row == IF req[r].op = "ship"
                      THEN [req[r].delivery EXCEPT !.shipped = TRUE]
                      ELSE [req[r].delivery EXCEPT !.confirmed = TRUE]
    <3>1. row \in Deliveries
      BY <2>0 DEF RequestStates, Deliveries
    <3>2. req[r].id \in 1 .. Len(deliveries)
      BY <2>5, LenProperties DEF TypeOK, UpdateDelivery
    <3>3. deliveries' = [deliveries EXCEPT ![req[r].id] = row]
      BY <2>5 DEF UpdateDelivery
    <3> HIDE DEF row
    <3>4. deliveries' \in Seq(Deliveries) /\ DOMAIN deliveries' = DOMAIN deliveries
      BY <3>1, <3>2, <3>3, ExceptSeq, LenProperties DEF TypeOK
    <3>5. req' \in [Requests -> RequestStates]
      BY <2>0, <2>5 DEF TypeOK, UpdateDelivery, RequestStates, IdleRequest
    <3> QED
      BY <2>5, <3>4, <3>5 DEF TypeOK, UpdateDelivery, IdleRequest
  <2>6. CASE UpdateListing(r)
    <3>1. listing' \in Listings
      BY <2>0, <2>6 DEF UpdateListing, RequestStates, Listings, Statuses, StatusAfter
    <3>2. req' \in [Requests -> RequestStates]
      BY <2>0, <2>6 DEF TypeOK, UpdateListing, RequestStates, IdleRequest
    <3> QED
      BY <2>6, <3>1, <3>2 DEF TypeOK, UpdateListing, IdleRequest
  <2>7. CASE FindHeldPayment(r)
    <3>1. ASSUME NEW k \in DOMAIN payments,
                 req' = [req EXCEPT ![r].pc = "release", ![r].id = k]
          PROVE  TypeOK'
      <4>1. k \in Nat
        BY <3>1, LenProperties DEF TypeOK
      <4>2. req' \in [Requests -> RequestStates]
        BY <2>0, <3>1, <4>1 DEF TypeOK, RequestStates
      <4>3. /\ req'[r].pc = "release" /\ req'[r].id = k
            /\ \A x \in Requests \ {r} : req'[x] = req[x]
        BY <2>0, <3>1 DEF TypeOK, RequestStates
      <4>4. UNCHANGED <<listing, bidders, payments, receipts, deliveries, found, now>>
            /\ reply' = "none"
        BY <2>7 DEF FindHeldPayment
      <4> QED
        BY <4>2, <4>3, <4>4 DEF TypeOK
    <3>2. CASE req' = [req EXCEPT ![r] = IdleRequest]
      BY <2>0, <2>7, <3>2 DEF TypeOK, FindHeldPayment, IdleRequest
    <3> QED
      BY <2>7, <3>1, <3>2 DEF FindHeldPayment
  <2>8. CASE ReleaseEscrow(r)
    <3>1. req[r].id \in DOMAIN payments
      BY <2>8 DEF TypeOK, ReleaseEscrow
    <3>2. payments' \in Seq(Payments) /\ DOMAIN payments' = DOMAIN payments
      BY <2>8, <3>1, PaymentReplaced DEF TypeOK, ReleaseEscrow
    <3> QED
      BY <2>0, <2>8, <3>2 DEF TypeOK, ReleaseEscrow, IdleRequest
  <2>9. CASE Fail(r)
    BY <2>0, <2>9 DEF TypeOK, Fail, IdleRequest
  <2> QED
    BY <2>1, <2>2, <2>3, <2>4, <2>5, <2>6, <2>7, <2>8, <2>9 DEF Statement
<1>9. CASE Tick
  <2>1. now' \in Nat
    BY <1>9 DEF TypeOK, Tick
  <2> QED
    BY <1>9, <2>1 DEF TypeOK, Tick
<1>10. CASE UNCHANGED vars
  BY <1>10 DEF TypeOK, vars
<1> QED
  BY <1>1, <1>2, <1>3, <1>4, <1>5, <1>6, <1>7, <1>8, <1>9, <1>10 DEF Next

LEMMA InitTypes == Init => TypeOK
<1> SUFFICES ASSUME Init PROVE TypeOK
  OBVIOUS
<1>1. IdleRequest \in RequestStates
  BY DEF IdleRequest, RequestStates, Listings, Statuses, Deliveries, NoDelivery
<1>2. << >> \in Seq(Payments) /\ << >> \in Seq(Deliveries)
  BY EmptySeq
<1> QED
  BY <1>1, <1>2 DEF Init, TypeOK, Listings, Statuses, IdleRequest

(***************************************************************************)
(* Rows and requests keep their shape, and a request never writes a        *)
(* deliveries or payments row that does not exist.                         *)
(***************************************************************************)
THEOREM TypesCorrect == Spec => []TypeOK
  BY InitTypes, TypesStep, PTL DEF Spec

-----------------------------------------------------------------------------
(***************************************************************************)
(* Money.  MoneyAgrees is not inductive by itself: releasing escrow writes *)
(* a payments row read two statements before, and the invariant must say   *)
(* that what was found to be held has not become anything else since.      *)
(***************************************************************************)
FoundIsPaid ==
    \A r \in Requests :
        req[r].pc = "release" => payments[req[r].id].status = "successful"

MoneyInv == TypeOK /\ MoneyAgrees /\ FoundIsPaid

\* Row k becomes s/e, the other rows stay.
Becomes(k, s, e) ==
    /\ DOMAIN payments' = DOMAIN payments
    /\ payments'[k].status = s
    /\ payments'[k].escrow = e
    /\ \A j \in DOMAIN payments \ {k} : payments'[j] = payments[j]

(***************************************************************************)
(* What a step can do to the payments and receipts.                        *)
(***************************************************************************)
MoneyStep ==
    \/ UNCHANGED <<payments, receipts>>
    \/ /\ DOMAIN payments \subseteq DOMAIN payments'
       /\ \A j \in DOMAIN payments : payments'[j] = payments[j]
       /\ \A j \in DOMAIN payments' \ DOMAIN payments :
             /\ payments'[j].status = "pending"
             /\ payments'[j].escrow = "not_held"
       /\ UNCHANGED <<receipts, req>>
    \/ \E k \in DOMAIN payments :
          \/ /\ Pending(k)
             /\ Becomes(k, "expired", "not_held")
             /\ UNCHANGED <<receipts, req>>
          \/ /\ Pending(k)
             /\ Becomes(k, "successful", "held")
             /\ receipts' = receipts \cup {k}
             /\ UNCHANGED req
          \/ /\ payments[k].status = "successful"
             /\ Becomes(k, "successful", "released")
             /\ UNCHANGED receipts

LEMMA EveryStepIsAMoneyStep == MoneyInv /\ [Next]_vars => MoneyStep
<1> SUFFICES ASSUME MoneyInv, [Next]_vars PROVE MoneyStep
  OBVIOUS
<1> USE DEF locked
<1>1. ASSUME NEW b \in Bidders, Bid(b) PROVE MoneyStep
  BY <1>1 DEF MoneyStep, Bid
<1>2. ASSUME NEW force \in BOOLEAN, CloseEndedActiveListing(force) PROVE MoneyStep
  <2>1. CASE UNCHANGED payments
    BY <1>2, <2>1 DEF MoneyStep, CloseEndedActiveListing
  <2>2. CASE OfferPayment
    <3>1. PICK row : /\ row \in Payments
                     /\ row.status = "pending"
                     /\ row.escrow = "not_held"
                     /\ payments' = Append(payments, row)
      <4>1. PICK b \in bidders : payments' = Append(payments,
                   [bidder |-> b, status |-> "pending",
                    escrow |-> "not_held", deadline |-> now + PayPeriod])
        BY <2>2 DEF OfferPayment
      <4>2. now + PayPeriod \in Nat /\ b \in Bidders
        BY SettlementAssumption DEF MoneyInv, TypeOK
      <4> QED
        BY <4>1, <4>2 DEF Payments
    <3>2. /\ DOMAIN payments = 1 .. Len(payments)
          /\ DOMAIN payments' = 1 .. (Len(payments) + 1)
          /\ \A j \in DOMAIN payments : payments'[j] = payments[j]
          /\ payments'[Len(payments) + 1] = row
          /\ Len(payments) \in Nat
      BY <3>1, PaymentAppended DEF MoneyInv, TypeOK
    <3>3. \A j \in DOMAIN payments' \ DOMAIN payments : payments'[j] = row
      BY <3>2
    <3>4. DOMAIN payments \subseteq DOMAIN payments'
      BY <3>2
    <3> QED
      BY <1>2, <3>1, <3>2, <3>3, <3>4 DEF MoneyStep, CloseEndedActiveListing
  <2> QED
    BY <1>2, <2>1, <2>2 DEF CloseEndedActiveListing
<1>3. CASE FindSold
  BY <1>3 DEF MoneyStep, FindSold
<1>4. CASE ProcessOverduePayment
  <2>1. ASSUME NEW k \in DOMAIN payments, Pending(k),
               payments' = [payments EXCEPT ![k].status = "expired",
                                            ![k].escrow = "not_held"]
        PROVE  MoneyStep
    <3>1. Becomes(k, "expired", "not_held")
      BY <2>1, PaymentReplaced DEF MoneyInv, TypeOK, Becomes
    <3> QED
      BY <1>4, <2>1, <3>1 DEF MoneyStep, ProcessOverduePayment
  <2> QED
    BY <1>4, <2>1 DEF MoneyStep, ProcessOverduePayment
<1>5. ASSUME NEW k \in DOMAIN payments, CompletePayment(k) PROVE MoneyStep
  <2>1. Becomes(k, "successful", "held")
    BY <1>5, PaymentReplaced DEF MoneyInv, TypeOK, Becomes, CompletePayment
  <2> QED
    BY <1>5, <2>1 DEF MoneyStep, CompletePayment
<1>6. ASSUME NEW k \in DOMAIN payments, CompletePaymentLate(k) PROVE MoneyStep
  BY <1>6 DEF MoneyStep, CompletePaymentLate
<1>7. ASSUME NEW k \in DOMAIN payments, RegenerateReceipt(k) PROVE MoneyStep
  <2>1. payments[k] \in Payments
    BY ElementOfSeq, LenProperties DEF MoneyInv, TypeOK
  <2>2. k \in receipts
    BY <1>7, <2>1 DEF MoneyInv, MoneyAgrees, RegenerateReceipt, Payments
  <2> QED
    BY <1>7, <2>2 DEF MoneyStep, RegenerateReceipt
<1>8. ASSUME NEW r \in Requests, Statement(r) PROVE MoneyStep
  <2>1. CASE ReleaseEscrow(r)
    <3>1. req[r].id \in DOMAIN payments /\ payments[req[r].id].status = "successful"
      BY <2>1 DEF MoneyInv, TypeOK, FoundIsPaid, ReleaseEscrow
    <3>2. Becomes(req[r].id, "successful", "released")
      BY <2>1, <3>1, PaymentReplaced DEF MoneyInv, TypeOK, Becomes, ReleaseEscrow
    <3> QED
      BY <2>1, <3>1, <3>2 DEF MoneyStep, ReleaseEscrow
  <2>2. CASE ~ ReleaseEscrow(r)
    BY <1>8, <2>2 DEF MoneyStep, Statement, CheckPaymentHeld, GetDelivery,
         AddDelivery, UpdateDelivery, UpdateListing, FindHeldPayment
  <2> QED
    BY <2>1, <2>2
<1>9. ASSUME NEW r \in Requests PROVE
         /\ \A op \in Ops : ReadListing(r, op) => MoneyStep
         /\ Fail(r) => MoneyStep
  BY DEF MoneyStep, ReadListing, Fail
<1>10. CASE Tick
  BY <1>10 DEF MoneyStep, Tick
<1>11. CASE UNCHANGED vars
  BY <1>11 DEF MoneyStep, vars
<1> QED
  BY <1>1, <1>2, <1>3, <1>4, <1>5, <1>6, <1>7, <1>8, <1>9, <1>10, <1>11 DEF Next

LEMMA MoneyAgreesStep == MoneyInv /\ [Next]_vars => MoneyAgrees'
<1> SUFFICES ASSUME MoneyInv, [Next]_vars, NEW j \in DOMAIN payments'
             PROVE  /\ j \in receipts' <=> payments'[j].status = "successful"
                    /\ payments'[j].status = "successful" <=>
                           payments'[j].escrow # "not_held"
  BY DEF MoneyAgrees
<1>1. MoneyStep
  BY EveryStepIsAMoneyStep
<1>2. receipts \subseteq DOMAIN payments
  BY DEF MoneyInv, TypeOK
<1>3. CASE j \in DOMAIN payments
  BY <1>1, <1>3 DEF MoneyStep, MoneyInv, MoneyAgrees, Becomes, Pending
<1>4. CASE j \notin DOMAIN payments
  BY <1>1, <1>2, <1>4 DEF MoneyStep, Becomes
<1> QED
  BY <1>3, <1>4

\* A payment that was successful stays so, and released escrow is not held.
PaidStep ==
    \A k \in DOMAIN payments :
        payments[k].status = "successful" =>
            /\ k \in DOMAIN payments'
            /\ payments'[k].status = "successful"
            /\ payments[k].escrow = "released" => payments'[k].escrow = "released"

LEMMA EveryStepIsAPaidStep == MoneyInv /\ [Next]_vars => PaidStep
<1> SUFFICES ASSUME MoneyInv, [Next]_vars PROVE PaidStep
  OBVIOUS
<1>1. MoneyStep
  BY EveryStepIsAMoneyStep
<1> QED
  BY <1>1 DEF MoneyStep, PaidStep, Becomes, Pending

LEMMA FoundIsPaidStep == MoneyInv /\ [Next]_vars => FoundIsPaid'
<1> SUFFICES ASSUME MoneyInv, [Next]_vars, NEW x \in Requests,
                    req'[x].pc = "release"
             PROVE  payments'[req'[x].id].status = "successful"
  BY DEF FoundIsPaid
<1>1. PaidStep
  BY EveryStepIsAPaidStep
<1>2. CASE req'[x] = req[x]
  <2>1. /\ req[x].id \in DOMAIN payments
        /\ payments[req[x].id].status = "successful"
    BY <1>2 DEF MoneyInv, TypeOK, FoundIsPaid
  <2> QED
    BY <1>1, <1>2, <2>1 DEF PaidStep
<1>3. CASE req'[x] # req[x]
  <2>1. PICK r \in Requests : \/ \E op \in Ops : ReadListing(r, op)
                              \/ Statement(r)
                              \/ Fail(r)
    BY <1>3 DEF Next, vars, Bid, CloseEndedActiveListing, FindSold,
         ProcessOverduePayment, CompletePayment, CompletePaymentLate,
         RegenerateReceipt, Tick
  <2>2. r = x /\ req[x] \in RequestStates
    BY <1>3, <2>1 DEF MoneyInv, TypeOK, ReadListing, Statement, Fail,
         CheckPaymentHeld, GetDelivery, AddDelivery, UpdateDelivery,
         UpdateListing, FindHeldPayment, ReleaseEscrow
  <2>3. FindHeldPayment(x)
    <3>1. req \in [Requests -> RequestStates]
      BY DEF MoneyInv, TypeOK
    <3>2. ASSUME NEW op \in Ops PROVE ~ ReadListing(x, op)
      BY <3>1 DEF ReadListing, IdleRequest, NextStatement
    <3>3. ~ Fail(x) /\ ~ ReleaseEscrow(x)
      BY <3>1 DEF Fail, ReleaseEscrow, IdleRequest
    <3>4. ~ CheckPaymentHeld(x)
      BY <2>2, <3>1 DEF CheckPaymentHeld, IdleRequest, RequestStates
    <3>5. ~ GetDelivery(x)
      <4>1. ASSUME GetDelivery(x)
            PROVE  \/ \E i \in DOMAIN deliveries :
                         req' = [req EXCEPT ![x].pc = "write_delivery", ![x].id = i,
                                            ![x].delivery = deliveries[i]]
                   \/ req' = [req EXCEPT ![x].pc = "add_delivery"]
                   \/ req' = [req EXCEPT ![x] = IdleRequest]
        BY <4>1, Zenon DEF GetDelivery
      <4>2. IdleRequest.pc = "idle"
        BY DEF IdleRequest
      <4>3. x \in DOMAIN req /\ "pc" \in DOMAIN req[x]
        BY <2>2, <3>1 DEF RequestStates
      <4>4. ASSUME GetDelivery(x)
            PROVE  req'[x].pc \in {"write_delivery", "add_delivery", "idle"}
        <5> HIDE DEF IdleRequest
        <5>1. ASSUME NEW i, req' = [req EXCEPT ![x].pc = "write_delivery", ![x].id = i,
                                               ![x].delivery = deliveries[i]]
              PROVE  req'[x].pc = "write_delivery"
          BY <4>3, <5>1
        <5>2. ASSUME req' = [req EXCEPT ![x].pc = "add_delivery"]
              PROVE  req'[x].pc = "add_delivery"
          BY <4>3, <5>2
        <5>3. ASSUME req' = [req EXCEPT ![x] = IdleRequest]
              PROVE  req'[x].pc = "idle"
          BY <4>2, <4>3, <5>3
        <5> QED
          BY <4>1, <4>4, <5>1, <5>2, <5>3
      <4> QED
        BY <4>4
    <3>6. ~ AddDelivery(x)
      BY <2>2, <3>1 DEF AddDelivery, RequestStates
    <3>7. ~ UpdateDelivery(x) /\ ~ UpdateListing(x)
      <4>1. ASSUME NEW op, NEW row
            PROVE  /\ [IdleRequest EXCEPT !.op = op, !.pc = "write_listing",
                                          !.row = row].pc # "release"
                   /\ [IdleRequest EXCEPT !.op = op,
                                !.pc = "find_held_payment"].pc # "release"
                   /\ IdleRequest.pc # "release"
        BY DEF IdleRequest
      <4>2. ASSUME NEW q, req' = [req EXCEPT ![x] = q]
            PROVE  req'[x] = q
        BY <3>1, <4>2
      <4>3. CASE UpdateDelivery(x)
        <5> DEFINE q == [IdleRequest EXCEPT !.op = req[x].op,
                               !.pc = "write_listing", !.row = req[x].row]
        <5>1. req' = [req EXCEPT ![x] = q]
          BY <4>3, Zenon DEF UpdateDelivery
        <5>2. q.pc # "release"
          BY <4>1
        <5> HIDE DEF q
        <5> QED
          BY <4>2, <5>1, <5>2
      <4>4. CASE UpdateListing(x)
        BY <4>1, <4>2, <4>4 DEF UpdateListing
      <4> QED
        BY <4>3, <4>4
    <3> QED
      BY <2>1, <2>2, <3>2, <3>3, <3>4, <3>5, <3>6, <3>7 DEF Statement
  <2>4. PICK k \in DOMAIN payments :
           Held(k) /\ req' = [req EXCEPT ![x].pc = "release", ![x].id = k]
    BY <2>3 DEF FindHeldPayment, IdleRequest, MoneyInv, TypeOK
  <2>5. req'[x].id = k /\ UNCHANGED payments
    BY <2>2, <2>3, <2>4 DEF MoneyInv, TypeOK, RequestStates, FindHeldPayment, locked
  <2> QED
    BY <2>4, <2>5 DEF MoneyInv, MoneyAgrees, Held
<1> QED
  BY <1>2, <1>3

LEMMA MoneyInvariant == Spec => []MoneyInv
<1>1. Init => MoneyInv
  BY InitTypes DEF Init, MoneyInv, MoneyAgrees, FoundIsPaid, IdleRequest
<1>2. MoneyInv /\ [Next]_vars => MoneyInv'
  BY TypesStep, MoneyAgreesStep, FoundIsPaidStep DEF MoneyInv
<1> QED
  BY <1>1, <1>2, PTL DEF Spec

(***************************************************************************)
(* A receipt exists exactly for a successful payment, whose money is in    *)
(* escrow or released: at any moment of any interleaving of the payment    *)
(* requests, the deadline worker, shipping, confirming, editing and        *)
(* cancelling, and after any failure in them.                              *)
(***************************************************************************)
THEOREM MoneyAlwaysAgrees == Spec => []MoneyAgrees
<1>1. MoneyInv => MoneyAgrees
  BY DEF MoneyInv
<1> QED
  BY <1>1, MoneyInvariant, PTL

(***************************************************************************)
(* Money that came in is never taken back, nor is escrow un-released.      *)
(***************************************************************************)
THEOREM PaidPaymentsStayPaid == Spec => PaidStaysPaid
<1>1. MoneyInv /\ [Next]_vars =>
         [\A k \in DOMAIN payments :
             payments[k].status = "successful" =>
                 /\ payments'[k].status = "successful"
                 /\ payments[k].escrow = "released" =>
                        payments'[k].escrow = "released"]_vars
  BY EveryStepIsAPaidStep DEF PaidStep
<1> QED
  BY <1>1, MoneyInvariant, PTL DEF Spec, PaidStaysPaid

-----------------------------------------------------------------------------
(***************************************************************************)
(* When no listing is edited or cancelled during its settlement, it has at *)
(* most one payment; a request that goes on to ship or to confirm has seen *)
(* that payment made, or a parcel that was only registered after it.       *)
(***************************************************************************)
Paid == \E k \in DOMAIN payments : payments[k].status = "successful"

SoldOK ==
    /\ DOMAIN payments \subseteq {1}
    /\ listing.status = "active" => DOMAIN payments = {}
    /\ Paid => listing.status \in {"sold", "shipped", "delivered"}

ShippedOK ==
    listing.status \in {"shipped", "delivered"} \/ deliveries # << >> => Paid

RequestOK(r) ==
    /\ req[r].pc # "idle" => req[r].op \in {"ship", "confirm"}
    /\ req[r].pc \in {"add_delivery", "write_delivery", "write_listing"} => Paid
    /\ req[r].pc = "get_delivery" /\ req[r].op = "ship" => Paid

SoldInv ==
    /\ MoneyInv
    /\ SoldOK
    /\ ShippedOK
    /\ \A r \in Requests : RequestOK(r)

LEMMA PaidForGood == MoneyInv /\ [Next]_vars => (Paid => Paid')
  BY EveryStepIsAPaidStep DEF PaidStep, Paid

\* What the steps of a request do to the request itself.
LEMMA RequestStep ==
    ASSUME SoldInv, [Next]_vars, Ops \subseteq {"ship", "confirm"},
           NEW r \in Requests,
           (\E op \in Ops : ReadListing(r, op)) \/ Statement(r) \/ Fail(r)
    PROVE  RequestOK(r)' /\ \A x \in Requests \ {r} : req'[x] = req[x]
<1>1. req \in [Requests -> RequestStates] /\ req[r] \in RequestStates
  BY DEF SoldInv, MoneyInv, TypeOK
<1>2. /\ RequestOK(r)
      /\ Paid => Paid'
      /\ deliveries # << >> => Paid
  BY PaidForGood DEF SoldInv, ShippedOK
<1>3. ASSUME NEW q, req' = [req EXCEPT ![r] = q]
      PROVE  req'[r] = q /\ \A x \in Requests \ {r} : req'[x] = req[x]
  BY <1>1, <1>3
<1>4. IdleRequest.pc = "idle"
  BY DEF IdleRequest
<1>5. CASE req' = [req EXCEPT ![r] = IdleRequest]
  BY <1>3, <1>4, <1>5 DEF RequestOK
<1>6. ASSUME NEW op \in Ops, ReadListing(r, op)
      PROVE  RequestOK(r)' /\ \A x \in Requests \ {r} : req'[x] = req[x]
  <2> DEFINE q == [IdleRequest EXCEPT !.op = op, !.pc = NextStatement(op),
                                      !.row = listing]
  <2>1. /\ q.op = op
        /\ q.pc = NextStatement(op)
    BY DEF IdleRequest
  <2>2. req' = [req EXCEPT ![r] = q]
    BY <1>6, Zenon DEF ReadListing
  <2> HIDE DEF q
  <2>3. req'[r] = q /\ \A x \in Requests \ {r} : req'[x] = req[x]
    BY <1>3, <2>2
  <2> QED
    BY <2>1, <2>3 DEF RequestOK, NextStatement
<1>7. CASE CheckPaymentHeld(r)
  <2>1. CASE \E k \in DOMAIN payments : Held(k)
    <3>1. Paid
      BY <2>1 DEF SoldInv, MoneyInv, MoneyAgrees, Held, Paid
    <3>2. req' = [req EXCEPT ![r].pc = "get_delivery"]
      BY <1>7, <2>1 DEF CheckPaymentHeld
    <3>3. /\ req'[r].pc = "get_delivery" /\ req'[r].op = req[r].op
          /\ \A x \in Requests \ {r} : req'[x] = req[x]
      BY <3>2, <1>1 DEF RequestStates
    <3>4. req[r].op \in {"ship", "confirm"}
      BY <1>2, <1>7 DEF RequestOK, CheckPaymentHeld
    <3> QED
      BY <1>2, <3>1, <3>3, <3>4 DEF RequestOK
  <2> QED
    BY <1>5, <1>7, <2>1 DEF CheckPaymentHeld
<1>8. CASE GetDelivery(r)
  <2>1. req[r].op \in {"ship", "confirm"}
    BY <1>2, <1>8 DEF RequestOK, GetDelivery
  <2>2. ASSUME NEW i \in DOMAIN deliveries,
               req' = [req EXCEPT ![r].pc = "write_delivery", ![r].id = i,
                                  ![r].delivery = deliveries[i]]
        PROVE  RequestOK(r)' /\ \A x \in Requests \ {r} : req'[x] = req[x]
    <3>1. Paid
      BY <1>2, <2>2
    <3>2. /\ req'[r].pc = "write_delivery" /\ req'[r].op = req[r].op
          /\ \A x \in Requests \ {r} : req'[x] = req[x]
      BY <1>1, <2>2 DEF RequestStates
    <3> QED
      BY <1>2, <2>1, <3>1, <3>2 DEF RequestOK
  <2>3. CASE req[r].op = "ship" /\ req' = [req EXCEPT ![r].pc = "add_delivery"]
    <3>1. Paid
      BY <1>2, <1>8, <2>3 DEF RequestOK, GetDelivery
    <3>2. /\ req'[r].pc = "add_delivery" /\ req'[r].op = req[r].op
          /\ \A x \in Requests \ {r} : req'[x] = req[x]
      BY <1>1, <2>3 DEF RequestStates
    <3> QED
      BY <1>2, <2>1, <3>1, <3>2 DEF RequestOK
  <2> QED
    BY <1>5, <1>8, <2>2, <2>3 DEF GetDelivery
<1>9. CASE AddDelivery(r)
  <2>1. Paid /\ req[r].op \in {"ship", "confirm"}
    BY <1>2, <1>9 DEF RequestOK, AddDelivery
  <2>2. /\ req'[r].pc = "write_delivery" /\ req'[r].op = req[r].op
        /\ \A x \in Requests \ {r} : req'[x] = req[x]
    BY <1>1, <1>9 DEF RequestStates, AddDelivery
  <2> QED
    BY <1>2, <2>1, <2>2 DEF RequestOK
<1>10. CASE UpdateDelivery(r)
  <2> DEFINE q == [IdleRequest EXCEPT !.op = req[r].op, !.pc = "write_listing",
                                      !.row = req[r].row]
  <2>1. q.op = req[r].op /\ q.pc = "write_listing"
    BY DEF IdleRequest
  <2>2. req' = [req EXCEPT ![r] = q]
    BY <1>10, Zenon DEF UpdateDelivery
  <2> HIDE DEF q
  <2>3. req'[r] = q /\ \A x \in Requests \ {r} : req'[x] = req[x]
    BY <1>3, <2>2
  <2>4. Paid /\ req[r].op \in {"ship", "confirm"}
    BY <1>2, <1>10 DEF RequestOK, UpdateDelivery
  <2> QED
    BY <1>2, <2>1, <2>3, <2>4 DEF RequestOK
<1>11. CASE UpdateListing(r)
  <2> DEFINE q == [IdleRequest EXCEPT !.op = "confirm",
                                      !.pc = "find_held_payment"]
  <2>1. q.op = "confirm" /\ q.pc = "find_held_payment"
    BY DEF IdleRequest
  <2>2. CASE req' = [req EXCEPT ![r] = q]
    <3> HIDE DEF q
    <3>1. req'[r] = q /\ \A x \in Requests \ {r} : req'[x] = req[x]
      BY <1>3, <2>2
    <3> QED
      BY <2>1, <3>1 DEF RequestOK
  <2> QED
    BY <1>5, <1>11, <2>2 DEF UpdateListing
<1>12. CASE FindHeldPayment(r)
  <2>1. req[r].op \in {"ship", "confirm"}
    BY <1>2, <1>12 DEF RequestOK, FindHeldPayment
  <2>2. ASSUME NEW k \in DOMAIN payments,
               req' = [req EXCEPT ![r].pc = "release", ![r].id = k]
        PROVE  RequestOK(r)' /\ \A x \in Requests \ {r} : req'[x] = req[x]
    <3>1. /\ req'[r].pc = "release" /\ req'[r].op = req[r].op
          /\ \A x \in Requests \ {r} : req'[x] = req[x]
      BY <1>1, <2>2 DEF RequestStates
    <3> QED
      BY <2>1, <3>1 DEF RequestOK
  <2> QED
    BY <1>5, <1>12, <2>2 DEF FindHeldPayment
<1>13. CASE ReleaseEscrow(r) \/ Fail(r)
  BY <1>5, <1>13 DEF ReleaseEscrow, Fail
<1> QED
  BY <1>6, <1>7, <1>8, <1>9, <1>10, <1>11, <1>12, <1>13 DEF Statement

LEMMA RequestsStep ==
    ASSUME SoldInv, [Next]_vars, Ops \subseteq {"ship", "confirm"},
           NEW x \in Requests
    PROVE  RequestOK(x)'
<1>1. RequestOK(x) /\ (Paid => Paid')
  BY PaidForGood DEF SoldInv
<1>2. CASE req'[x] = req[x]
  BY <1>1, <1>2 DEF RequestOK
<1>3. CASE req'[x] # req[x]
  <2>1. PICK r \in Requests : \/ \E op \in Ops : ReadListing(r, op)
                              \/ Statement(r)
                              \/ Fail(r)
    BY <1>3 DEF Next, vars, Bid, CloseEndedActiveListing, FindSold,
         ProcessOverduePayment, CompletePayment, CompletePaymentLate,
         RegenerateReceipt, Tick
  <2>2. RequestOK(r)' /\ \A y \in Requests \ {r} : req'[y] = req[y]
    BY <2>1, RequestStep
  <2> QED
    BY <1>3, <2>2
<1> QED
  BY <1>2, <1>3

LEMMA SoldStep ==
    ASSUME SoldInv, [Next]_vars, Ops \subseteq {"ship", "confirm"}
    PROVE  SoldOK' /\ ShippedOK'
<1> USE DEF SoldInv, SoldOK, ShippedOK
<1>1. TypeOK /\ (Paid => Paid')
  BY PaidForGood DEF MoneyInv
<1>2. ASSUME UNCHANGED <<payments, listing, deliveries>>
      PROVE  SoldOK' /\ ShippedOK'
  BY <1>2 DEF Paid
<1>3. ASSUME NEW b \in Bidders, Bid(b) PROVE SoldOK' /\ ShippedOK'
  <2>1. listing'.status = "active" /\ UNCHANGED <<payments, deliveries>>
    BY <1>1, <1>3 DEF TypeOK, Listings, Bid
  <2> QED
    BY <1>3, <2>1 DEF Paid, Bid
<1>4. ASSUME NEW force \in BOOLEAN, CloseEndedActiveListing(force)
      PROVE  SoldOK' /\ ShippedOK'
  <2>1. ~ Paid /\ deliveries' = << >> /\ DOMAIN payments = {}
    BY <1>4 DEF CloseEndedActiveListing, Paid
  <2>2. CASE listing' = [status |-> "expired", winner |-> NoBidder]
             /\ UNCHANGED payments
    BY <2>1, <2>2 DEF Paid
  <2>3. CASE OfferPayment
    <3>1. PICK b \in bidders :
             /\ listing' = [status |-> "sold", winner |-> b]
             /\ payments' = Append(payments,
                   [bidder |-> b, status |-> "pending", escrow |-> "not_held",
                    deadline |-> now + PayPeriod])
      BY <2>3 DEF OfferPayment
    <3> DEFINE row == [bidder |-> b, status |-> "pending", escrow |-> "not_held",
                       deadline |-> now + PayPeriod]
    <3>2. row \in Payments /\ row.status = "pending"
      BY <1>1, SettlementAssumption DEF TypeOK, Payments
    <3>3. payments' = Append(payments, row)
      BY <3>1
    <3> HIDE DEF row
    <3>4. /\ DOMAIN payments = 1 .. Len(payments)
          /\ DOMAIN payments' = 1 .. (Len(payments) + 1)
          /\ payments'[Len(payments) + 1] = row
          /\ Len(payments) \in Nat
      BY <1>1, <3>2, <3>3, AppendProperties, LenProperties DEF TypeOK
    <3>5. Len(payments) = 0
      BY <2>1, <3>4
    <3>6. DOMAIN payments' = {1} /\ payments'[1].status = "pending"
      BY <3>2, <3>4, <3>5
    <3> QED
      BY <2>1, <3>1, <3>6 DEF Paid
  <2> QED
    BY <1>4, <2>2, <2>3 DEF CloseEndedActiveListing
<1>5. CASE ProcessOverduePayment
  <2>1. CASE UNCHANGED <<payments, listing>>
    BY <1>2, <1>5, <2>1 DEF ProcessOverduePayment
  <2>2. ASSUME NEW k \in DOMAIN payments, Pending(k),
               payments' = [payments EXCEPT ![k].status = "expired",
                                            ![k].escrow = "not_held"],
               listing' = [status |-> "expired", winner |-> NoBidder]
        PROVE  SoldOK' /\ ShippedOK'
    <3>1. DOMAIN payments' = DOMAIN payments /\ payments'[k].status = "expired"
      BY <1>1, <2>2, PaymentReplaced DEF TypeOK
    <3>2. DOMAIN payments = {k} /\ UNCHANGED deliveries
      BY <1>5, <2>2 DEF ProcessOverduePayment
    <3>3. ~ Paid /\ ~ Paid'
      BY <2>2, <3>1, <3>2 DEF Paid, Pending
    <3> QED
      BY <2>2, <3>1, <3>2, <3>3
  <2> QED
    BY <1>5, <2>1, <2>2 DEF ProcessOverduePayment
<1>6. ASSUME NEW k \in DOMAIN payments, CompletePayment(k)
      PROVE  SoldOK' /\ ShippedOK'
  <2>1. DOMAIN payments' = DOMAIN payments
    BY <1>1, <1>6, PaymentReplaced DEF TypeOK, CompletePayment
  <2>2. listing.status = "sold" /\ UNCHANGED <<listing, deliveries>>
    BY <1>6 DEF CompletePayment
  <2> QED
    BY <1>1, <2>1, <2>2
<1>7. ASSUME NEW r \in Requests, AddDelivery(r) PROVE SoldOK' /\ ShippedOK'
  <2>1. Paid /\ UNCHANGED <<listing, payments>>
    BY <1>7 DEF RequestOK, AddDelivery, locked
  <2> QED
    BY <1>1, <2>1
<1>8. ASSUME NEW r \in Requests, UpdateDelivery(r) PROVE SoldOK' /\ ShippedOK'
  <2>1. Paid /\ UNCHANGED <<listing, payments>>
    BY <1>8 DEF RequestOK, UpdateDelivery, locked
  <2> QED
    BY <1>1, <2>1
<1>9. ASSUME NEW r \in Requests, UpdateListing(r) PROVE SoldOK' /\ ShippedOK'
  <2>1. Paid /\ UNCHANGED <<payments, deliveries>>
    BY <1>9 DEF RequestOK, UpdateListing
  <2>2. req[r].op \in {"ship", "confirm"} /\ req[r].row \in Listings
    BY <1>1, <1>9 DEF RequestOK, UpdateListing, TypeOK, RequestStates
  <2>3. listing'.status = StatusAfter(req[r])
    BY <1>9, <2>2 DEF UpdateListing, Listings
  <2>4. listing'.status \in {"shipped", "delivered"}
    BY <2>2, <2>3 DEF StatusAfter
  <2> QED
    BY <1>1, <2>1, <2>4
<1>10. ASSUME NEW r \in Requests, ReleaseEscrow(r) PROVE SoldOK' /\ ShippedOK'
  <2>1. req[r].id \in DOMAIN payments /\ payments[req[r].id].status = "successful"
    BY <1>10 DEF ReleaseEscrow, MoneyInv, TypeOK, FoundIsPaid
  <2>2. Paid
    BY <2>1 DEF Paid
  <2>3. DOMAIN payments' = DOMAIN payments /\ UNCHANGED <<listing, deliveries>>
    BY <1>1, <1>10, <2>1, PaymentReplaced DEF TypeOK, ReleaseEscrow
  <2> QED
    BY <1>1, <2>2, <2>3
<1>11. CASE UNCHANGED <<payments, listing, deliveries>>
  BY <1>2, <1>11
<1> QED
  <2>1. CASE UNCHANGED vars
    BY <1>11, <2>1 DEF vars
  <2>2. ASSUME NEW r \in Requests,
               (\E op \in Ops : ReadListing(r, op)) \/ Statement(r) \/ Fail(r)
        PROVE  SoldOK' /\ ShippedOK'
    BY <1>7, <1>8, <1>9, <1>10, <1>11, <2>2 DEF Statement, ReadListing, Fail,
         CheckPaymentHeld, GetDelivery, FindHeldPayment, locked
  <2>3. ASSUME NEW k \in DOMAIN payments,
               CompletePaymentLate(k) \/ RegenerateReceipt(k)
        PROVE  SoldOK' /\ ShippedOK'
    BY <1>11, <2>3 DEF CompletePaymentLate, RegenerateReceipt, locked
  <2>4. CASE FindSold \/ Tick
    BY <1>11, <2>4 DEF FindSold, Tick, locked
  <2> QED
    BY <1>3, <1>4, <1>5, <1>6, <2>1, <2>2, <2>3, <2>4, Zenon DEF Next

LEMMA SoldInvariant ==
    ASSUME Ops \subseteq {"ship", "confirm"}
    PROVE  Spec => []SoldInv
<1>1. Init => SoldInv
  <2> SUFFICES ASSUME Init PROVE SoldInv
    OBVIOUS
  <2>1. MoneyInv
    BY InitTypes DEF Init, MoneyInv, MoneyAgrees, FoundIsPaid, IdleRequest
  <2>2. SoldOK /\ ShippedOK
    BY DEF Init, SoldOK, ShippedOK, Paid
  <2>3. ASSUME NEW r \in Requests PROVE RequestOK(r)
    BY DEF Init, RequestOK, IdleRequest
  <2> QED
    BY <2>1, <2>2, <2>3 DEF SoldInv
<1>2. SoldInv /\ [Next]_vars => SoldInv'
  <2> SUFFICES ASSUME SoldInv, [Next]_vars PROVE SoldInv'
    OBVIOUS
  <2>1. MoneyInv'
    BY TypesStep, MoneyAgreesStep, FoundIsPaidStep DEF SoldInv, MoneyInv
  <2>2. SoldOK' /\ ShippedOK'
    BY SoldStep
  <2>3. ASSUME NEW r \in Requests PROVE RequestOK(r)'
    BY RequestsStep
  <2> QED
    BY <2>1, <2>2, <2>3 DEF SoldInv
<1> QED
  BY <1>1, <1>2, PTL DEF Spec

(***************************************************************************)
(* As long as its listing is not edited or cancelled, an item that is paid *)
(* for stays sold, shipped or delivered, and no other offer for it is open *)
(* or paid: the deadline worker and the payer never both win.              *)
(***************************************************************************)
THEOREM PaidItemIsSoldOnlyOnce ==
    ASSUME Ops \subseteq {"ship", "confirm"}
    PROVE  Spec => []PaidItemIsSoldOnce
<1>1. SoldInv => PaidItemIsSoldOnce
  BY DEF SoldInv, SoldOK, Paid, PaidItemIsSoldOnce
<1> QED
  BY <1>1, SoldInvariant, PTL

(***************************************************************************)
(* As long as its listing is not edited or cancelled, no item is shipped   *)
(* or delivered, and no parcel is recorded, without a successful payment.  *)
(***************************************************************************)
THEOREM NothingShippedUnpaid ==
    ASSUME Ops \subseteq {"ship", "confirm"}
    PROVE  Spec => []ShippedOnlyAfterPayment
<1>1. SoldInv => ShippedOnlyAfterPayment
  BY DEF SoldInv, ShippedOK, Paid, ShippedOnlyAfterPayment
<1> QED
  BY <1>1, SoldInvariant, PTL

-----------------------------------------------------------------------------
(***************************************************************************)
(* The pages (SettlementPages.tla).  Each shows a different piece of the   *)
(* rows; that the pieces leave nobody without a button needs the order in  *)
(* which shipping and confirming write them: the delivery row before the   *)
(* listing, the listing before the money.  A parcel once marked stays      *)
(* marked as shipped or as confirmed, although a request may write a row   *)
(* back as it was before the other mark was made.                          *)
(***************************************************************************)
Handled == \E i \in DOMAIN deliveries :
              deliveries[i].shipped \/ deliveries[i].confirmed
Sent == listing.status \in {"shipped", "delivered"}

PendingOK ==
    \A k \in DOMAIN payments :
        Pending(k) => listing = [status |-> "sold", winner |-> payments[k].bidder]

ReleasedOK == \A k \in DOMAIN payments : payments[k].escrow = "released" => Sent

SenderOK(r) ==
    /\ req[r].pc = "write_listing" => Handled
    /\ req[r].pc \in {"find_held_payment", "release"} => Sent

PageInv ==
    /\ PendingOK
    /\ ReleasedOK
    /\ Sent => Handled
    /\ \A r \in Requests : SenderOK(r)

LEMMA UpdateHandles ==
    ASSUME TypeOK, NEW r \in Requests, UpdateDelivery(r),
           req[r].op \in {"ship", "confirm"}
    PROVE  Handled'
<1> DEFINE i == req[r].id
           row == IF req[r].op = "ship"
                  THEN [req[r].delivery EXCEPT !.shipped = TRUE]
                  ELSE [req[r].delivery EXCEPT !.confirmed = TRUE]
<1>1. i \in DOMAIN deliveries /\ deliveries' = [deliveries EXCEPT ![i] = row]
  BY DEF UpdateDelivery, TypeOK
<1>2. req[r].delivery \in Deliveries
  BY DEF TypeOK, RequestStates
<1>3. row \in Deliveries /\ (row.shipped \/ row.confirmed)
  <2>1. CASE req[r].op = "ship"
    BY <1>2, <2>1 DEF Deliveries
  <2>2. CASE req[r].op # "ship"
    BY <1>2, <2>2 DEF Deliveries
  <2> QED
    BY <2>1, <2>2
<1> HIDE DEF i, row
<1>4. DOMAIN deliveries' = DOMAIN deliveries /\ deliveries'[i] = row
  BY <1>1
<1> QED
  BY <1>1, <1>3, <1>4 DEF Handled

LEMMA AddKeepsHandled ==
    ASSUME TypeOK, NEW r \in Requests, AddDelivery(r), Handled
    PROVE  Handled'
<1>1. PICK i \in DOMAIN deliveries : deliveries[i].shipped \/ deliveries[i].confirmed
  BY DEF Handled
<1>2. NoDelivery \in Deliveries /\ deliveries \in Seq(Deliveries)
      /\ deliveries' = Append(deliveries, NoDelivery)
  BY DEF NoDelivery, Deliveries, AddDelivery, TypeOK
<1>3. i \in DOMAIN deliveries' /\ deliveries'[i] = deliveries[i]
  BY <1>2, AppendProperties, LenProperties
<1> QED
  BY <1>1, <1>3 DEF Handled

\* Who writes the deliveries, the listing and the payments.
LEMMA Writers ==
    ASSUME [Next]_vars
    PROVE  /\ deliveries' # deliveries =>
                 \E r \in Requests : AddDelivery(r) \/ UpdateDelivery(r)
           /\ \/ UNCHANGED <<listing, payments>>
              \/ \E b \in Bidders : Bid(b)
              \/ \E force \in BOOLEAN : CloseEndedActiveListing(force)
              \/ ProcessOverduePayment
              \/ \E k \in DOMAIN payments : CompletePayment(k)
              \/ \E r \in Requests : UpdateListing(r) \/ ReleaseEscrow(r)
BY DEF Next, vars, Bid, CloseEndedActiveListing, FindSold, ProcessOverduePayment,
       CompletePayment, CompletePaymentLate, RegenerateReceipt, ReadListing,
       Statement, CheckPaymentHeld, GetDelivery, AddDelivery, UpdateDelivery,
       UpdateListing, FindHeldPayment, ReleaseEscrow, Fail, Tick, locked

LEMMA HandledForGood ==
    ASSUME SoldInv, [Next]_vars, Handled
    PROVE  Handled'
<1>1. TypeOK /\ \A r \in Requests : RequestOK(r)
  BY DEF SoldInv, MoneyInv
<1>2. CASE UNCHANGED deliveries
  BY <1>2 DEF Handled
<1>3. ASSUME NEW r \in Requests, AddDelivery(r) PROVE Handled'
  BY <1>1, <1>3, AddKeepsHandled
<1>4. ASSUME NEW r \in Requests, UpdateDelivery(r) PROVE Handled'
  <2>1. req[r].op \in {"ship", "confirm"}
    BY <1>1, <1>4 DEF RequestOK, UpdateDelivery
  <2> QED
    BY <1>1, <1>4, <2>1, UpdateHandles
<1> QED
  BY <1>2, <1>3, <1>4, Writers

LEMMA UpdateSends ==
    ASSUME SoldInv, NEW r \in Requests, UpdateListing(r)
    PROVE  Sent' /\ Paid /\ UNCHANGED payments /\ req[r].pc = "write_listing"
<1>1. /\ Paid /\ UNCHANGED payments /\ req[r].pc = "write_listing"
      /\ req[r].op \in {"ship", "confirm"} /\ req[r].row \in Listings
  BY DEF SoldInv, RequestOK, UpdateListing, MoneyInv, TypeOK, RequestStates
<1>2. listing'.status = StatusAfter(req[r])
  BY <1>1 DEF UpdateListing, Listings
<1> QED
  BY <1>1, <1>2 DEF StatusAfter, Sent

LEMMA SentForGood ==
    ASSUME SoldInv, [Next]_vars, Sent
    PROVE  Sent'
<1>1. /\ listing.status # "active" /\ Paid
      /\ \A k \in DOMAIN payments : ~ Pending(k)
  BY DEF SoldInv, ShippedOK, SoldOK, Sent, Paid, Pending
<1>2. CASE UNCHANGED listing
  BY <1>2 DEF Sent
<1>3. ASSUME NEW r \in Requests, UpdateListing(r) PROVE Sent'
  BY <1>3, UpdateSends
<1> QED
  BY <1>1, <1>2, <1>3, Writers
     DEF Bid, CloseEndedActiveListing, ProcessOverduePayment, CompletePayment,
         ReleaseEscrow

LEMMA SenderStep ==
    ASSUME SoldInv, PageInv, [Next]_vars, Ops \subseteq {"ship", "confirm"},
           NEW r \in Requests,
           (\E op \in Ops : ReadListing(r, op)) \/ Statement(r) \/ Fail(r)
    PROVE  SenderOK(r)'
<1>1. req \in [Requests -> RequestStates] /\ req[r] \in RequestStates /\ TypeOK
  BY DEF SoldInv, MoneyInv, TypeOK
<1>2. SenderOK(r) /\ RequestOK(r)
  BY DEF PageInv, SoldInv
<1>3. ASSUME NEW q, req' = [req EXCEPT ![r] = q] PROVE req'[r] = q
  BY <1>1, <1>3
<1>4. IdleRequest.pc = "idle"
  BY DEF IdleRequest
<1>5. CASE req' = [req EXCEPT ![r] = IdleRequest]
  BY <1>3, <1>4, <1>5 DEF SenderOK
<1>6. ASSUME NEW op \in Ops, ReadListing(r, op) PROVE SenderOK(r)'
  <2> DEFINE q == [IdleRequest EXCEPT !.op = op, !.pc = NextStatement(op),
                                      !.row = listing]
  <2>1. q.pc = NextStatement(op)
    BY DEF IdleRequest
  <2>2. req' = [req EXCEPT ![r] = q]
    BY <1>6, Zenon DEF ReadListing
  <2> HIDE DEF q
  <2> QED
    BY <1>3, <2>1, <2>2 DEF SenderOK, NextStatement
<1>7. ASSUME NEW pc, pc \in {"get_delivery", "add_delivery", "write_delivery"},
             req'[r].pc = pc
      PROVE  SenderOK(r)'
  BY <1>7 DEF SenderOK
<1>8. CASE CheckPaymentHeld(r)
  <2>1. CASE req' = [req EXCEPT ![r].pc = "get_delivery"]
    <3>1. req'[r].pc = "get_delivery"
      BY <1>1, <2>1 DEF RequestStates
    <3> QED
      BY <1>7, <3>1
  <2> QED
    BY <1>5, <1>8, <2>1 DEF CheckPaymentHeld
<1>9. CASE GetDelivery(r)
  <2>1. ASSUME NEW i \in DOMAIN deliveries,
               req' = [req EXCEPT ![r].pc = "write_delivery", ![r].id = i,
                                  ![r].delivery = deliveries[i]]
        PROVE  SenderOK(r)'
    <3>1. req'[r].pc = "write_delivery"
      BY <1>1, <2>1 DEF RequestStates
    <3> QED
      BY <1>7, <3>1
  <2>2. CASE req' = [req EXCEPT ![r].pc = "add_delivery"]
    <3>1. req'[r].pc = "add_delivery"
      BY <1>1, <2>2 DEF RequestStates
    <3> QED
      BY <1>7, <3>1
  <2> QED
    BY <1>5, <1>9, <2>1, <2>2 DEF GetDelivery
<1>10. CASE AddDelivery(r)
  <2>1. req'[r].pc = "write_delivery"
    BY <1>1, <1>10 DEF RequestStates, AddDelivery
  <2> QED
    BY <1>7, <2>1
<1>11. CASE UpdateDelivery(r)
  <2> DEFINE q == [IdleRequest EXCEPT !.op = req[r].op, !.pc = "write_listing",
                                      !.row = req[r].row]
  <2>1. q.pc = "write_listing"
    BY DEF IdleRequest
  <2>2. req' = [req EXCEPT ![r] = q]
    BY <1>11, Zenon DEF UpdateDelivery
  <2> HIDE DEF q
  <2>3. req'[r].pc = "write_listing"
    BY <1>3, <2>1, <2>2
  <2>4. Handled'
    <3>1. req[r].op \in {"ship", "confirm"}
      BY <1>2, <1>11 DEF RequestOK, UpdateDelivery
    <3> QED
      BY <1>1, <1>11, <3>1, UpdateHandles
  <2> QED
    BY <2>3, <2>4 DEF SenderOK
<1>12. CASE UpdateListing(r)
  <2> DEFINE q == [IdleRequest EXCEPT !.op = "confirm", !.pc = "find_held_payment"]
  <2>1. q.pc = "find_held_payment"
    BY DEF IdleRequest
  <2>2. CASE req' = [req EXCEPT ![r] = q]
    <3> HIDE DEF q
    <3>1. req'[r].pc = "find_held_payment"
      BY <1>3, <2>1, <2>2
    <3> QED
      BY <1>12, <3>1, UpdateSends DEF SenderOK
  <2> QED
    BY <1>5, <1>12, <2>2 DEF UpdateListing
<1>13. CASE FindHeldPayment(r)
  <2>1. Sent /\ UNCHANGED listing
    BY <1>2, <1>13 DEF SenderOK, FindHeldPayment, locked
  <2>2. Sent'
    BY <2>1 DEF Sent
  <2>3. ASSUME NEW k \in DOMAIN payments,
               req' = [req EXCEPT ![r].pc = "release", ![r].id = k]
        PROVE  SenderOK(r)'
    <3>1. req'[r].pc = "release"
      BY <1>1, <2>3 DEF RequestStates
    <3> QED
      BY <2>2, <3>1 DEF SenderOK
  <2> QED
    BY <1>5, <1>13, <2>3 DEF FindHeldPayment
<1>14. CASE ReleaseEscrow(r) \/ Fail(r)
  BY <1>5, <1>14 DEF ReleaseEscrow, Fail
<1> QED
  BY <1>6, <1>8, <1>9, <1>10, <1>11, <1>12, <1>13, <1>14 DEF Statement

LEMMA SendersStep ==
    ASSUME SoldInv, PageInv, [Next]_vars, Ops \subseteq {"ship", "confirm"},
           NEW x \in Requests
    PROVE  SenderOK(x)'
<1>1. CASE req'[x] = req[x]
  <2>1. SenderOK(x) /\ (Handled => Handled') /\ (Sent => Sent')
    BY HandledForGood, SentForGood DEF PageInv
  <2> QED
    BY <1>1, <2>1 DEF SenderOK
<1>2. CASE req'[x] # req[x]
  <2>1. PICK r \in Requests : \/ \E op \in Ops : ReadListing(r, op)
                              \/ Statement(r)
                              \/ Fail(r)
    BY <1>2 DEF Next, vars, Bid, CloseEndedActiveListing, FindSold,
         ProcessOverduePayment, CompletePayment, CompletePaymentLate,
         RegenerateReceipt, Tick
  <2>2. SenderOK(r)' /\ \A y \in Requests \ {r} : req'[y] = req[y]
    BY <2>1, RequestStep, SenderStep
  <2> QED
    BY <1>2, <2>2
<1> QED
  BY <1>1, <1>2

LEMMA RowsStep ==
    ASSUME SoldInv, PageInv, [Next]_vars
    PROVE  PendingOK' /\ ReleasedOK' /\ (Sent' => Handled')
<1> USE DEF PageInv
<1>1. /\ TypeOK /\ MoneyAgrees /\ SoldOK /\ ShippedOK
      /\ (Handled => Handled') /\ (Sent => Sent')
  BY HandledForGood, SentForGood DEF SoldInv, MoneyInv
<1>2. CASE UNCHANGED <<listing, payments>>
  BY <1>1, <1>2 DEF PendingOK, ReleasedOK, Sent, Pending
<1>3. ASSUME NEW b \in Bidders, Bid(b)
      PROVE  PendingOK' /\ ReleasedOK' /\ (Sent' => Handled')
  <2>1. listing'.status = "active" /\ payments' = payments /\ DOMAIN payments = {}
    BY <1>1, <1>3 DEF Bid, TypeOK, Listings, SoldOK
  <2> QED
    BY <2>1 DEF PendingOK, ReleasedOK, Sent
<1>4. ASSUME NEW force \in BOOLEAN, CloseEndedActiveListing(force)
      PROVE  PendingOK' /\ ReleasedOK' /\ (Sent' => Handled')
  <2>1. DOMAIN payments = {}
    BY <1>1, <1>4 DEF CloseEndedActiveListing, SoldOK
  <2>2. CASE UNCHANGED payments /\ listing' = [status |-> "expired",
                                               winner |-> NoBidder]
    BY <2>1, <2>2 DEF PendingOK, ReleasedOK, Sent
  <2>3. CASE OfferPayment
    <3>1. PICK b \in bidders :
             /\ listing' = [status |-> "sold", winner |-> b]
             /\ payments' = Append(payments,
                   [bidder |-> b, status |-> "pending", escrow |-> "not_held",
                    deadline |-> now + PayPeriod])
      BY <2>3 DEF OfferPayment
    <3> DEFINE row == [bidder |-> b, status |-> "pending", escrow |-> "not_held",
                       deadline |-> now + PayPeriod]
    <3>2. row \in Payments /\ row.bidder = b /\ row.escrow = "not_held"
      BY <1>1, SettlementAssumption DEF TypeOK, Payments
    <3>3. payments' = Append(payments, row)
      BY <3>1
    <3> HIDE DEF row
    <3>4. /\ DOMAIN payments' = 1 .. (Len(payments) + 1)
          /\ payments'[Len(payments) + 1] = row
          /\ Len(payments) \in Nat
          /\ DOMAIN payments = 1 .. Len(payments)
      BY <1>1, <3>2, <3>3, PaymentAppended DEF TypeOK
    <3>5. DOMAIN payments' = {1} /\ payments'[1] = row
      BY <2>1, <3>4
    <3> QED
      BY <3>1, <3>2, <3>5 DEF PendingOK, ReleasedOK, Sent
  <2> QED
    BY <1>4, <2>2, <2>3 DEF CloseEndedActiveListing
<1>5. CASE ProcessOverduePayment
  <2>1. ASSUME NEW k \in DOMAIN payments, Pending(k),
               payments' = [payments EXCEPT ![k].status = "expired",
                                            ![k].escrow = "not_held"],
               listing' = [status |-> "expired", winner |-> NoBidder]
        PROVE  PendingOK' /\ ReleasedOK' /\ (Sent' => Handled')
    <3>1. /\ DOMAIN payments' = DOMAIN payments
          /\ payments'[k].status = "expired" /\ payments'[k].escrow = "not_held"
      BY <1>1, <2>1, PaymentReplaced DEF TypeOK
    <3>2. DOMAIN payments = {k}
      BY <1>1, <2>1 DEF SoldOK
    <3> QED
      BY <2>1, <3>1, <3>2 DEF PendingOK, ReleasedOK, Sent, Pending
  <2> QED
    BY <1>2, <1>5, <2>1 DEF ProcessOverduePayment
<1>6. ASSUME NEW k \in DOMAIN payments, CompletePayment(k)
      PROVE  PendingOK' /\ ReleasedOK' /\ (Sent' => Handled')
  <2>1. /\ DOMAIN payments' = DOMAIN payments
        /\ payments'[k].status = "successful" /\ payments'[k].escrow = "held"
    BY <1>1, <1>6, PaymentReplaced DEF TypeOK, CompletePayment
  <2>2. /\ listing' = listing /\ listing.status = "sold"
        /\ DOMAIN payments = {k}
    BY <1>1, <1>6 DEF CompletePayment, SoldOK
  <2> QED
    BY <2>1, <2>2 DEF PendingOK, ReleasedOK, Sent, Pending
<1>7. ASSUME NEW r \in Requests, UpdateListing(r)
      PROVE  PendingOK' /\ ReleasedOK' /\ (Sent' => Handled')
  <2>1. Sent' /\ Paid /\ UNCHANGED payments /\ req[r].pc = "write_listing"
    BY <1>7, UpdateSends
  <2>2. \A k \in DOMAIN payments : ~ Pending(k)
    BY <1>1, <2>1 DEF SoldOK, Paid, Pending
  <2>3. Handled'
    BY <1>1, <2>1 DEF SenderOK
  <2> QED
    BY <2>1, <2>2, <2>3 DEF PendingOK, ReleasedOK, Pending
<1>8. ASSUME NEW r \in Requests, ReleaseEscrow(r)
      PROVE  PendingOK' /\ ReleasedOK' /\ (Sent' => Handled')
  <2>1. /\ req[r].id \in DOMAIN payments /\ Sent /\ UNCHANGED listing
    BY <1>1, <1>8 DEF ReleaseEscrow, TypeOK, SenderOK
  <2>2. /\ DOMAIN payments' = DOMAIN payments
        /\ payments'[req[r].id].status = "successful"
    BY <1>1, <1>8, <2>1, PaymentReplaced DEF TypeOK, ReleaseEscrow
  <2>3. DOMAIN payments = {req[r].id} /\ Sent'
    BY <1>1, <2>1 DEF SoldOK
  <2>4. Handled'
    BY <1>1, <2>1
  <2> QED
    BY <2>2, <2>3, <2>4 DEF PendingOK, ReleasedOK, Pending
<1> QED
  BY <1>2, <1>3, <1>4, <1>5, <1>6, <1>7, <1>8, Writers

(***************************************************************************)
(* As long as the listing is not edited or cancelled: an offer the winner  *)
(* is asked to pay is accepted when he pays; money in escrow has a button  *)
(* with which the donor ships or the winner confirms, unless a             *)
(* confirmation stopped half-way; nobody is shown as waiting for a payment *)
(* that was made; and a linked receipt exists.  For any number of requests *)
(* that race and stop after any statement.                                 *)
(***************************************************************************)
THEOREM NoMoneyIsStranded ==
    ASSUME Ops \subseteq {"ship", "confirm"}
    PROVE  Spec => []MoneyIsNeverStranded
<1>1. Init => PageInv
  BY DEF Init, PageInv, PendingOK, ReleasedOK, Sent, SenderOK, IdleRequest
<1>2. SoldInv /\ PageInv /\ [Next]_vars => PageInv'
  BY RowsStep, SendersStep DEF PageInv
<1>3. ASSUME SoldInv, PageInv,
             NEW k \in DOMAIN payments, NEW delivery \in DeliveryRead
      PROVE  LET donor == DonorView(delivery) IN
             /\ PayNow(k, now) =>
                   /\ listing = [status |-> "sold", winner |-> payments[k].bidder]
                   /\ k \notin receipts
             /\ Held(k) /\ ~ Confirmed => ReadyToShip(donor) \/ ItemReceived(k)
             /\ AwaitingPayment(donor) => ~ ReceiptLink(k)
             /\ ReceiptLink(k) => ReceiptFound(k)
  <2>1. /\ TypeOK /\ MoneyAgrees /\ SoldOK /\ ShippedOK
        /\ PendingOK /\ ReleasedOK /\ (Sent => Handled)
    BY <1>3 DEF SoldInv, MoneyInv, PageInv
  <2>2. PayNow(k, now) =>
           /\ listing = [status |-> "sold", winner |-> payments[k].bidder]
           /\ k \notin receipts
    BY <2>1 DEF PayNow, PendingOK, Pending, MoneyAgrees
  <2>3. /\ ReceiptLink(k) => payments[k].status = "successful"
        /\ ReceiptLink(k) => ReceiptFound(k)
    BY <2>1 DEF ReceiptLink, HistoryStatus, ReceiptFound, MoneyAgrees
  <2>4. payments[k].status = "successful" =>
           /\ listing.status = "sold" \/ Sent
           /\ Held(k) \/ payments[k].escrow = "released"
    <3>1. payments[k] \in Payments
      BY <1>3, <2>1, LenProperties, ElementOfSeq DEF TypeOK
    <3>2. payments[k].escrow \in {"not_held", "held", "released"}
      BY <3>1 DEF Payments
    <3> QED
      BY <2>1, <3>2 DEF SoldOK, Paid, Sent, MoneyAgrees, Held
  <2>5. /\ DonorView(delivery).sold = (listing.status = "sold")
        /\ DonorView(delivery).can_ship =
              (listing.status = "sold" /\ IsHeld /\ ~ delivery.shipped)
        /\ DonorView(delivery).payment_held = (listing.status = "sold" /\ IsHeld)
        /\ DonorView(delivery).has_shipped =
              (listing.status = "sold" /\ delivery.shipped)
    BY DEF DonorView
  <2>6. ASSUME AwaitingPayment(DonorView(delivery)), ReceiptLink(k) PROVE FALSE
    <3>1. listing.status = "sold" /\ ~ IsHeld
      BY <2>5, <2>6 DEF AwaitingPayment
    <3>2. payments[k].escrow = "released"
      BY <2>3, <2>4, <2>6, <3>1 DEF IsHeld
    <3> QED
      BY <2>1, <3>1, <3>2 DEF ReleasedOK, Sent
  <2>7. ASSUME Held(k), ~ Confirmed, ~ ItemReceived(k)
        PROVE  ReadyToShip(DonorView(delivery))
    <3>1. /\ \A i \in DOMAIN deliveries :
                ~ deliveries[i].shipped /\ ~ deliveries[i].confirmed
      <4>1. ASSUME NEW i \in DOMAIN deliveries
            PROVE  ~ deliveries[i].shipped /\ ~ deliveries[i].confirmed
        <5>1. deliveries[i] \in PaymentRows(k)
          BY <4>1 DEF PaymentRows
        <5> QED
          BY <2>7, <5>1 DEF ItemReceived, Confirmed
      <4> QED
        BY <4>1
    <3>2. ~ delivery.shipped
      BY <3>1 DEF DeliveryRead, NoDelivery
    <3>3. listing.status = "sold" /\ IsHeld
      BY <2>1, <2>4, <2>7, <3>1 DEF Handled, IsHeld, MoneyAgrees, Held
    <3> QED
      BY <2>5, <3>2, <3>3 DEF ReadyToShip
  <2> QED
    BY <2>2, <2>3, <2>6, <2>7
<1>4. SoldInv /\ PageInv => MoneyIsNeverStranded
  BY <1>3 DEF MoneyIsNeverStranded
<1> QED
  BY <1>1, <1>2, <1>4, SoldInvariant, PTL DEF Spec
=============================================================================
