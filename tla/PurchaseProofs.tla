--------------------------- MODULE PurchaseProofs ---------------------------
(***************************************************************************)
(* Settlement implements Purchase, and a success is never left open, for   *)
(* any carts, orders, ids and polls.                                       *)
(***************************************************************************)
EXTENDS SettlementProofs

\* What the variables of Purchase stand for.
phaseNow == [c \in Carts |-> Phase(status[c])]
paymentNow == [c \in Carts |-> IdOf(SettledPayments(c))]
refundNow == [c \in Carts |-> IdOf(Refunds(c))]

LEMMA SaleSteps ==
  /\ Sale!Next <=> \E c \in Carts :
       \/ Sale!Hold(c)
       \/ Sale!Void(c)
       \/ \E id \in Ids : Sale!Sell(c, id) \/ Sale!Refund(c, id)
  /\ \A c : Sale!Hold(c) <=>
       /\ phaseNow[c] = "open"
       /\ phaseNow' = [phaseNow EXCEPT ![c] = "held"]
       /\ UNCHANGED <<paymentNow, refundNow>>
  /\ \A c : Sale!Void(c) <=>
       /\ phaseNow[c] = "open"
       /\ phaseNow' = [phaseNow EXCEPT ![c] = "void"]
       /\ UNCHANGED <<paymentNow, refundNow>>
  /\ \A c, id : Sale!Sell(c, id) <=>
       /\ phaseNow[c] \in {"open", "held"}
       /\ \A d \in Carts : paymentNow[d] # id /\ refundNow[d] # id
       /\ phaseNow' = [phaseNow EXCEPT ![c] = "sold"]
       /\ paymentNow' = [paymentNow EXCEPT ![c] = id]
       /\ UNCHANGED refundNow
  /\ \A c, id : Sale!Refund(c, id) <=>
       /\ phaseNow[c] \in {"held", "sold"}
       /\ \A d \in Carts : paymentNow[d] # id /\ refundNow[d] # id
       /\ phaseNow' = [phaseNow EXCEPT ![c] = "refunded"]
       /\ refundNow' = [refundNow EXCEPT ![c] = id]
       /\ UNCHANGED paymentNow
  /\ UNCHANGED Sale!vars <=> UNCHANGED <<phaseNow, paymentNow, refundNow>>
  <1>1. Sale!Next <=> \E c \in Carts :
       \/ Sale!Hold(c)
       \/ Sale!Void(c)
       \/ \E id \in Ids : Sale!Sell(c, id) \/ Sale!Refund(c, id)
    BY DEF Sale!Next
  <1> QED
    BY <1>1 DEF Sale!Hold, Sale!Void, Sale!Sell, Sale!Refund, Sale!Unused, Sale!vars,
       phaseNow, paymentNow, refundNow

LEMMA Phases ==
  /\ \A s \in Open : Phase(s) = "open"
  /\ Phase("unreconciled") = "held" /\ Phase("paid") = "sold" /\ Phase("refunded") = "refunded"
  /\ Phase("cancelled") = "void" /\ Phase("closed") = "void"
  BY DEF Phase, Open

\* The id of no row, and of one.
LEMMA IdOfRows ==
  /\ IdOf({}) = NoId
  /\ \A t : IdOf({t}) = t.id
  <1>1. ASSUME NEW t
        PROVE  IdOf({t}) = t.id
    <2>1. (CHOOSE u \in {t} : TRUE) = t
      OBVIOUS
    <2> QED
      BY <2>1 DEF IdOf
  <1> QED
    BY <1>1 DEF IdOf

\* The id a cart is sold or refunded under is on record, so one that is not,
\* or is of a row of neither kind, is unused.
LEMMA UnusedId ==
  ASSUME NEW id \in Ids,
         \A t \in transactions : t.id = id => t.type = "payment" /\ ~t.settled
  PROVE  \A d \in Carts : paymentNow[d] # id /\ refundNow[d] # id
  <1> TAKE d \in Carts
  <1>1. id # NoId
    BY SettlementAssumption
  <1>2. ASSUME NEW rows, \A t \in rows : t.id # id
        PROVE  IdOf(rows) # id
    <2>1. CASE rows = {}
      BY <1>1, <2>1, IdOfRows
    <2>2. CASE rows # {}
      <3>1. (CHOOSE t \in rows : TRUE) \in rows
        BY <2>2
      <3> QED
        BY <1>2, <2>2, <3>1 DEF IdOf
    <2> QED
      BY <2>1, <2>2
  <1>3. \A t \in SettledPayments(d) : t.id # id
    BY DEF SettledPayments
  <1>4. \A t \in Refunds(d) : t.id # id
    BY DEF Refunds
  <1>5. IdOf(SettledPayments(d)) # id
    BY <1>2, <1>3
  <1>6. IdOf(Refunds(d)) # id
    BY <1>2, <1>4
  <1> QED
    BY <1>5, <1>6 DEF paymentNow, refundNow

\* A step that settles and refunds nothing leaves both ids.
LEMMA IdsKept ==
  ASSUME \A c \in Carts : SettledPayments(c)' = SettledPayments(c) /\ Refunds(c)' = Refunds(c)
  PROVE  UNCHANGED <<paymentNow, refundNow>>
  <1>1. \A c \in Carts : IdOf(SettledPayments(c))' = IdOf(SettledPayments(c))
    OBVIOUS
  <1>2. \A c \in Carts : IdOf(Refunds(c))' = IdOf(Refunds(c))
    OBVIOUS
  <1> QED
    BY <1>1, <1>2 DEF paymentNow, refundNow

-----------------------------------------------------------------------------
(***************************************************************************)
(* The steps of Settlement, as steps of Purchase.                          *)
(***************************************************************************)
LEMMA UnmovedStep ==
  ASSUME UNCHANGED status,
         \A c \in Carts : SettledPayments(c)' = SettledPayments(c) /\ Refunds(c)' = Refunds(c)
  PROVE  [Sale!Next]_Sale!vars
  BY IdsKept, SaleSteps DEF phaseNow

LEMMA MoveStep ==
  ASSUME BooksInv, UNCHANGED transactions, NEW c \in Carts, NEW new,
         status' = [status EXCEPT ![c] = new],
         CanMove(status[c], new), new \notin {"paid", "refunded"}
  PROVE  [Sale!Next]_Sale!vars
  <1>1. status \in [Carts -> Statuses]
    BY DEF BooksInv, TypeOK
  <1>2. UNCHANGED <<paymentNow, refundNow>>
    BY IdsKept DEF SettledPayments, Refunds
  <1>3. /\ status[c] \in Open
        /\ new \in Open \cup {"unreconciled", "cancelled", "closed"}
    BY DEF CanMove, StatusTransitions, Open
  <1>4. phaseNow[c] = "open" /\ phaseNow' = [phaseNow EXCEPT ![c] = Phase(new)]
    BY <1>1, <1>3, Phases DEF phaseNow
  <1>5. CASE new \in Open
    <2>1. UNCHANGED phaseNow
      BY <1>4, <1>5, Phases DEF phaseNow
    <2> QED
      BY <1>2, <2>1, SaleSteps
  <1>6. CASE new = "unreconciled"
    <2>1. Sale!Hold(c)
      BY <1>2, <1>4, <1>6, Phases, SaleSteps
    <2> QED
      BY <2>1, SaleSteps
  <1>7. CASE new \in {"cancelled", "closed"}
    <2>1. Sale!Void(c)
      BY <1>2, <1>4, <1>7, Phases, SaleSteps
    <2> QED
      BY <2>1, SaleSteps
  <1> QED
    BY <1>3, <1>5, <1>6, <1>7

LEMMA MoveIfUnmovedStep ==
  ASSUME BooksInv, UNCHANGED transactions, NEW c \in Carts, NEW seen,
         NEW new \in {"payment_pending", "cancelled", "closed", "expired", "unreconciled"},
         ChangeStatusIfUnmoved(c, seen, new)
  PROVE  [Sale!Next]_Sale!vars
  <1>1. CASE Moves(c, seen, new)
    BY <1>1, MoveStep DEF ChangeStatusIfUnmoved, Moves
  <1>2. CASE ~Moves(c, seen, new)
    BY <1>2, UnmovedStep DEF ChangeStatusIfUnmoved, SettledPayments, Refunds
  <1> QED
    BY <1>1, <1>2

\* A cart not sold yet has nothing to its name; one sold under a payment has it.
LEMMA SellStep ==
  ASSUME BooksInv, NEW c \in Carts, NEW id \in Ids,
         status[c] \in Settleable \cup {"unreconciled"},
         status' = [status EXCEPT ![c] = "paid"],
         \A t \in transactions : t.id = id => t.cart = c /\ t.type = "payment",
         transactions' = {t \in transactions : t.id # id} \cup {Row(c, id, "payment", TRUE)}
  PROVE  [Sale!Next]_Sale!vars
  <1>1. status \in [Carts -> Statuses]
    BY DEF BooksInv, TypeOK
  <1>2. Unsold(c) /\ status[c] \in Open \cup {"unreconciled"}
    BY DEF Unsold, Settleable, Open
  <1>3. SettledPayments(c) = {}
    BY <1>2, UnsoldIsBlank
  <1>4. \A t \in transactions : t.id = id => t.type = "payment" /\ ~t.settled
    BY <1>3 DEF SettledPayments, BooksInv, TypeOK, Transactions
  <1>0. PICK r : r = Row(c, id, "payment", TRUE)
    OBVIOUS
  <1>5. r.cart = c /\ r.id = id /\ r.type = "payment" /\ r.settled = TRUE
    BY <1>0 DEF Row
  <1>6. SettledPayments(c)' = {r}
    BY <1>0, <1>3, <1>5 DEF SettledPayments
  <1>7. \A d \in Carts \ {c} : SettledPayments(d)' = SettledPayments(d)
    BY <1>0, <1>5 DEF SettledPayments
  <1>8. \A d \in Carts : Refunds(d)' = Refunds(d)
    BY <1>0, <1>5 DEF Refunds
  <1>9. IdOf(SettledPayments(c))' = id
    BY <1>5, <1>6, IdOfRows
  <1>10. \A d \in Carts \ {c} : IdOf(SettledPayments(d))' = IdOf(SettledPayments(d))
    BY <1>7
  <1>11. paymentNow' = [paymentNow EXCEPT ![c] = id]
    BY <1>9, <1>10 DEF paymentNow
  <1>12. UNCHANGED refundNow
    <2>1. \A d \in Carts : IdOf(Refunds(d))' = IdOf(Refunds(d))
      BY <1>8
    <2> QED
      BY <2>1 DEF refundNow
  <1>13. phaseNow[c] \in {"open", "held"} /\ phaseNow' = [phaseNow EXCEPT ![c] = "sold"]
    BY <1>1, <1>2, Phases DEF phaseNow
  <1>14. Sale!Sell(c, id)
    BY <1>4, <1>11, <1>12, <1>13, UnusedId, SaleSteps
  <1> QED
    BY <1>14, SaleSteps

LEMMA RefundStep ==
  ASSUME BooksInv, NEW c \in Carts, NEW id \in Ids, RecordRefund(c, id)
  PROVE  [Sale!Next]_Sale!vars
  <1>1. status \in [Carts -> Statuses]
    BY DEF BooksInv, TypeOK
  <1>2. /\ status[c] \in {"paid", "unreconciled"} /\ status' = [status EXCEPT ![c] = "refunded"]
        /\ \A t \in transactions : t.id # id
        /\ transactions' = transactions \cup {Row(c, id, "refund", TRUE)}
    BY DEF RecordRefund, Lock, Recorded, ChangeStatus
  <1>3. Refunds(c) = {}
    BY <1>2 DEF Refunds, BooksInv, OneRefund
  <1>0. PICK r : r = Row(c, id, "refund", TRUE)
    OBVIOUS
  <1>4. r.cart = c /\ r.id = id /\ r.type = "refund"
    BY <1>0 DEF Row
  <1>5. Refunds(c)' = {r}
    BY <1>0, <1>2, <1>3, <1>4 DEF Refunds
  <1>6. \A d \in Carts \ {c} : Refunds(d)' = Refunds(d)
    BY <1>0, <1>2, <1>4 DEF Refunds
  <1>7. \A d \in Carts : SettledPayments(d)' = SettledPayments(d)
    BY <1>0, <1>2, <1>4 DEF SettledPayments
  <1>8. IdOf(Refunds(c))' = id
    BY <1>4, <1>5, IdOfRows
  <1>9. \A d \in Carts \ {c} : IdOf(Refunds(d))' = IdOf(Refunds(d))
    BY <1>6
  <1>10. refundNow' = [refundNow EXCEPT ![c] = id]
    BY <1>8, <1>9 DEF refundNow
  <1>11. UNCHANGED paymentNow
    <2>1. \A d \in Carts : IdOf(SettledPayments(d))' = IdOf(SettledPayments(d))
      BY <1>7
    <2> QED
      BY <2>1 DEF paymentNow
  <1>12. phaseNow[c] \in {"held", "sold"} /\ phaseNow' = [phaseNow EXCEPT ![c] = "refunded"]
    BY <1>1, <1>2, Phases DEF phaseNow
  <1>13. Sale!Refund(c, id)
    BY <1>2, <1>10, <1>11, <1>12, UnusedId, SaleSteps
  <1> QED
    BY <1>13, SaleSteps

LEMMA StepImplements ==
  ASSUME BooksInv, [Next]_vars
  PROVE  [Sale!Next]_Sale!vars
  <1>1. CASE UNCHANGED <<status, transactions>>
    BY <1>1, UnmovedStep DEF SettledPayments, Refunds
  <1>2. CASE UNCHANGED vars
    BY <1>1, <1>2 DEF vars
  <1>3. ASSUME NEW c \in Carts, LearnerStep(c)
        PROVE  [Sale!Next]_Sale!vars
    <2>1. CASE HandOff(c) \/ Replace(c)
      BY <2>1, MoveStep DEF HandOff, Replace, ChangeStatus, Moves, CanMove, StatusTransitions
    <2>2. CASE HandOffFails(c) \/ Expire(c)
      BY <2>2, MoveIfUnmovedStep DEF HandOffFails, Expire
    <2>3. CASE HandOffSucceeds(c) \/ FindLapsed(c) \/ \E o \in Orders : FindOrder(c, o)
      BY <1>1, <2>3 DEF HandOffSucceeds, FindLapsed, FindOrder
    <2> QED
      BY <1>3, <2>1, <2>2, <2>3 DEF LearnerStep
  <1>4. ASSUME NEW c \in Carts, StaffStep(c)
        PROVE  [Sale!Next]_Sale!vars
    <2>1. ASSUME NEW id \in Ids, AcceptPayment(c, id)
          PROVE  [Sale!Next]_Sale!vars
      BY <2>1, SellStep DEF AcceptPayment, ChangeStatus, BooksInv, LocksHold
    <2>2. CASE RetryFulfillment(c) \/ LockToAccept(c) \/ AbandonAcceptance(c)
      BY <1>1, <2>2 DEF RetryFulfillment, LockToAccept, AbandonAcceptance
    <2> QED
      BY <1>4, <2>1, <2>2, RefundStep DEF StaffStep
  <1>5. ASSUME NEW p \in Polls, Crash(p) \/ \E o \in Orders : StartPoll(p, o)
        PROVE  [Sale!Next]_Sale!vars
    BY <1>1, <1>5 DEF Crash, StartPoll
  <1>6. ASSUME NEW p \in Polls, PollStep(p)
        PROVE  [Sale!Next]_Sale!vars
    <2>1. poll[p].at # "idle"
      BY <1>6 DEF PollStep, NameOrder, LeaveUnasked, GatewayAnswers, EndUnpaid, RejectSuccess,
                  AcceptSuccess, Verify, FindDuplicate, RecordRefused, SettlePayment, LosePayment,
                  FailWrite, FailCommit, ReadForInvoice, IssueInvoice, FailFulfillment,
                  HoldUnreconciled
    <2>2. PICK c \in Carts : c = CartAt(p)
      BY <2>1, CartAtType
    <2>3. CASE EndUnpaid(p) \/ \E answer \in {"success", "unpaid", "pending"} : GatewayAnswers(p, answer)
      BY <2>2, <2>3, MoveIfUnmovedStep DEF EndUnpaid, GatewayAnswers
    <2>4. CASE HoldUnreconciled(p)
      BY <1>1, <2>2, <2>4, MoveIfUnmovedStep DEF HoldUnreconciled
    <2>5. CASE SettlePayment(p)
      <3>1. poll[p].id \in Ids /\ status[c] \in Settleable
        BY <2>2, <2>5 DEF SettlePayment, Moves, BooksInv, PollsBacked
      <3>2. \A t \in transactions : t.id # poll[p].id
        BY <2>5 DEF SettlePayment, Recorded
      <3>3. {t \in transactions : t.id # poll[p].id} = transactions
        BY <3>2
      <3>4. PICK id \in Ids : id = poll[p].id
        BY <3>1
      <3>5. /\ transactions' = {t \in transactions : t.id # id} \cup {Row(c, id, "payment", TRUE)}
            /\ status' = [status EXCEPT ![c] = "paid"]
        BY <2>2, <2>5, <3>3, <3>4 DEF SettlePayment, ChangeStatus
      <3> QED
        BY <3>1, <3>2, <3>4, <3>5, SellStep
    <2>6. CASE RecordRefused(p)
      <3>0. PICK r : r = Row(CartAt(p), poll[p].id, "payment", FALSE)
        OBVIOUS
      <3>1. r.type = "payment" /\ r.settled = FALSE
        BY <3>0 DEF Row
      <3>2. \A d \in Carts : SettledPayments(d)' = SettledPayments(d) /\ Refunds(d)' = Refunds(d)
        BY <2>6, <3>0, <3>1 DEF RecordRefused, SettledPayments, Refunds
      <3> QED
        BY <2>6, <3>2, UnmovedStep DEF RecordRefused
    <2>7. CASE \/ NameOrder(p) \/ LeaveUnasked(p) \/ RejectSuccess(p) \/ Verify(p)
               \/ FindDuplicate(p) \/ LosePayment(p) \/ FailWrite(p) \/ FailCommit(p)
               \/ ReadForInvoice(p) \/ IssueInvoice(p) \/ FailFulfillment(p)
               \/ \E id \in Ids : AcceptSuccess(p, id)
      BY <1>1, <2>7 DEF NameOrder, LeaveUnasked, RejectSuccess, Verify, FindDuplicate, LosePayment,
           FailWrite, FailCommit, ReadForInvoice, IssueInvoice, FailFulfillment, AcceptSuccess
    <2> QED
      BY <1>6, <2>3, <2>4, <2>5, <2>6, <2>7 DEF PollStep
  <1> QED
    BY <1>2, <1>3, <1>4, <1>5, <1>6 DEF Next

LEMMA InitImplements == Init => Sale!Init
  <1> SUFFICES ASSUME Init
      PROVE  Sale!Init
    OBVIOUS
  <1>1. \A c \in Carts : SettledPayments(c) = {} /\ Refunds(c) = {}
    BY DEF Init, SettledPayments, Refunds
  <1>2. \A c \in Carts : /\ Phase(status[c]) = "open"
                         /\ IdOf(SettledPayments(c)) = NoId /\ IdOf(Refunds(c)) = NoId
    BY <1>1, Phases, IdOfRows DEF Init, Open
  <1> QED
    BY <1>2 DEF Sale!Init

\* Polls, hand-offs, returning learners and staff, whoever dies and whatever
\* fails, sell a cart once, under one payment recorded in the same step, and
\* end a sale only by a recorded refund: handle_payment and resolution.py
\* implement Purchase.
THEOREM SettlementIsPurchase == Spec => ImplementsPurchase
  <1>1. BooksInv /\ [Next]_vars => [Sale!Next]_Sale!vars
    BY StepImplements
  <1> QED
    BY BooksInvariant, InitImplements, <1>1, PTL DEF Spec, ImplementsPurchase, Sale!Spec

-----------------------------------------------------------------------------
(***************************************************************************)
(* What a poll read of its cart and the cart itself.                       *)
(***************************************************************************)
KeepsUp(p) ==
  poll[p].at # "idle" =>
    /\ status[CartAt(p)] # "pending"
    /\ Seen(p) = "processing" => poll[p].at \in {"naming", "asking"}
    /\ Seen(p) # "processing" => status[CartAt(p)] \in {Seen(p)} \cup (Statuses \ Open)

\* A cart moves from pending or processing, or to a decision.
Decides ==
  \A c \in Carts :
    \/ status'[c] = status[c]
    \/ status[c] \in {"pending", "processing"} /\ status'[c] \in Statuses \ {"pending"}
    \/ status'[c] \in Statuses \ Open

LEMMA MoveDecides ==
  ASSUME status \in [Carts -> Statuses], NEW c, NEW new, CanMove(status[c], new),
         ChangeStatus(c, new)
  PROVE  Decides
  BY DEF CanMove, StatusTransitions, ChangeStatus, Decides, Statuses, Open

LEMMA IfUnmovedDecides ==
  ASSUME status \in [Carts -> Statuses], NEW c, NEW seen, NEW new,
         ChangeStatusIfUnmoved(c, seen, new)
  PROVE  Decides
  BY MoveDecides DEF ChangeStatusIfUnmoved, Moves, ChangeStatus, Decides

LEMMA StepDecides ==
  ASSUME BooksInv, [Next]_vars
  PROVE  Decides
  <1>0. status \in [Carts -> Statuses]
    BY DEF BooksInv, TypeOK
  <1>1. CASE UNCHANGED status
    BY <1>1 DEF Decides
  <1>2. CASE UNCHANGED vars
    BY <1>1, <1>2 DEF vars
  <1>3. ASSUME NEW c \in Carts, LearnerStep(c)
        PROVE  Decides
    <2>1. CASE HandOff(c) \/ Replace(c)
      BY <1>0, <2>1, MoveDecides DEF HandOff, Replace, Moves, CanMove, StatusTransitions
    <2>2. CASE HandOffFails(c) \/ Expire(c)
      BY <1>0, <2>2, IfUnmovedDecides DEF HandOffFails, Expire
    <2>3. CASE HandOffSucceeds(c) \/ FindLapsed(c) \/ \E o \in Orders : FindOrder(c, o)
      BY <1>1, <2>3 DEF HandOffSucceeds, FindLapsed, FindOrder
    <2> QED
      BY <1>3, <2>1, <2>2, <2>3 DEF LearnerStep
  <1>4. ASSUME NEW c \in Carts, StaffStep(c)
        PROVE  Decides
    <2>1. ASSUME NEW id \in Ids, RecordRefund(c, id) \/ AcceptPayment(c, id)
          PROVE  Decides
      BY <1>0, <2>1 DEF RecordRefund, AcceptPayment, ChangeStatus, Decides, Open, Statuses
    <2>2. CASE RetryFulfillment(c) \/ LockToAccept(c) \/ AbandonAcceptance(c)
      BY <1>1, <2>2 DEF RetryFulfillment, LockToAccept, AbandonAcceptance
    <2> QED
      BY <1>4, <2>1, <2>2 DEF StaffStep
  <1>5. ASSUME NEW p \in Polls, Crash(p) \/ \E o \in Orders : StartPoll(p, o)
        PROVE  Decides
    BY <1>1, <1>5 DEF Crash, StartPoll
  <1>6. ASSUME NEW p \in Polls, PollStep(p)
        PROVE  Decides
    <2>1. CASE EndUnpaid(p) \/ \E answer \in {"success", "unpaid", "pending"} : GatewayAnswers(p, answer)
      BY <1>0, <2>1, IfUnmovedDecides DEF EndUnpaid, GatewayAnswers
    <2>2. CASE HoldUnreconciled(p)
      BY <1>0, <1>1, <2>2, IfUnmovedDecides DEF HoldUnreconciled
    <2>3. CASE SettlePayment(p)
      BY <1>0, <2>3, MoveDecides DEF SettlePayment, Moves
    <2>4. CASE \/ NameOrder(p) \/ LeaveUnasked(p) \/ RejectSuccess(p) \/ Verify(p)
               \/ FindDuplicate(p) \/ RecordRefused(p) \/ LosePayment(p) \/ FailWrite(p)
               \/ FailCommit(p) \/ ReadForInvoice(p) \/ IssueInvoice(p) \/ FailFulfillment(p)
               \/ \E id \in Ids : AcceptSuccess(p, id)
      BY <1>1, <2>4 DEF NameOrder, LeaveUnasked, RejectSuccess, Verify, FindDuplicate, RecordRefused,
         LosePayment, FailWrite, FailCommit, ReadForInvoice, IssueInvoice, FailFulfillment,
         AcceptSuccess
    <2> QED
      BY <1>6, <2>1, <2>2, <2>3, <2>4 DEF PollStep
  <1> QED
    BY <1>2, <1>3, <1>4, <1>5, <1>6 DEF Next

\* A poll no step of its own moves keeps up, or is ahead.
LEMMA WaitingKeepsUp ==
  ASSUME BooksInv, Decides, NEW p \in Polls, KeepsUp(p), poll'[p] = poll[p]
  PROVE  KeepsUp(p)'
  <1>1. poll[p].at # "idle" => CartAt(p) \in Carts
    BY CartAtType
  <1> QED
    BY <1>1 DEF KeepsUp, Decides, Seen, CartAt, Open, Statuses

\* One that goes on seeing what it saw keeps up too, once it heard from the
\* gateway.
LEMMA GoingOnKeepsUp ==
  ASSUME BooksInv, NEW p \in Polls, KeepsUp(p), UNCHANGED status, poll[p].at # "idle",
         poll'[p].order = poll[p].order, poll'[p].seen = poll[p].seen,
         poll[p].seen = "processing" => poll'[p].at \in {"naming", "asking"}
  PROVE  KeepsUp(p)'
  BY DEF KeepsUp, Seen, CartAt

LEMMA StepKeepsUp ==
  ASSUME BooksInv, PollsKeepUp, "commit" \notin Faults, [Next]_vars
  PROVE  PollsKeepUp'
  <1> SUFFICES ASSUME NEW q \in Polls
      PROVE  KeepsUp(q)'
    BY DEF PollsKeepUp, KeepsUp
  <1>0. /\ Decides /\ KeepsUp(q)
        /\ status \in [Carts -> Statuses] /\ status' \in [Carts -> Statuses]
        /\ poll \in [Polls -> PollStates] /\ poll[q] \in PollStates
    BY StepDecides, StepType DEF PollsKeepUp, KeepsUp, BooksInv, TypeOK
  <1>1. CASE poll'[q] = poll[q]
    BY <1>0, <1>1, WaitingKeepsUp
  <1>2. CASE poll'[q] = Idle
    BY <1>2 DEF KeepsUp, Idle
  <1>3. CASE UNCHANGED vars
    BY <1>1, <1>3 DEF vars
  <1>4. ASSUME NEW c \in Carts, LearnerStep(c) \/ StaffStep(c)
        PROVE  KeepsUp(q)'
    BY <1>1, <1>4 DEF LearnerStep, StaffStep, HandOff, HandOffSucceeds, HandOffFails, FindLapsed,
         FindOrder, Expire, Replace, RetryFulfillment, RecordRefund, AcceptPayment, LockToAccept,
         AbandonAcceptance, requests
  <1>5. ASSUME NEW p \in Polls, NEW o \in Orders, StartPoll(p, o)
        PROVE  KeepsUp(q)'
    <2>1. CASE p = q
      <3>1. PICK c \in Carts : c = CartOf[o]
        BY SettlementAssumption
      <3>2. /\ poll'[q].order = o /\ poll'[q].seen = status[c] /\ poll'[q].at \in {"naming", "asking"}
            /\ status[c] # "pending" /\ UNCHANGED status
        BY <1>0, <1>5, <2>1, <3>1 DEF StartPoll
      <3> QED
        BY <3>1, <3>2 DEF KeepsUp, CartAt, Seen
    <2>2. CASE p # q
      BY <1>0, <1>1, <1>5, <2>2 DEF StartPoll
    <2> QED
      BY <2>1, <2>2
  <1>6. ASSUME NEW p \in Polls, Crash(p)
        PROVE  KeepsUp(q)'
    BY <1>0, <1>1, <1>2, <1>6 DEF Crash, Finish
  <1>7. ASSUME NEW p \in Polls, PollStep(p), p # q
        PROVE  KeepsUp(q)'
    BY <1>0, <1>1, <1>7 DEF PollStep, NameOrder, LeaveUnasked, GatewayAnswers, EndUnpaid,
         RejectSuccess, AcceptSuccess, Verify, FindDuplicate, RecordRefused, SettlePayment,
         LosePayment, FailWrite, FailCommit, ReadForInvoice, IssueInvoice, FailFulfillment,
         HoldUnreconciled, Goto, GotoSeeing, Finish
  <1>8. ASSUME PollStep(q)
        PROVE  KeepsUp(q)'
    <2>1. poll[q].at # "idle"
      BY <1>8 DEF PollStep, NameOrder, LeaveUnasked, GatewayAnswers, EndUnpaid, RejectSuccess,
                  AcceptSuccess, Verify, FindDuplicate, RecordRefused, SettlePayment, LosePayment,
                  FailWrite, FailCommit, ReadForInvoice, IssueInvoice, FailFulfillment,
                  HoldUnreconciled
    <2>2. PICK c \in Carts : c = CartAt(q)
      BY <2>1, CartAtType
    <2>3. CASE \/ NameOrder(q) \/ RejectSuccess(q) \/ Verify(q) \/ FindDuplicate(q)
               \/ RecordRefused(q) \/ FailWrite(q) \/ FailFulfillment(q)
      <3>1. /\ poll'[q].order = poll[q].order /\ poll'[q].seen = poll[q].seen
            /\ poll[q].at \in {"naming"} => poll'[q].at = "asking"
            /\ poll[q].at # "naming" => poll[q].at \notin {"naming", "asking"}
            /\ UNCHANGED status
        BY <1>0, <2>3 DEF NameOrder, RejectSuccess, Verify, FindDuplicate, RecordRefused, FailWrite,
           FailFulfillment, Goto, PollStates
      <3> QED
        BY <1>0, <2>1, <3>1, GoingOnKeepsUp DEF KeepsUp, Seen
    <2>4. CASE LeaveUnasked(q) \/ EndUnpaid(q) \/ IssueInvoice(q) \/ HoldUnreconciled(q)
      BY <1>0, <1>2, <2>4 DEF LeaveUnasked, EndUnpaid, IssueInvoice, HoldUnreconciled, Finish
    <2>5. ASSUME NEW at, NEW seen, GotoSeeing(q, at, seen), seen # "processing",
                 status'[c] \in {seen} \cup (Statuses \ Open), status'[c] # "pending"
          PROVE  KeepsUp(q)'
      <3>1. poll'[q].seen = seen /\ CartAt(q)' = c
        BY <1>0, <2>2, <2>5 DEF GotoSeeing, PollStates, CartAt
      <3> QED
        BY <2>5, <3>1 DEF KeepsUp, Seen
    <2>6. status[c] # "pending" /\ (Seen(q) # "processing" => status[c] \in {Seen(q)} \cup (Statuses \ Open))
      BY <1>0, <2>1, <2>2 DEF KeepsUp
    <2>7. ASSUME NEW answer \in {"success", "unpaid", "pending"}, GatewayAnswers(q, answer)
          PROVE  KeepsUp(q)'
      <3>1. CASE answer = "pending"
        BY <1>0, <1>2, <2>7, <3>1 DEF GatewayAnswers, Finish
      <3>2. CASE answer # "pending"
        <4>1. /\ GotoSeeing(q, answer, SeenAfter(c, Seen(q), "payment_pending"))
              /\ ChangeStatusIfUnmoved(c, Seen(q), "payment_pending")
          BY <2>2, <2>7, <3>2 DEF GatewayAnswers
        <4>2. CASE Moves(c, Seen(q), "payment_pending")
          <5>1. SeenAfter(c, Seen(q), "payment_pending") = "payment_pending" /\ status'[c] = "payment_pending"
            BY <1>0, <4>1, <4>2 DEF SeenAfter, ChangeStatusIfUnmoved
          <5> QED
            BY <2>5, <4>1, <5>1
        <4>3. CASE ~Moves(c, Seen(q), "payment_pending") /\ CanMove(Seen(q), "payment_pending")
          <5>1. Seen(q) = "processing" /\ status[c] # "processing"
            BY <4>3 DEF Moves, CanMove, StatusTransitions
          <5>2. SeenAfter(c, Seen(q), "payment_pending") = status[c] /\ status'[c] = status[c]
            BY <4>1, <4>3 DEF SeenAfter, ChangeStatusIfUnmoved
          <5> QED
            BY <2>5, <2>6, <4>1, <5>1, <5>2
        <4>4. CASE ~CanMove(Seen(q), "payment_pending")
          <5>1. Seen(q) # "processing"
            BY <4>4 DEF CanMove, StatusTransitions
          <5>2. SeenAfter(c, Seen(q), "payment_pending") = Seen(q) /\ status'[c] = status[c]
            BY <4>1, <4>4 DEF SeenAfter, ChangeStatusIfUnmoved, Moves
          <5> QED
            BY <2>5, <2>6, <4>1, <5>1, <5>2
        <4> QED
          BY <4>2, <4>3, <4>4 DEF Moves
      <3> QED
        BY <3>1, <3>2
    <2>8. ASSUME NEW id \in Ids, AcceptSuccess(q, id)
          PROVE  KeepsUp(q)'
      <3>1. CASE SettledInvoice(CartAt(q), id)
        BY <1>0, <1>2, <2>8, <3>1 DEF AcceptSuccess, Finish
      <3>2. CASE ~SettledInvoice(CartAt(q), id)
        <4> DEFINE at == IF Seen(q) \in Settleable THEN "verifying" ELSE "holding"
        <4>1. poll' = [poll EXCEPT ![q] = [poll[q] EXCEPT !.id = id, !.at = at]]
          BY <2>8, <3>2 DEF AcceptSuccess
        <4> HIDE DEF at
        <4>2. /\ poll'[q].order = poll[q].order /\ poll'[q].seen = poll[q].seen
              /\ poll[q].at = "success" /\ UNCHANGED status
          BY <1>0, <2>8, <4>1 DEF AcceptSuccess, PollStates
        <4> QED
          BY <1>0, <2>1, <4>2, GoingOnKeepsUp DEF KeepsUp, Seen
      <3> QED
        BY <3>1, <3>2
    <2>9. CASE SettlePayment(q)
      BY <1>0, <2>2, <2>5, <2>9 DEF SettlePayment, ChangeStatus, Open, Statuses
    <2>10. CASE LosePayment(q)
      <3>1. ~Moves(c, Seen(q), "paid") /\ Seen(q) \in Settleable \ {"processing"} /\ UNCHANGED status
        BY <1>0, <2>1, <2>2, <2>10 DEF LosePayment, BooksInv, PollsBacked, KeepsUp
      <3>2. SeenAfter(c, Seen(q), "paid") = status[c] /\ status[c] # Seen(q)
        BY <3>1 DEF SeenAfter, Moves, CanMove, StatusTransitions, Settleable
      <3> QED
        BY <1>0, <2>2, <2>5, <2>6, <2>10, <3>1, <3>2 DEF LosePayment, Open
    <2>11. CASE ReadForInvoice(q)
      <3>1. poll[q].at = "issuing" /\ Seen(q) # "processing"
        BY <1>0, <2>11 DEF ReadForInvoice, KeepsUp
      <3>2. status[c] # "processing"
        <4>1. \E t \in SettledPayments(c) : t.id = poll[q].id
          BY <2>2, <3>1 DEF BooksInv, PollsBacked
        <4> QED
          BY <4>1 DEF BooksInv, OneSettledPayment
      <3> QED
        BY <1>0, <2>2, <2>5, <2>6, <2>11, <3>2 DEF ReadForInvoice
    <2>12. CASE FailCommit(q)
      BY <2>12 DEF FailCommit
    <2> QED
      BY <1>8, <2>3, <2>4, <2>7, <2>8, <2>9, <2>10, <2>11, <2>12 DEF PollStep
  <1> QED
    BY <1>3, <1>4, <1>5, <1>6, <1>7, <1>8 DEF Next

\* hold_unreconciled ends with the cart held or decided.
LEMMA HeldOrDecided ==
  ASSUME BooksInv, PollsKeepUp, NEW p \in Polls, HoldUnreconciled(p)
  PROVE  status'[CartAt(p)] \notin Open
  <1>1. CartAt(p) \in Carts /\ poll[p].at = "holding" /\ status \in [Carts -> Statuses]
    BY CartAtType DEF HoldUnreconciled, BooksInv, TypeOK
  <1>2. PICK c \in Carts : c = CartAt(p)
    BY <1>1
  <1>3. Seen(p) # "processing" /\ status[c] \in {Seen(p)} \cup (Statuses \ Open) /\ status[c] # "pending"
    BY <1>1, <1>2 DEF PollsKeepUp
  <1>4. CASE status[c] \notin Open
    BY <1>1, <1>2, <1>4 DEF HoldUnreconciled, ChangeStatusIfUnmoved, Open
  <1>5. CASE status[c] = Seen(p) /\ Seen(p) \in Open
    <2>1. Seen(p) \in Holdable /\ Moves(c, Seen(p), "unreconciled")
      BY <1>3, <1>5 DEF Open, Holdable, Moves, CanMove, StatusTransitions
    <2> QED
      BY <1>1, <1>2, <2>1 DEF HoldUnreconciled, ChangeStatusIfUnmoved, Open
  <1> QED
    BY <1>3, <1>4, <1>5

\* So does a success whose payment is settled, or was invoiced before.
LEMMA SettledIsDecided ==
  ASSUME BooksInv, NEW c \in Carts, SettledPayments(c) # {}
  PROVE  status[c] \notin Open
  BY DEF BooksInv, OneSettledPayment, Open

LEMMA StagesAhead ==
  /\ Answered = {"success", "verifying", "settling", "refusing", "issuing", "fulfilling", "holding"}
  /\ \A at \in {"verifying", "settling", "refusing", "issuing", "fulfilling", "holding"} :
       StepsLeft[at] < StepsLeft["success"]
  /\ \A at \in {"settling", "refusing"} : StepsLeft[at] < StepsLeft["verifying"]
  /\ StepsLeft["issuing"] < StepsLeft["settling"]
  /\ StepsLeft["fulfilling"] < StepsLeft["issuing"]
  /\ \A at \in Answered \ {"holding"} : StepsLeft["holding"] < StepsLeft[at]
  BY DEF Answered, StepsLeft

LEMMA AnsweredStep ==
  ASSUME BooksInv, PollsKeepUp, NEW p \in Polls, poll[p].at \in Answered, PollStep(p)
  PROVE  GoesForward(p) \/ EndsDecided(p)
  <1>0. /\ poll \in [Polls -> PollStates] /\ poll[p] \in PollStates
        /\ CartAt(p) \in Carts /\ poll[p].at # "idle"
    BY CartAtType, StagesAhead DEF BooksInv, TypeOK
  <1>1. ASSUME NEW at \in Answered, StepsLeft[at] < StepsLeft[poll[p].at],
               Goto(p, at) \/ \E seen : GotoSeeing(p, at, seen)
        PROVE  GoesForward(p)
    <2>1. poll'[p].at = at /\ poll'[p].order = poll[p].order
      BY <1>0, <1>1 DEF Goto, GotoSeeing, PollStates
    <2> QED
      BY <1>1, <2>1 DEF GoesForward
  <1>2. CASE \/ RejectSuccess(p) \/ Verify(p) \/ FindDuplicate(p) \/ RecordRefused(p)
             \/ FailWrite(p) \/ FailFulfillment(p)
    <2>1. CASE Verify(p)
      BY <1>1, <2>1, StagesAhead DEF Verify
    <2>2. CASE ~Verify(p)
      <3>1. Goto(p, "holding") /\ poll[p].at # "holding"
        BY <1>2, <2>2 DEF RejectSuccess, FindDuplicate, RecordRefused, FailWrite, FailFulfillment
      <3> QED
        BY <1>1, <3>1, StagesAhead
    <2> QED
      BY <2>1, <2>2
  <1>3. CASE SettlePayment(p) \/ LosePayment(p) \/ FailCommit(p)
    <2>1. /\ poll[p].at = "settling"
          /\ \E seen : GotoSeeing(p, "issuing", seen) \/ GotoSeeing(p, "holding", seen)
      BY <1>3 DEF SettlePayment, LosePayment, FailCommit
    <2> QED
      BY <1>1, <2>1, StagesAhead
  <1>4. CASE ReadForInvoice(p)
    <2>1. PICK at \in {"fulfilling", "holding"} : \E seen : GotoSeeing(p, at, seen)
      BY <1>4 DEF ReadForInvoice
    <2>2. poll[p].at = "issuing"
      BY <1>4 DEF ReadForInvoice
    <2> QED
      BY <1>1, <2>1, <2>2, StagesAhead
  <1>5. ASSUME NEW id \in Ids, AcceptSuccess(p, id)
        PROVE  GoesForward(p) \/ EndsDecided(p)
    <2>1. CASE SettledInvoice(CartAt(p), id)
      <3>1. SettledPayments(CartAt(p)) # {}
        BY <2>1 DEF SettledInvoice, BooksInv, InvoiceBillsPayment
      <3>2. status[CartAt(p)] \notin Open
        BY <1>0, <3>1, SettledIsDecided
      <3> QED
        BY <1>0, <1>5, <2>1, <3>2 DEF AcceptSuccess, Finish, EndsDecided
    <2>2. CASE ~SettledInvoice(CartAt(p), id)
      <3> DEFINE at == IF Seen(p) \in Settleable THEN "verifying" ELSE "holding"
      <3>1. /\ poll' = [poll EXCEPT ![p] = [poll[p] EXCEPT !.id = id, !.at = at]]
            /\ poll[p].at = "success"
        BY <1>5, <2>2 DEF AcceptSuccess
      <3>2. at \in {"verifying", "holding"}
        OBVIOUS
      <3> HIDE DEF at
      <3> QED
        BY <1>0, <3>1, <3>2, StagesAhead DEF GoesForward, PollStates
    <2> QED
      BY <2>1, <2>2
  <1>6. CASE IssueInvoice(p)
    <2>1. SettledPayments(CartAt(p)) # {}
      BY <1>6 DEF IssueInvoice, BooksInv, PollsBacked
    <2>2. status[CartAt(p)] \notin Open
      BY <1>0, <2>1, SettledIsDecided
    <2> QED
      BY <1>0, <1>6, <2>2 DEF IssueInvoice, Finish, EndsDecided
  <1>7. CASE HoldUnreconciled(p)
    BY <1>0, <1>7, HeldOrDecided DEF HoldUnreconciled, Finish, EndsDecided
  <1>8. ~(NameOrder(p) \/ LeaveUnasked(p) \/ EndUnpaid(p))
    BY StagesAhead DEF NameOrder, LeaveUnasked, EndUnpaid
  <1>9. \A answer : ~GatewayAnswers(p, answer)
    BY StagesAhead DEF GatewayAnswers
  <1> QED
    BY <1>2, <1>3, <1>4, <1>5, <1>6, <1>7, <1>8, <1>9 DEF PollStep

\* The polls of other requests, learners and staff leave a poll where it is.
LEMMA OthersLeavePoll ==
  ASSUME BooksInv, [Next]_vars, NEW p \in Polls, poll[p].at # "idle", ~PollStep(p), ~Crash(p)
  PROVE  poll'[p] = poll[p]
  <1>0. poll \in [Polls -> PollStates]
    BY DEF BooksInv, TypeOK
  <1>1. CASE UNCHANGED vars
    BY <1>1 DEF vars
  <1>2. ASSUME NEW c \in Carts, LearnerStep(c) \/ StaffStep(c)
        PROVE  poll'[p] = poll[p]
    BY <1>2 DEF LearnerStep, StaffStep, HandOff, HandOffSucceeds, HandOffFails, FindLapsed,
         FindOrder, Expire, Replace, RetryFulfillment, RecordRefund, AcceptPayment, LockToAccept,
         AbandonAcceptance, requests
  <1>3. ASSUME NEW q \in Polls, NEW o \in Orders, StartPoll(q, o)
        PROVE  poll'[p] = poll[p]
    BY <1>0, <1>3 DEF StartPoll
  <1>4. ASSUME NEW q \in Polls, q # p, PollStep(q) \/ Crash(q)
        PROVE  poll'[p] = poll[p]
    BY <1>0, <1>4 DEF PollStep, NameOrder, LeaveUnasked, GatewayAnswers, EndUnpaid, RejectSuccess,
         AcceptSuccess, Verify, FindDuplicate, RecordRefused, SettlePayment, LosePayment, FailWrite,
         FailCommit, ReadForInvoice, IssueInvoice, FailFulfillment, HoldUnreconciled, Crash, Goto,
         GotoSeeing, Finish
  <1> QED
    BY <1>1, <1>2, <1>3, <1>4 DEF Next

\* settle_payment, where commits do not fail: whichever of the hand-off, the
\* other polls, a returning learner and staff move the cart meanwhile, a poll
\* that read a success and does not die runs forward until the cart is
\* settled, held or decided by someone else.
THEOREM SuccessesDecided ==
  ASSUME "commit" \notin Faults
  PROVE  Spec => SuccessNeverLeftOpen
  <1>1. Init => PollsKeepUp
    BY DEF Init, PollsKeepUp, Idle
  <1>2. BooksInv /\ PollsKeepUp /\ [Next]_vars => PollsKeepUp'
    BY StepKeepsUp
  <1>3. BooksInv /\ PollsKeepUp /\ [Next]_vars =>
          [\A p \in Polls : poll[p].at \in Answered =>
             poll'[p] = poll[p] \/ GoesForward(p) \/ EndsDecided(p) \/ Crash(p)]_vars
    <2> SUFFICES ASSUME BooksInv, PollsKeepUp, [Next]_vars, NEW p \in Polls,
                        poll[p].at \in Answered
        PROVE  poll'[p] = poll[p] \/ GoesForward(p) \/ EndsDecided(p) \/ Crash(p)
      OBVIOUS
    <2>1. poll[p].at # "idle"
      BY StagesAhead
    <2> QED
      BY <2>1, AnsweredStep, OthersLeavePoll
  <1> QED
    BY BooksInvariant, <1>1, <1>2, <1>3, PTL DEF Spec, SuccessNeverLeftOpen
=============================================================================
