-------------------------- MODULE SettlementProofs --------------------------
(***************************************************************************)
(* Theorems about Settlement, for any carts, orders, ids and polls.  The   *)
(* invariant is BooksInv: the properties of the books, strengthened by     *)
(* what each poll relies on between two of its steps (PollsBacked) and by  *)
(* what an acceptance's lock protects (LocksHold).                         *)
(***************************************************************************)
EXTENDS Settlement, TLAPS

LEMMA InitBooks == Init => BooksInv
  BY SettlementAssumption
  DEF Init, BooksInv, TypeOK, OneSettledPayment, OneRefund, InvoiceBillsPayment, PollsBacked,
      LocksHold, Idle, PollStates, Stages, Statuses, SettledPayments, Transactions, Invoices

\* The cart of a poll under way is a cart.
LEMMA CartAtType ==
  ASSUME BooksInv, NEW p \in Polls, poll[p].at # "idle"
  PROVE  CartAt(p) \in Carts /\ poll[p].order \in Orders /\ Seen(p) \in Statuses
  BY SettlementAssumption DEF BooksInv, TypeOK, PollsBacked, CartAt, Seen, PollStates

(***************************************************************************)
(* Most steps write neither a transaction nor an invoice, and move carts   *)
(* only among the statuses a cart has before it is sold: the books hold.   *)
(***************************************************************************)
Unsold(c) == status[c] \notin {"paid", "refunded"}

LEMMA QuietStep ==
  ASSUME BooksInv,
         UNCHANGED <<transactions, invoices>>,
         \A c \in Carts : status'[c] = status[c] \/ (Unsold(c) /\ Unsold(c)')
  PROVE  OneSettledPayment' /\ OneRefund' /\ InvoiceBillsPayment'
  BY DEF BooksInv, OneSettledPayment, OneRefund, InvoiceBillsPayment, SettledPayments, Unsold

\* What PollsBacked says of one poll.
Backed(p) ==
  /\ poll[p].at # "idle" => poll[p].order \in Orders
  /\ poll[p].at \in {"verifying", "settling", "refusing"} =>
       poll[p].id \in Ids /\ Seen(p) \in Settleable
  /\ poll[p].at \in {"issuing", "fulfilling"} =>
       \E t \in SettledPayments(CartAt(p)) : t.id = poll[p].id

SettledKept == \A c \in Carts : SettledPayments(c) \subseteq SettledPayments(c)'

\* A step that leaves a poll alone, and the settled payments there, leaves it
\* backed.
LEMMA BackedUntouched ==
  ASSUME BooksInv, NEW p \in Polls, poll'[p] = poll[p], SettledKept
  PROVE  Backed(p)'
  <1>1. ASSUME poll[p].at \in {"issuing", "fulfilling"}
        PROVE  \E t \in SettledPayments(CartAt(p))' : t.id = poll[p].id
    <2>1. PICK c \in Carts : c = CartAt(p) /\ c = CartAt(p)'
      BY <1>1, CartAtType DEF CartAt
    <2>2. \E t \in SettledPayments(c) : t.id = poll[p].id
      BY <1>1, <2>1 DEF BooksInv, PollsBacked
    <2>3. \E t \in SettledPayments(c)' : t.id = poll[p].id
      BY <2>2 DEF SettledKept
    <2> QED
      BY <2>1, <2>3 DEF SettledPayments
  <1> QED
    BY <1>1 DEF BooksInv, PollsBacked, Backed, Seen

\* A poll that goes on stays a poll.
LEMMA GotoSeeingType ==
  ASSUME TypeOK, NEW p \in Polls, NEW at \in Stages, NEW seen \in Statuses,
         GotoSeeing(p, at, seen)
  PROVE  poll' \in [Polls -> PollStates]
  <1>1. poll[p] \in PollStates
    BY DEF TypeOK
  <1>2. [poll[p] EXCEPT !.at = at, !.seen = seen] \in PollStates
    BY <1>1 DEF PollStates
  <1> QED
    BY <1>2 DEF TypeOK, GotoSeeing

LEMMA InvoiceType ==
  ASSUME NEW c \in Carts, NEW id \in Ids, NEW by \in Polls \cup {"staff"}
  PROVE  Invoice(c, id, by) \in Invoices
  <1>1. Invoiced(c) \in BOOLEAN
    BY DEF Invoiced
  <1> QED
    BY <1>1 DEF Invoice, Invoices

LEMMA StepType ==
  ASSUME BooksInv, [Next]_vars
  PROVE  TypeOK'
  <1> USE SettlementAssumption DEF BooksInv, TypeOK, requests
  <1>1. CASE UNCHANGED vars
    BY <1>1 DEF vars
  <1>2. ASSUME NEW c \in Carts, LearnerStep(c)
        PROVE  TypeOK'
    BY <1>2 DEF LearnerStep, HandOff, HandOffSucceeds, HandOffFails, FindLapsed, FindOrder, Expire,
                Replace, ChangeStatus, ChangeStatusIfUnmoved, CanRecordOrder, Statuses
  <1>3. ASSUME NEW c \in Carts, StaffStep(c)
        PROVE  TypeOK'
    <2>1. CASE RetryFulfillment(c)
      BY <2>1, InvoiceType DEF RetryFulfillment, TheSettledPayment, SettledPayments, Transactions
    <2>2. ASSUME NEW id \in Ids, RecordRefund(c, id)
          PROVE  TypeOK'
      <3>1. Row(c, id, "refund", TRUE) \in Transactions
        BY DEF Row, Transactions
      <3> QED
        BY <2>2, <3>1 DEF RecordRefund, ChangeStatus, Statuses
    <2>3. ASSUME NEW id \in Ids, AcceptPayment(c, id)
          PROVE  TypeOK'
      <3>1. Row(c, id, "payment", TRUE) \in Transactions
        BY DEF Row, Transactions
      <3>2. Invoice(c, id, "staff") \in Invoices
        BY InvoiceType
      <3> QED
        BY <2>3, <3>1, <3>2 DEF AcceptPayment, ChangeStatus, Statuses
    <2>4. CASE LockToAccept(c) \/ AbandonAcceptance(c)
      BY <2>4 DEF LockToAccept, AbandonAcceptance
    <2> QED
      BY <1>3, <2>1, <2>2, <2>3, <2>4 DEF StaffStep
  <1>4. ASSUME NEW p \in Polls, NEW o \in Orders, StartPoll(p, o)
        PROVE  TypeOK'
    BY <1>4 DEF StartPoll, PollStates, Stages
  <1>5. ASSUME NEW p \in Polls, Crash(p)
        PROVE  TypeOK'
    BY <1>5 DEF Crash, Finish, Idle, PollStates, Stages, Statuses
  <1>6. ASSUME NEW p \in Polls, PollStep(p)
        PROVE  TypeOK'
    <2> USE DEF PollStates
    <2>0. poll[p].at # "idle"
      BY <1>6 DEF PollStep, NameOrder, LeaveUnasked, GatewayAnswers, EndUnpaid, RejectSuccess,
                  AcceptSuccess, Verify, FindDuplicate, RecordRefused, SettlePayment, LosePayment,
                  FailWrite, FailCommit, ReadForInvoice, IssueInvoice, FailFulfillment,
                  HoldUnreconciled
    <2>1. CartAt(p) \in Carts /\ poll[p].order \in Orders /\ Seen(p) \in Statuses
      BY <2>0, CartAtType
    <2>2. CASE NameOrder(p)
      BY <2>1, <2>2 DEF NameOrder, Goto, Stages
    <2>3. CASE LeaveUnasked(p)
      BY <2>3 DEF LeaveUnasked, Finish, Idle, Stages, Statuses
    <2>4. ASSUME NEW answer \in {"success", "unpaid", "pending"}, GatewayAnswers(p, answer)
          PROVE  TypeOK'
      <3>1. status' \in [Carts -> Statuses]
        BY <2>4 DEF GatewayAnswers, ChangeStatusIfUnmoved, Statuses
      <3>2. CASE answer = "pending"
        BY <2>4, <3>1, <3>2 DEF GatewayAnswers, Finish, Idle, Stages, Statuses
      <3>3. CASE answer # "pending"
        <4>1. SeenAfter(CartAt(p), Seen(p), "payment_pending") \in Statuses
          BY <2>1 DEF SeenAfter, Statuses
        <4>2. answer \in Stages
          BY <3>3 DEF Stages
        <4>3. poll' \in [Polls -> PollStates]
          BY <2>4, <3>3, <4>1, <4>2, GotoSeeingType DEF GatewayAnswers
        <4> QED
          BY <2>4, <3>1, <4>3 DEF GatewayAnswers
      <3> QED
        BY <3>2, <3>3
    <2>5. CASE EndUnpaid(p)
      BY <2>1, <2>5 DEF EndUnpaid, ChangeStatusIfUnmoved, Finish, Idle, Stages, Statuses
    <2>6. CASE RejectSuccess(p) \/ Verify(p) \/ FindDuplicate(p) \/ FailWrite(p) \/ FailFulfillment(p)
      BY <2>6 DEF RejectSuccess, Verify, FindDuplicate, FailWrite, FailFulfillment, Goto, Stages
    <2>7. ASSUME NEW id \in Ids, AcceptSuccess(p, id)
          PROVE  TypeOK'
      <3>1. CASE SettledInvoice(CartAt(p), id)
        BY <2>7, <3>1 DEF AcceptSuccess, Finish, Idle, Stages, Statuses
      <3>2. CASE ~SettledInvoice(CartAt(p), id)
        <4> DEFINE at == IF Seen(p) \in Settleable THEN "verifying" ELSE "holding"
        <4>1. at \in Stages
          BY DEF Stages
        <4>2. [poll[p] EXCEPT !.id = id, !.at = at] \in PollStates
          BY <4>1
        <4>3. poll' = [poll EXCEPT ![p] = [poll[p] EXCEPT !.id = id, !.at = at]]
          BY <2>7, <3>2 DEF AcceptSuccess
        <4> HIDE DEF at, PollStates
        <4>4. poll' \in [Polls -> PollStates]
          BY <4>2, <4>3
        <4> QED
          BY <2>7, <4>4 DEF AcceptSuccess
      <3> QED
        BY <3>1, <3>2
    <2>8. CASE RecordRefused(p)
      <3>1. Row(CartAt(p), poll[p].id, "payment", FALSE) \in Transactions
        BY <2>1, <2>8 DEF Row, Transactions, RecordRefused, PollsBacked
      <3> QED
        BY <2>8, <3>1 DEF RecordRefused, Goto, Stages
    <2>9. CASE SettlePayment(p)
      <3>1. Row(CartAt(p), poll[p].id, "payment", TRUE) \in Transactions
        BY <2>1, <2>9 DEF Row, Transactions, SettlePayment, PollsBacked
      <3>2. transactions' \subseteq Transactions
        BY <2>9, <3>1 DEF SettlePayment
      <3>3. poll' \in [Polls -> PollStates]
        <4>1. GotoSeeing(p, "issuing", "paid") /\ "issuing" \in Stages /\ "paid" \in Statuses
          BY <2>9 DEF SettlePayment, Stages, Statuses
        <4> QED
          BY <4>1, GotoSeeingType
      <3>4. status' \in [Carts -> Statuses]
        BY <2>1, <2>9 DEF SettlePayment, ChangeStatus, Statuses
      <3> QED
        BY <2>9, <3>2, <3>3, <3>4 DEF SettlePayment
    <2>10. CASE LosePayment(p) \/ FailCommit(p)
      <3>1. SeenAfter(CartAt(p), Seen(p), "paid") \in Statuses /\ "paid" \in Statuses
        BY <2>1 DEF SeenAfter, Statuses
      <3>2. poll' \in [Polls -> PollStates]
        BY <2>10, <3>1, GotoSeeingType DEF LosePayment, FailCommit, Stages
      <3> QED
        BY <2>10, <3>2 DEF LosePayment, FailCommit
    <2>11. CASE ReadForInvoice(p)
      <3>1. poll' \in [Polls -> PollStates]
        BY <2>1, <2>11, GotoSeeingType DEF ReadForInvoice, Stages
      <3> QED
        BY <2>11, <3>1 DEF ReadForInvoice
    <2>12. CASE IssueInvoice(p)
      <3>1. poll[p].id \in Ids
        BY <2>12 DEF IssueInvoice, PollsBacked, SettledPayments, Transactions
      <3> QED
        BY <2>1, <2>12, <3>1, InvoiceType DEF IssueInvoice, Finish, Idle, Stages, Statuses
    <2>13. CASE HoldUnreconciled(p)
      BY <2>1, <2>13 DEF HoldUnreconciled, ChangeStatusIfUnmoved, Finish, Idle, Stages, Statuses
    <2> QED
      BY <1>6, <2>2, <2>3, <2>4, <2>5, <2>6, <2>7, <2>8, <2>9, <2>10, <2>11, <2>12, <2>13 DEF PollStep
  <1> QED
    BY <1>1, <1>2, <1>3, <1>4, <1>5, <1>6 DEF Next

(***************************************************************************)
(* The steps that write to the books, one lemma each.                      *)
(***************************************************************************)
LEMMA RecordRefusedBooks ==
  ASSUME BooksInv, NEW p \in Polls, RecordRefused(p)
  PROVE  OneSettledPayment' /\ OneRefund' /\ InvoiceBillsPayment'
  <1> DEFINE r == Row(CartAt(p), poll[p].id, "payment", FALSE)
  <1>1. /\ transactions' = transactions \cup {r}
        /\ UNCHANGED <<status, invoices>>
        /\ \A t \in transactions : t.id # r.id
        /\ r.type = "payment" /\ ~r.settled
    BY DEF RecordRefused, Recorded, Row
  <1>2. \A c \in Carts : SettledPayments(c)' = SettledPayments(c)
    BY <1>1 DEF SettledPayments
  <1> HIDE DEF r
  <1>3. OneSettledPayment'
    BY <1>1, <1>2 DEF BooksInv, OneSettledPayment
  <1>4. OneRefund'
    BY <1>1 DEF BooksInv, OneRefund
  <1>5. InvoiceBillsPayment'
    BY <1>1, <1>2 DEF BooksInv, InvoiceBillsPayment, TypeOK, Invoices
  <1> QED
    BY <1>3, <1>4, <1>5

\* A cart not yet sold has no settled payment, no refund and no invoice.
LEMMA UnsoldIsBlank ==
  ASSUME BooksInv, NEW c \in Carts, Unsold(c)
  PROVE  /\ SettledPayments(c) = {}
         /\ \A t \in transactions : ~(t.cart = c /\ t.type = "refund")
         /\ \A i \in invoices : i.cart # c
  BY DEF BooksInv, OneSettledPayment, OneRefund, InvoiceBillsPayment, Unsold

LEMMA SettlePaymentBooks ==
  ASSUME BooksInv, NEW p \in Polls, SettlePayment(p)
  PROVE  OneSettledPayment' /\ OneRefund' /\ InvoiceBillsPayment'
  <1>0. CartAt(p) \in Carts /\ Unsold(CartAt(p))
    BY CartAtType DEF SettlePayment, Moves, BooksInv, PollsBacked, Settleable, Unsold
  <1>1. PICK c \in Carts : c = CartAt(p)
    BY <1>0
  <1> DEFINE r == Row(c, poll[p].id, "payment", TRUE)
  <1>2. /\ transactions' = transactions \cup {r}
        /\ status' = [status EXCEPT ![c] = "paid"]
        /\ UNCHANGED invoices
        /\ \A t \in transactions : t.id # r.id
        /\ r.type = "payment" /\ r.settled /\ r.cart = c
    BY <1>1 DEF SettlePayment, Recorded, Row, ChangeStatus
  <1>3. status \in [Carts -> Statuses]
    BY DEF BooksInv, TypeOK
  <1>4. PICK row : row = r
    OBVIOUS
  <1> HIDE DEF r
  <1>5. /\ SettledPayments(c)' = {row}
        /\ \A d \in Carts \ {c} : SettledPayments(d)' = SettledPayments(d)
    BY <1>0, <1>1, <1>2, <1>4, UnsoldIsBlank DEF SettledPayments
  <1>6. OneSettledPayment'
    BY <1>2, <1>3, <1>4, <1>5 DEF BooksInv, OneSettledPayment
  <1>7. OneRefund'
    BY <1>0, <1>1, <1>2, <1>3, <1>4 DEF BooksInv, OneRefund, Unsold
  <1>8. InvoiceBillsPayment'
    BY <1>0, <1>1, <1>2, <1>5, UnsoldIsBlank DEF BooksInv, InvoiceBillsPayment, TypeOK, Invoices
  <1> QED
    BY <1>6, <1>7, <1>8

LEMMA IssueInvoiceBooks ==
  ASSUME BooksInv, NEW p \in Polls, IssueInvoice(p)
  PROVE  OneSettledPayment' /\ OneRefund' /\ InvoiceBillsPayment'
  <1>1. \E t \in SettledPayments(CartAt(p)) : t.id = poll[p].id
    BY DEF IssueInvoice, BooksInv, PollsBacked
  <1> QED
    BY <1>1 DEF IssueInvoice, Invoice, BooksInv, OneSettledPayment, OneRefund, InvoiceBillsPayment,
                SettledPayments

LEMMA RetryFulfillmentBooks ==
  ASSUME BooksInv, NEW c \in Carts, RetryFulfillment(c)
  PROVE  OneSettledPayment' /\ OneRefund' /\ InvoiceBillsPayment'
  BY DEF RetryFulfillment, TheSettledPayment, Invoice, BooksInv, OneSettledPayment, OneRefund,
         InvoiceBillsPayment, SettledPayments

LEMMA RecordRefundBooks ==
  ASSUME BooksInv, NEW c \in Carts, NEW id \in Ids, RecordRefund(c, id)
  PROVE  OneSettledPayment' /\ OneRefund' /\ InvoiceBillsPayment'
  <1> DEFINE r == Row(c, id, "refund", TRUE)
  <1>1. /\ transactions' = transactions \cup {r}
        /\ status' = [status EXCEPT ![c] = "refunded"]
        /\ UNCHANGED invoices
        /\ \A t \in transactions : t.id # r.id
        /\ r.type = "refund" /\ r.cart = c
    BY DEF RecordRefund, Recorded, Row, ChangeStatus
  <1>2. status[c] \in {"paid", "unreconciled"}
    BY DEF RecordRefund, Lock
  <1>3. status \in [Carts -> Statuses]
    BY DEF BooksInv, TypeOK
  <1> HIDE DEF r
  <1>4. \A d \in Carts : SettledPayments(d)' = SettledPayments(d)
    BY <1>1 DEF SettledPayments
  <1>5. OneSettledPayment'
    BY <1>1, <1>3, <1>4 DEF BooksInv, OneSettledPayment
  <1>6. OneRefund'
    BY <1>1, <1>2, <1>3 DEF BooksInv, OneRefund
  <1>7. InvoiceBillsPayment'
    BY <1>1, <1>4 DEF BooksInv, InvoiceBillsPayment, TypeOK, Invoices
  <1> QED
    BY <1>5, <1>6, <1>7

LEMMA AcceptPaymentBooks ==
  ASSUME BooksInv, NEW c \in Carts, NEW id \in Ids, AcceptPayment(c, id)
  PROVE  OneSettledPayment' /\ OneRefund' /\ InvoiceBillsPayment'
  <1> DEFINE r == Row(c, id, "payment", TRUE)
             kept == {t \in transactions : t.id # id}
  <1>1. /\ transactions' = kept \cup {r}
        /\ status' = [status EXCEPT ![c] = "paid"]
        /\ r.id = id /\ r.type = "payment" /\ r.cart = c /\ r.settled
        /\ \A t \in transactions : t.id = id => t.cart = c /\ t.type = "payment"
        /\ \A i \in invoices' : i \in invoices \/ (i.cart = c /\ i.payment = id)
    BY DEF AcceptPayment, Row, ChangeStatus, Invoice
  <1>2. status[c] = "unreconciled" /\ Unsold(c)
    BY DEF AcceptPayment, BooksInv, LocksHold, Unsold
  <1>3. status \in [Carts -> Statuses]
    BY DEF BooksInv, TypeOK
  <1> HIDE DEF r
  <1>4. SettledPayments(c)' = {r} /\ \A d \in Carts \ {c} : SettledPayments(d)' = SettledPayments(d)
    BY <1>1, <1>2, UnsoldIsBlank DEF SettledPayments
  <1>5. OneSettledPayment'
    BY <1>1, <1>2, <1>3, <1>4 DEF BooksInv, OneSettledPayment
  <1>6. \A t : t.type = "refund" => (t \in transactions' <=> t \in transactions)
    BY <1>1
  <1>7. OneRefund'
    BY <1>1, <1>2, <1>3, <1>6 DEF BooksInv, OneRefund
  <1>8. InvoiceBillsPayment'
    BY <1>1, <1>2, <1>4, UnsoldIsBlank DEF BooksInv, InvoiceBillsPayment, TypeOK, Invoices
  <1> QED
    BY <1>5, <1>7, <1>8

\* A settled payment stays settled, whoever takes the step.
LEMMA StepKeepsSettled ==
  ASSUME BooksInv, [Next]_vars
  PROVE  SettledKept
  <1>1. CASE transactions \subseteq transactions'
    BY <1>1 DEF SettledKept, SettledPayments
  <1>2. ASSUME NEW c \in Carts, NEW id \in Ids, AcceptPayment(c, id)
        PROVE  SettledKept
    <2>1. Unsold(c)
      BY <1>2 DEF AcceptPayment, BooksInv, LocksHold, Unsold
    <2>2. SettledPayments(c) = {}
      BY <2>1, UnsoldIsBlank
    <2>3. \A t \in transactions : t.id = id => t.cart = c /\ t.type = "payment"
      BY <1>2 DEF AcceptPayment
    <2>4. \A t \in transactions : t.id # id => t \in transactions'
      BY <1>2 DEF AcceptPayment
    <2> QED
      BY <2>2, <2>3, <2>4 DEF SettledKept, SettledPayments
  <1>3. CASE UNCHANGED vars
    BY <1>1, <1>3 DEF vars
  <1>4. ASSUME NEW c \in Carts, LearnerStep(c)
        PROVE  SettledKept
    BY <1>1, <1>4 DEF LearnerStep, HandOff, HandOffSucceeds, HandOffFails, FindLapsed, FindOrder,
                      Expire, Replace
  <1>5. ASSUME NEW c \in Carts, StaffStep(c)
        PROVE  SettledKept
    BY <1>1, <1>2, <1>5 DEF StaffStep, RetryFulfillment, RecordRefund, LockToAccept,
                            AbandonAcceptance
  <1>6. ASSUME NEW p \in Polls, PollStep(p) \/ Crash(p) \/ \E o \in Orders : StartPoll(p, o)
        PROVE  SettledKept
    BY <1>1, <1>6 DEF PollStep, NameOrder, LeaveUnasked, GatewayAnswers, EndUnpaid, RejectSuccess,
         AcceptSuccess, Verify, FindDuplicate, RecordRefused, SettlePayment, LosePayment, FailWrite,
         FailCommit, ReadForInvoice, IssueInvoice, FailFulfillment, HoldUnreconciled, Crash,
         StartPoll
  <1> QED
    BY <1>3, <1>4, <1>5, <1>6 DEF Next

LEMMA StepBooks ==
  ASSUME BooksInv, [Next]_vars
  PROVE  OneSettledPayment' /\ OneRefund' /\ InvoiceBillsPayment'
  <1> DEFINE Books == OneSettledPayment /\ OneRefund /\ InvoiceBillsPayment
             Quiet == /\ UNCHANGED <<transactions, invoices>>
                      /\ \A c \in Carts : status'[c] = status[c] \/ (Unsold(c) /\ Unsold(c)')
  <1>1. CASE Quiet
    BY <1>1, QuietStep
  <1>2. CASE UNCHANGED vars
    BY <1>1, <1>2 DEF vars
  <1>3. status \in [Carts -> Statuses]
    BY DEF BooksInv, TypeOK
  <1>4. ASSUME NEW c \in Carts, LearnerStep(c)
        PROVE  Books'
    <2>1. Quiet
      BY <1>3, <1>4 DEF LearnerStep, HandOff, HandOffSucceeds, HandOffFails, FindLapsed, FindOrder,
           Expire, Replace, ChangeStatus, ChangeStatusIfUnmoved, Moves, Unsold
    <2> QED
      BY <1>1, <2>1
  <1>5. ASSUME NEW c \in Carts, StaffStep(c)
        PROVE  Books'
    <2>1. CASE LockToAccept(c) \/ AbandonAcceptance(c)
      BY <1>1, <2>1 DEF LockToAccept, AbandonAcceptance
    <2> QED
      BY <1>5, <2>1, RetryFulfillmentBooks, RecordRefundBooks, AcceptPaymentBooks DEF StaffStep
  <1>6. ASSUME NEW p \in Polls, Crash(p) \/ \E o \in Orders : StartPoll(p, o)
        PROVE  Books'
    BY <1>1, <1>6 DEF Crash, StartPoll
  <1>7. ASSUME NEW p \in Polls, PollStep(p)
        PROVE  Books'
    <2>1. CASE \/ NameOrder(p) \/ LeaveUnasked(p) \/ RejectSuccess(p) \/ Verify(p)
               \/ FindDuplicate(p) \/ LosePayment(p) \/ FailWrite(p) \/ FailCommit(p)
               \/ ReadForInvoice(p) \/ FailFulfillment(p) \/ \E id \in Ids : AcceptSuccess(p, id)
      BY <1>1, <2>1 DEF NameOrder, LeaveUnasked, RejectSuccess, Verify, FindDuplicate, LosePayment,
           FailWrite, FailCommit, ReadForInvoice, FailFulfillment, AcceptSuccess
    <2>2. ASSUME NEW c, NEW seen, NEW new \in {"payment_pending", "cancelled", "unreconciled"},
                 ChangeStatusIfUnmoved(c, seen, new)
          PROVE  \A d \in Carts : status'[d] = status[d] \/ (Unsold(d) /\ Unsold(d)')
      BY <1>3, <2>2 DEF ChangeStatusIfUnmoved, Moves, CanMove, StatusTransitions, Unsold
    <2>3. CASE \/ EndUnpaid(p) \/ HoldUnreconciled(p)
               \/ \E answer \in {"success", "unpaid", "pending"} : GatewayAnswers(p, answer)
      BY <1>1, <2>2, <2>3 DEF EndUnpaid, HoldUnreconciled, GatewayAnswers
    <2> QED
      BY <1>7, <2>1, <2>3, RecordRefusedBooks, SettlePaymentBooks, IssueInvoiceBooks DEF PollStep
  <1> QED
    BY <1>2, <1>4, <1>5, <1>6, <1>7 DEF Next

(***************************************************************************)
(* Between two steps of a poll, what it relies on stays true; and a row an *)
(* acceptance locked stays as it was read.                                 *)
(***************************************************************************)
LEMMA StepPolls ==
  ASSUME BooksInv, [Next]_vars
  PROVE  PollsBacked'
  <1> SUFFICES ASSUME NEW q \in Polls PROVE Backed(q)'
    BY DEF PollsBacked, Backed
  <1>0. SettledKept /\ poll \in [Polls -> PollStates] /\ poll[q] \in PollStates
    BY StepKeepsSettled DEF BooksInv, TypeOK
  <1>1. CASE poll'[q] = poll[q]
    BY <1>0, <1>1, BackedUntouched
  <1>2. CASE poll'[q] = Idle
    BY <1>2 DEF Backed, Idle
  <1>3. CASE UNCHANGED vars
    BY <1>1, <1>3 DEF vars
  <1>4. ASSUME NEW c \in Carts, LearnerStep(c) \/ StaffStep(c)
        PROVE  Backed(q)'
    BY <1>1, <1>4 DEF LearnerStep, StaffStep, HandOff, HandOffSucceeds, HandOffFails, FindLapsed,
         FindOrder, Expire, Replace, RetryFulfillment, RecordRefund, AcceptPayment, LockToAccept,
         AbandonAcceptance, requests
  <1>5. ASSUME NEW p \in Polls, NEW o \in Orders, StartPoll(p, o)
        PROVE  Backed(q)'
    <2>1. CASE p = q
      BY <1>0, <1>5, <2>1 DEF StartPoll, Backed
    <2>2. CASE p # q
      BY <1>0, <1>1, <1>5, <2>2 DEF StartPoll
    <2> QED
      BY <2>1, <2>2
  <1>6. ASSUME NEW p \in Polls, Crash(p)
        PROVE  Backed(q)'
    BY <1>0, <1>1, <1>2, <1>6 DEF Crash, Finish
  <1>7. ASSUME NEW p \in Polls, PollStep(p), p # q
        PROVE  Backed(q)'
    BY <1>0, <1>1, <1>7 DEF PollStep, NameOrder, LeaveUnasked, GatewayAnswers, EndUnpaid,
         RejectSuccess, AcceptSuccess, Verify, FindDuplicate, RecordRefused, SettlePayment,
         LosePayment, FailWrite, FailCommit, ReadForInvoice, IssueInvoice, FailFulfillment,
         HoldUnreconciled, Goto, GotoSeeing, Finish
  <1>8. ASSUME PollStep(q)
        PROVE  Backed(q)'
    <2>1. poll[q].at # "idle"
      BY <1>8 DEF PollStep, NameOrder, LeaveUnasked, GatewayAnswers, EndUnpaid, RejectSuccess,
                  AcceptSuccess, Verify, FindDuplicate, RecordRefused, SettlePayment, LosePayment,
                  FailWrite, FailCommit, ReadForInvoice, IssueInvoice, FailFulfillment,
                  HoldUnreconciled
    <2>2. CartAt(q) \in Carts /\ poll[q].order \in Orders
      BY <2>1, CartAtType
    <2>3. ASSUME NEW at \in {"asking", "success", "unpaid", "holding"}, poll'[q].at = at,
                 poll'[q].order = poll[q].order
          PROVE  Backed(q)'
      BY <2>2, <2>3 DEF Backed
    <2>4. CASE \/ NameOrder(q) \/ RejectSuccess(q) \/ FindDuplicate(q) \/ RecordRefused(q)
               \/ FailWrite(q) \/ FailFulfillment(q)
      BY <1>0, <2>3, <2>4 DEF NameOrder, RejectSuccess, FindDuplicate, RecordRefused, FailWrite,
           FailFulfillment, Goto, PollStates
    <2>5. CASE LeaveUnasked(q) \/ EndUnpaid(q) \/ IssueInvoice(q) \/ HoldUnreconciled(q)
      BY <1>0, <1>2, <2>5 DEF LeaveUnasked, EndUnpaid, IssueInvoice, HoldUnreconciled, Finish
    <2>6. CASE LosePayment(q) \/ FailCommit(q)
      BY <1>0, <2>3, <2>6 DEF LosePayment, FailCommit, GotoSeeing, PollStates
    <2>7. ASSUME NEW answer \in {"success", "unpaid", "pending"}, GatewayAnswers(q, answer)
          PROVE  Backed(q)'
      BY <1>0, <1>2, <2>3, <2>7 DEF GatewayAnswers, Finish, GotoSeeing, PollStates
    <2>8. ASSUME NEW id \in Ids, AcceptSuccess(q, id)
          PROVE  Backed(q)'
      <3>1. CASE SettledInvoice(CartAt(q), id)
        BY <1>0, <1>2, <2>8, <3>1 DEF AcceptSuccess, Finish
      <3>2. CASE ~SettledInvoice(CartAt(q), id) /\ Seen(q) \in Settleable
        <4>1. poll' = [poll EXCEPT ![q] = [poll[q] EXCEPT !.id = id, !.at = "verifying"]]
          BY <2>8, <3>2 DEF AcceptSuccess
        <4>2. /\ poll'[q].at = "verifying" /\ poll'[q].id = id
              /\ poll'[q].order = poll[q].order /\ poll'[q].seen = poll[q].seen
          BY <1>0, <4>1 DEF PollStates
        <4> QED
          BY <2>2, <3>2, <4>2 DEF Backed, Seen
      <3>3. CASE ~SettledInvoice(CartAt(q), id) /\ Seen(q) \notin Settleable
        <4>1. poll' = [poll EXCEPT ![q] = [poll[q] EXCEPT !.id = id, !.at = "holding"]]
          BY <2>8, <3>3 DEF AcceptSuccess
        <4>2. poll'[q].at = "holding" /\ poll'[q].order = poll[q].order
          BY <1>0, <4>1 DEF PollStates
        <4> QED
          BY <2>3, <4>2
      <3> QED
        BY <3>1, <3>2, <3>3
    <2>9. CASE Verify(q)
      <3>1. poll[q].id \in Ids /\ Seen(q) \in Settleable
        BY <2>9 DEF Verify, BooksInv, PollsBacked
      <3>2. /\ poll'[q].at \in {"refusing", "settling"}
            /\ poll'[q].order = poll[q].order /\ poll'[q].id = poll[q].id
            /\ poll'[q].seen = poll[q].seen
        BY <1>0, <2>9 DEF Verify, Goto, PollStates
      <3> QED
        BY <2>2, <3>1, <3>2 DEF Backed, Seen
    <2>10. CASE SettlePayment(q)
      <3>1. PICK c \in Carts, id \in Ids \cup {NoId} : c = CartAt(q) /\ id = poll[q].id
        BY <1>0, <2>2 DEF PollStates
      <3>2. c = CartAt(q)' /\ poll'[q].at = "issuing" /\ poll'[q].id = id
        BY <1>0, <2>10, <3>1 DEF SettlePayment, GotoSeeing, CartAt, PollStates
      <3>3. PICK t : t = Row(c, id, "payment", TRUE)
        OBVIOUS
      <3>4. t \in transactions' /\ t.cart = c /\ t.id = id /\ t.type = "payment" /\ t.settled
        BY <2>10, <3>1, <3>3 DEF SettlePayment, Row
      <3>5. t \in SettledPayments(c)'
        BY <3>4 DEF SettledPayments
      <3>6. poll'[q].order \in Orders
        BY <1>0, <2>2, <2>10 DEF SettlePayment, GotoSeeing, PollStates
      <3> QED
        BY <3>2, <3>4, <3>5, <3>6 DEF Backed, SettledPayments
    <2>11. CASE ReadForInvoice(q)
      <3>1. PICK c \in Carts, id \in Ids \cup {NoId} : c = CartAt(q) /\ id = poll[q].id
        BY <1>0, <2>2 DEF PollStates
      <3>2. /\ c = CartAt(q)' /\ poll'[q].id = id
            /\ poll'[q].at \in {"fulfilling", "holding"}
            /\ poll'[q].order \in Orders
        BY <1>0, <2>2, <2>11, <3>1 DEF ReadForInvoice, GotoSeeing, CartAt, PollStates
      <3>3. \E t \in SettledPayments(c) : t.id = id
        BY <2>11, <3>1 DEF ReadForInvoice, BooksInv, PollsBacked
      <3>4. \E t \in SettledPayments(c)' : t.id = id
        BY <1>0, <3>3 DEF SettledKept
      <3> QED
        BY <3>2, <3>4 DEF Backed, SettledPayments
    <2> QED
      BY <1>8, <2>4, <2>5, <2>6, <2>7, <2>8, <2>9, <2>10, <2>11 DEF PollStep
  <1> QED
    BY <1>3, <1>4, <1>5, <1>6, <1>7, <1>8 DEF Next

LEMMA StepLocks ==
  ASSUME BooksInv, [Next]_vars
  PROVE  LocksHold'
  <1> USE DEF LocksHold, BooksInv
  <1>0. status \in [Carts -> Statuses] /\ accepting \subseteq Carts
    BY DEF TypeOK
  <1>1. ASSUME NEW c, NEW seen,
               NEW new \in {"payment_pending", "cancelled", "closed", "expired", "unreconciled"},
               ChangeStatusIfUnmoved(c, seen, new)
        PROVE  \A d \in accepting : status'[d] = "unreconciled"
    BY <1>0, <1>1 DEF ChangeStatusIfUnmoved, Moves, CanMove, StatusTransitions
  <1>2. CASE UNCHANGED vars
    BY <1>2 DEF vars
  <1>3. ASSUME NEW c \in Carts, LearnerStep(c)
        PROVE  LocksHold'
    <2>1. CASE HandOffFails(c) \/ Expire(c)
      BY <1>1, <2>1 DEF HandOffFails, Expire
    <2>2. CASE HandOff(c) \/ Replace(c)
      BY <1>0, <2>2 DEF HandOff, Replace, ChangeStatus, Moves, requests
    <2>3. CASE HandOffSucceeds(c) \/ FindLapsed(c) \/ \E o \in Orders : FindOrder(c, o)
      BY <2>3 DEF HandOffSucceeds, FindLapsed, FindOrder
    <2> QED
      BY <1>3, <2>1, <2>2, <2>3 DEF LearnerStep
  <1>4. ASSUME NEW c \in Carts, StaffStep(c)
        PROVE  LocksHold'
    <2>1. CASE RetryFulfillment(c)
      BY <2>1 DEF RetryFulfillment, requests
    <2>2. ASSUME NEW id \in Ids, RecordRefund(c, id)
          PROVE  LocksHold'
      BY <1>0, <2>2 DEF RecordRefund, Lock, ChangeStatus, requests
    <2>3. ASSUME NEW id \in Ids, AcceptPayment(c, id)
          PROVE  LocksHold'
      BY <1>0, <2>3 DEF AcceptPayment, ChangeStatus
    <2>4. CASE LockToAccept(c) \/ AbandonAcceptance(c)
      BY <2>4 DEF LockToAccept, AbandonAcceptance, Lock
    <2> QED
      BY <1>4, <2>1, <2>2, <2>3, <2>4 DEF StaffStep
  <1>5. ASSUME NEW p \in Polls, Crash(p) \/ \E o \in Orders : StartPoll(p, o)
        PROVE  LocksHold'
    BY <1>5 DEF Crash, StartPoll, requests
  <1>6. ASSUME NEW p \in Polls, PollStep(p)
        PROVE  LocksHold'
    <2>1. CASE EndUnpaid(p) \/ HoldUnreconciled(p)
      BY <1>1, <2>1 DEF EndUnpaid, HoldUnreconciled, requests
    <2>2. CASE \E answer \in {"success", "unpaid", "pending"} : GatewayAnswers(p, answer)
      BY <1>1, <2>2 DEF GatewayAnswers, requests
    <2>3. CASE SettlePayment(p)
      BY <1>0, <2>3 DEF SettlePayment, Moves, ChangeStatus, PollsBacked, Settleable, requests
    <2> QED
      BY <1>6, <2>1, <2>2, <2>3 DEF PollStep, NameOrder, LeaveUnasked, RejectSuccess, AcceptSuccess,
           Verify, FindDuplicate, RecordRefused, LosePayment, FailWrite, FailCommit, ReadForInvoice,
           IssueInvoice, FailFulfillment, requests
  <1> QED
    BY <1>2, <1>3, <1>4, <1>5, <1>6 DEF Next

-----------------------------------------------------------------------------
LEMMA BooksInvariant == Spec => []BooksInv
  <1>1. BooksInv /\ [Next]_vars => BooksInv'
    BY StepType, StepBooks, StepPolls, StepLocks DEF BooksInv
  <1> QED
    BY InitBooks, <1>1, PTL DEF Spec

\* Every variable of Settlement keeps its type, whatever polls, hand-offs and
\* staff actions interleave.
THEOREM TypeCorrect == Spec => []TypeOK
  <1>1. BooksInv => TypeOK
    BY DEF BooksInv
  <1> QED
    BY BooksInvariant, <1>1, PTL

\* However many polls settle however many carts (settle_payment) while staff
\* retry, accept and refund them (resolution.py): a gateway id is recorded
\* once, and a cart is paid exactly while one settled payment is on record.
THEOREM SettledOnce == Spec => []OneSettledPayment
  <1>1. BooksInv => OneSettledPayment
    BY DEF BooksInv
  <1> QED
    BY BooksInvariant, <1>1, PTL

\* record_refund writes one refund row per refunded cart, and nothing else
\* writes one.
THEOREM RefundedOnce == Spec => []OneRefund
  <1>1. BooksInv => OneRefund
    BY DEF BooksInv
  <1> QED
    BY BooksInvariant, <1>1, PTL

\* An invoice, whether a poll, a retry or an acceptance issued it, bills the
\* one settled payment of its cart.
THEOREM InvoicesBillPayments == Spec => []InvoiceBillsPayment
  <1>1. BooksInv => InvoiceBillsPayment
    BY DEF BooksInv
  <1> QED
    BY BooksInvariant, <1>1, PTL

(***************************************************************************)
(* Who invoices a cart.  The books say why: a cart is settled only while it *)
(* has no settled payment, so while no other poll is about to invoice it,   *)
(* and staff lock only a cart without an invoice.                          *)
(***************************************************************************)
LEMMA InitInvoices == Init => InvoicesInv
  BY DEF Init, InvoicesInv, OneBiller, InvoicesByDifferentHands, Invoicing, Idle

\* A step that issues nothing, and brings no poll to where it invoices.
LEMMA NothingIssued ==
  ASSUME InvoicesInv,
         UNCHANGED invoices,
         \A q \in Polls : Invoicing(q)' => Invoicing(q) /\ poll'[q].order = poll[q].order
  PROVE  InvoicesInv'
  BY DEF InvoicesInv, OneBiller, InvoicesByDifferentHands, CartAt

LEMMA SettlePaymentInvoices ==
  ASSUME BooksInv, InvoicesInv, NEW p \in Polls, SettlePayment(p)
  PROVE  InvoicesInv'
  <1>1. CartAt(p) \in Carts /\ Unsold(CartAt(p))
    BY CartAtType DEF SettlePayment, Moves, BooksInv, PollsBacked, Settleable, Unsold
  <1>2. PICK c \in Carts : c = CartAt(p)
    BY <1>1
  <1>3. /\ \A i \in invoices : i.cart # c
        /\ \A q \in Polls : Invoicing(q) => CartAt(q) # c
    BY <1>1, <1>2, UnsoldIsBlank DEF BooksInv, PollsBacked, Invoicing
  <1>4. /\ UNCHANGED invoices
        /\ CartAt(p)' = c
        /\ \A q \in Polls \ {p} : poll'[q] = poll[q]
    BY <1>2 DEF SettlePayment, GotoSeeing, BooksInv, TypeOK, PollStates, CartAt
  <1>5. \A q \in Polls \ {p} : Invoicing(q)' = Invoicing(q) /\ CartAt(q)' = CartAt(q)
    BY <1>4 DEF Invoicing, CartAt
  <1> QED
    BY <1>3, <1>4, <1>5 DEF InvoicesInv, OneBiller, InvoicesByDifferentHands

LEMMA IssueInvoiceInvoices ==
  ASSUME BooksInv, InvoicesInv, NEW p \in Polls, IssueInvoice(p)
  PROVE  InvoicesInv'
  <1>1. Invoicing(p) /\ p # "staff"
    BY SettlementAssumption DEF IssueInvoice, Invoicing
  <1>2. PICK i : i = Invoice(CartAt(p), poll[p].id, p)
    OBVIOUS
  <1>3. invoices' = invoices \cup {i} /\ i.cart = CartAt(p) /\ i.by = p
    BY <1>2 DEF IssueInvoice, Invoice
  <1>4. ~Invoicing(p)' /\ \A q \in Polls \ {p} : poll'[q] = poll[q]
    BY DEF IssueInvoice, Finish, Idle, BooksInv, TypeOK, Invoicing
  <1>5. \A q \in Polls \ {p} : Invoicing(q)' = Invoicing(q) /\ CartAt(q)' = CartAt(q)
    BY <1>4 DEF Invoicing, CartAt
  <1>6. OneBiller'
    BY <1>1, <1>3, <1>4, <1>5 DEF InvoicesInv, OneBiller
  <1>7. InvoicesByDifferentHands'
    BY <1>1, <1>3 DEF InvoicesInv, OneBiller, InvoicesByDifferentHands
  <1> QED
    BY <1>6, <1>7 DEF InvoicesInv

LEMMA StaffInvoices ==
  ASSUME InvoicesInv, NEW c, NEW id, ~Invoiced(c), UNCHANGED poll,
         invoices' \in {invoices, invoices \cup {Invoice(c, id, "staff")}}
  PROVE  InvoicesInv'
  <1>1. PICK i : i = Invoice(c, id, "staff")
    OBVIOUS
  <1>2. i.cart = c /\ i.by = "staff"
    BY <1>1 DEF Invoice
  <1>3. invoices' \in {invoices, invoices \cup {i}}
    BY <1>1
  <1> QED
    BY <1>2, <1>3 DEF InvoicesInv, OneBiller, InvoicesByDifferentHands, Invoiced, Invoicing, CartAt

LEMMA StepInvoices ==
  ASSUME BooksInv, InvoicesInv, [Next]_vars
  PROVE  InvoicesInv'
  <1>0. poll \in [Polls -> PollStates]
    BY DEF BooksInv, TypeOK
  <1>1. CASE UNCHANGED <<invoices, poll>>
    BY <1>1, NothingIssued DEF Invoicing
  <1>2. ASSUME NEW c \in Carts, LearnerStep(c)
        PROVE  InvoicesInv'
    BY <1>1, <1>2 DEF LearnerStep, HandOff, HandOffSucceeds, HandOffFails, FindLapsed, FindOrder,
         Expire, Replace
  <1>3. ASSUME NEW c \in Carts, StaffStep(c)
        PROVE  InvoicesInv'
    <2>1. CASE RetryFulfillment(c)
      BY <2>1, StaffInvoices DEF RetryFulfillment, Lock
    <2>2. ASSUME NEW id \in Ids, AcceptPayment(c, id)
          PROVE  InvoicesInv'
      <3>1. ~Invoiced(c)
        BY <2>2, UnsoldIsBlank DEF AcceptPayment, BooksInv, LocksHold, Unsold, Invoiced
      <3> QED
        BY <2>2, <3>1, StaffInvoices DEF AcceptPayment
    <2> QED
      BY <1>1, <1>3, <2>1, <2>2 DEF StaffStep, RecordRefund, LockToAccept, AbandonAcceptance
  <1>4. ASSUME NEW p \in Polls, Crash(p) \/ \E o \in Orders : StartPoll(p, o)
        PROVE  InvoicesInv'
    BY <1>0, <1>4, NothingIssued DEF Crash, StartPoll, Finish, Idle, Invoicing
  <1>5. ASSUME NEW p \in Polls, PollStep(p)
        PROVE  InvoicesInv'
    <2>1. ASSUME UNCHANGED invoices,
                 \A q \in Polls \ {p} : poll'[q] = poll[q],
                 ~Invoicing(p)' \/ (Invoicing(p) /\ poll'[p].order = poll[p].order)
          PROVE  InvoicesInv'
      BY <2>1, NothingIssued DEF Invoicing
    <2>2. CASE ReadForInvoice(p)
      BY <1>0, <2>1, <2>2 DEF ReadForInvoice, GotoSeeing, Invoicing, PollStates
    <2>3. CASE \/ NameOrder(p) \/ RejectSuccess(p) \/ Verify(p) \/ FindDuplicate(p)
               \/ RecordRefused(p) \/ LosePayment(p) \/ FailWrite(p) \/ FailCommit(p)
               \/ FailFulfillment(p)
      BY <1>0, <2>1, <2>3 DEF NameOrder, RejectSuccess, Verify, FindDuplicate, RecordRefused,
           LosePayment, FailWrite, FailCommit, FailFulfillment, Goto, GotoSeeing, Invoicing,
           PollStates
    <2>4. CASE LeaveUnasked(p) \/ EndUnpaid(p) \/ HoldUnreconciled(p)
      BY <1>0, <2>1, <2>4 DEF LeaveUnasked, EndUnpaid, HoldUnreconciled, Finish, Idle, Invoicing
    <2>5. ASSUME NEW answer \in {"success", "unpaid", "pending"}, GatewayAnswers(p, answer)
          PROVE  InvoicesInv'
      <3>1. /\ UNCHANGED invoices
            /\ \A q \in Polls \ {p} : poll'[q] = poll[q]
        BY <1>0, <2>5 DEF GatewayAnswers, Finish, GotoSeeing
      <3>2. poll'[p].at \in {"idle", "success", "unpaid"}
        <4>1. CASE answer = "pending"
          BY <1>0, <2>5, <4>1 DEF GatewayAnswers, Finish, Idle
        <4>2. CASE answer # "pending"
          <5> DEFINE seen == SeenAfter(CartAt(p), Seen(p), "payment_pending")
          <5>1. poll' = [poll EXCEPT ![p] = [poll[p] EXCEPT !.at = answer, !.seen = seen]]
            BY <2>5, <4>2 DEF GatewayAnswers, GotoSeeing
          <5> HIDE DEF seen
          <5> QED
            BY <1>0, <2>5, <4>2, <5>1 DEF PollStates
        <4> QED
          BY <4>1, <4>2
      <3> QED
        BY <2>1, <3>1, <3>2 DEF Invoicing
    <2>6. ASSUME NEW id \in Ids, AcceptSuccess(p, id)
          PROVE  InvoicesInv'
      <3>1. /\ UNCHANGED invoices
            /\ \A q \in Polls \ {p} : poll'[q] = poll[q]
        BY <1>0, <2>6 DEF AcceptSuccess, Finish
      <3>2. poll'[p].at \in {"idle", "verifying", "holding"}
        <4>1. CASE SettledInvoice(CartAt(p), id)
          BY <1>0, <2>6, <4>1 DEF AcceptSuccess, Finish, Idle
        <4>2. CASE ~SettledInvoice(CartAt(p), id)
          <5> DEFINE at == IF Seen(p) \in Settleable THEN "verifying" ELSE "holding"
          <5>1. poll' = [poll EXCEPT ![p] = [poll[p] EXCEPT !.id = id, !.at = at]]
            BY <2>6, <4>2 DEF AcceptSuccess
          <5>2. at \in {"verifying", "holding"}
            OBVIOUS
          <5> HIDE DEF at
          <5> QED
            BY <1>0, <5>1, <5>2 DEF PollStates
        <4> QED
          BY <4>1, <4>2
      <3> QED
        BY <2>1, <3>1, <3>2 DEF Invoicing
    <2> QED
      BY <1>5, <2>2, <2>3, <2>4, <2>5, <2>6, SettlePaymentInvoices, IssueInvoiceInvoices
      DEF PollStep
  <1> QED
    BY <1>1, <1>2, <1>3, <1>4, <1>5 DEF Next, vars

\* However many polls and staff actions race to invoice a cart
\* (issue_invoice_and_fulfill, retry_fulfillment, accept_payment), the polls
\* issue it one invoice at most and staff one at most.
THEOREM InvoicedOncePerHand == Spec => []InvoicesByDifferentHands
  <1>1. BooksInv /\ InvoicesInv /\ [Next]_vars => InvoicesInv'
    BY StepInvoices
  <1>2. InvoicesInv => InvoicesByDifferentHands
    BY DEF InvoicesInv
  <1> QED
    BY InitInvoices, BooksInvariant, <1>1, <1>2, PTL DEF Spec

LEMMA StepKeepsOrders ==
  ASSUME TypeOK, [Next]_vars
  PROVE  \A c \in Carts : order[c] # NoOrder => order'[c] = order[c]
  <1> USE DEF requests
  <1>0. order \in [Carts -> Orders \cup {NoOrder}]
    BY DEF TypeOK
  <1>1. CASE UNCHANGED order
    BY <1>1
  <1>2. ASSUME NEW c, NEW o, CanRecordOrder(c, o), order' = [order EXCEPT ![c] = o]
        PROVE  \A d \in Carts : order[d] # NoOrder => order'[d] = order[d]
    BY <1>0, <1>2 DEF CanRecordOrder
  <1>3. CASE UNCHANGED vars
    BY <1>1, <1>3 DEF vars
  <1>4. ASSUME NEW c \in Carts, LearnerStep(c)
        PROVE  \A d \in Carts : order[d] # NoOrder => order'[d] = order[d]
    <2>1. CASE HandOffSucceeds(c)
      BY <1>1, <1>2, <2>1 DEF HandOffSucceeds
    <2>2. CASE \E o \in Orders : FindOrder(c, o)
      BY <1>2, <2>2 DEF FindOrder
    <2> QED
      BY <1>1, <1>4, <2>1, <2>2 DEF LearnerStep, HandOff, HandOffFails, FindLapsed, Expire, Replace
  <1>5. ASSUME NEW c \in Carts, StaffStep(c)
        PROVE  UNCHANGED order
    BY <1>5 DEF StaffStep, RetryFulfillment, RecordRefund, AcceptPayment, LockToAccept,
                AbandonAcceptance
  <1>6. ASSUME NEW p \in Polls, Crash(p) \/ \E o \in Orders : StartPoll(p, o)
        PROVE  UNCHANGED order
    BY <1>6 DEF Crash, StartPoll
  <1>7. ASSUME NEW p \in Polls, PollStep(p)
        PROVE  \A d \in Carts : order[d] # NoOrder => order'[d] = order[d]
    <2>1. CASE NameOrder(p)
      BY <1>1, <1>2, <2>1 DEF NameOrder
    <2> QED
      BY <1>1, <1>7, <2>1 DEF PollStep, LeaveUnasked, GatewayAnswers, EndUnpaid, RejectSuccess,
         AcceptSuccess, Verify, FindDuplicate, RecordRefused, SettlePayment, LosePayment, FailWrite,
         FailCommit, ReadForInvoice, IssueInvoice, FailFulfillment, HoldUnreconciled
  <1> QED
    BY <1>1, <1>3, <1>4, <1>5, <1>6, <1>7 DEF Next

\* record_gateway_order never replaces an order: whichever of the hand-off, a
\* poll and a returning learner names one first, the cart keeps it.
THEOREM OrdersKept == Spec => OrderWrittenOnce
  <1>1. TypeOK /\ [Next]_vars => [\A c \in Carts : order[c] # NoOrder => order'[c] = order[c]]_vars
    BY StepKeepsOrders
  <1> QED
    BY TypeCorrect, <1>1, PTL DEF Spec, OrderWrittenOnce
=============================================================================
