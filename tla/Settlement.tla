----------------------------- MODULE Settlement -----------------------------
(***************************************************************************)
(* How a cart handed to a gateway becomes paid, held, ended or refunded.   *)
(*                                                                         *)
(* The actors are the hand-off (InitiatePaymentView), the polls of the     *)
(* status view (PaymentStatusViewMixin.get, each a process with its own    *)
(* in-memory cart), a learner coming back to buy again                     *)
(* (resolve_inflight_payment) and staff (resolution.py).  A poll is served *)
(* outside a transaction, so each statement of it commits by itself and    *)
(* every step of another request may fall between two of them.             *)
(*                                                                         *)
(* The gateway is external: it answers anything, at any time.              *)
(***************************************************************************)
EXTENDS CartStatus, Naturals

CONSTANTS
  Carts,      \* carts, each holding one item, all of one learner
  Orders,     \* orders a gateway opened
  Ids,        \* gateway transaction ids: of payments, and of refunds
  Polls,      \* the polls that may run at the same time
  NoOrder, NoId,
  CartOf,     \* the cart an order is for, as the merchant reference says
  ChargesOf,  \* the payments an order may be paid by
  ItemOf,     \* the catalogue item a cart holds
  Mortal,     \* the polls whose process may die
  Faults      \* what the database may do wrong: "write", "commit"

ASSUME SettlementAssumption ==
  /\ CartOf \in [Orders -> Carts]
  /\ ChargesOf \in [Orders -> SUBSET Ids]
  /\ NoOrder \notin Orders
  /\ NoId \notin Ids
  /\ "staff" \notin Polls
  /\ Mortal \subseteq Polls

VARIABLES
  status,        \* Cart.status, as stored
  order,         \* Cart.gateway_order_id, as stored
  transactions,  \* the rows of Transaction
  invoices,      \* the rows of Invoice, with the request that issued each
  poll,          \* the polls under way
  handing,       \* carts whose hand-off is calling the gateway
  lapsing,       \* carts a returning learner's request is about to expire
  accepting      \* carts whose row an acceptance has locked and checked

vars == <<status, order, transactions, invoices, poll, handing, lapsing, accepting>>

requests == <<handing, lapsing, accepting>>

Transactions == [id: Ids, cart: Carts, type: {"payment", "refund"}, settled: BOOLEAN]

\* again is kept only for the properties: the cart had an invoice by then.
Invoices == [cart: Carts, payment: Ids, by: Polls \cup {"staff"}, again: BOOLEAN]

Stages ==
  {"idle", "naming", "asking", "success", "unpaid", "verifying", "settling",
   "refusing", "issuing", "fulfilling", "holding"}

\* seen is the status the poll's instance of the cart holds; id the payment
\* it settles.
PollStates ==
  [at: Stages, order: Orders \cup {NoOrder}, seen: Statuses, id: Ids \cup {NoId}]

Idle == [at |-> "idle", order |-> NoOrder, seen |-> "pending", id |-> NoId]

CartAt(p) == CartOf[poll[p].order]

Seen(p) == poll[p].seen

\* Slip: only settled rows are looked at for a duplicate.
RecordedSettled(id) == \E t \in transactions : t.id = id /\ t.settled

Recorded(id) == \E t \in transactions : t.id = id

SettledPayments(c) ==
  {t \in transactions : t.cart = c /\ t.type = "payment" /\ t.settled}

\* The cart has an invoice (any, or one billing that very payment).
Invoiced(c) == \E i \in invoices : i.cart = c

SettledInvoice(c, id) == \E i \in invoices : i.cart = c /\ i.payment = id

Init ==
  /\ status = [c \in Carts |-> "pending"]
  /\ order = [c \in Carts |-> NoOrder]
  /\ transactions = {}
  /\ invoices = {}
  /\ poll = [p \in Polls |-> Idle]
  /\ handing = {}
  /\ lapsing = {}
  /\ accepting = {}

-----------------------------------------------------------------------------
(***************************************************************************)
(* Cart.change_status: the move must be in the table from the status the   *)
(* caller's instance holds, and the stored status must still be that one.  *)
(***************************************************************************)
\* Slip: the stored status is not compared.
MovesUncompared(c, seen, new) == CanMove(seen, new)

Moves(c, seen, new) == CanMove(seen, new) /\ status[c] = seen

ChangeStatus(c, new) == status' = [status EXCEPT ![c] = new]

\* Slip: the update is not conditional.
ChangeStatusAnyway(c, seen, new) ==
  status' = IF CanMove(seen, new) THEN [status EXCEPT ![c] = new] ELSE status

\* Written or not, the caller goes on.
ChangeStatusIfUnmoved(c, seen, new) ==
  status' = IF Moves(c, seen, new) THEN [status EXCEPT ![c] = new] ELSE status

\* What the instance holds afterwards: a refused move refreshes it.
SeenAfter(c, seen, new) ==
  IF Moves(c, seen, new) THEN new
  ELSE IF CanMove(seen, new) THEN status[c] ELSE seen

\* Slip: an order already recorded is not looked for.
CanReplaceOrder(c, o) ==
  /\ status[c] \in InFlight
  /\ \A d \in Carts : order[d] # o

\* Cart.record_gateway_order: one conditional update, under the unique pair
\* of gateway and order id.
CanRecordOrder(c, o) ==
  /\ status[c] \in InFlight
  /\ order[c] = NoOrder
  /\ \A d \in Carts : order[d] # o

\* BaseProcessor.find_cart_bought_instead.
BoughtInstead(c) ==
  \E d \in Carts \ {c} : ItemOf[d] = ItemOf[c] /\ status[d] = "paid"

-----------------------------------------------------------------------------
(***************************************************************************)
(* The hand-off.                                                           *)
(***************************************************************************)

\* InitiatePaymentView moves the cart before it calls the gateway.
HandOff(c) ==
  /\ status[c] = "pending"
  /\ ChangeStatus(c, "processing")
  /\ handing' = handing \cup {c}
  /\ UNCHANGED <<order, transactions, invoices, poll, lapsing, accepting>>

\* The gateway answered, and named its order or not.
HandOffSucceeds(c) ==
  /\ c \in handing
  /\ \/ UNCHANGED order
     \/ \E o \in Orders : /\ CartOf[o] = c
                          /\ CanRecordOrder(c, o)
                          /\ order' = [order EXCEPT ![c] = o]
  /\ handing' = handing \ {c}
  /\ UNCHANGED <<status, transactions, invoices, poll, lapsing, accepting>>

\* The call raised, or its order could not be recorded: the cart is closed,
\* unless another request moved it while the gateway was being called.
HandOffFails(c) ==
  /\ c \in handing
  /\ ChangeStatusIfUnmoved(c, "processing", "closed")
  /\ handing' = handing \ {c}
  /\ UNCHANGED <<order, transactions, invoices, poll, lapsing, accepting>>

-----------------------------------------------------------------------------
(***************************************************************************)
(* A learner comes back to buy the item of a cart still processing.        *)
(***************************************************************************)

\* resolve_inflight_payment found no order for the cart it read, and its
\* payment session is over.  (Its processor has a waiting page, so a cart with
\* an order is resumed there and never gets here.)
FindLapsed(c) ==
  /\ status[c] = "processing"
  /\ order[c] = NoOrder
  /\ lapsing' = lapsing \cup {c}
  /\ UNCHANGED <<status, order, transactions, invoices, poll, handing, accepting>>

\* The gateway, searched, names the order after all: it is recorded, and the
\* learner goes back to its waiting page.
FindOrder(c, o) ==
  /\ c \in lapsing
  /\ CartOf[o] = c
  /\ CanRecordOrder(c, o)
  /\ order' = [order EXCEPT ![c] = o]
  /\ lapsing' = lapsing \ {c}
  /\ UNCHANGED <<status, transactions, invoices, poll, handing, accepting>>

Expire(c) ==
  /\ c \in lapsing
  /\ ChangeStatusIfUnmoved(c, "processing", "expired")
  /\ lapsing' = lapsing \ {c}
  /\ UNCHANGED <<order, transactions, invoices, poll, handing, accepting>>

-----------------------------------------------------------------------------
(***************************************************************************)
(* The poll, PaymentStatusViewMixin.get.                                   *)
(***************************************************************************)
Goto(p, at) == poll' = [poll EXCEPT ![p].at = at]

\* The poll goes on with an instance that holds another status.
GotoSeeing(p, at, seen) == poll' = [poll EXCEPT ![p] = [@ EXCEPT !.at = at, !.seen = seen]]

Finish(p) == poll' = [poll EXCEPT ![p] = Idle]

\* The gateway says which cart the order is for, and the cart is read.
StartPoll(p, o) ==
  /\ poll[p].at = "idle"
  /\ status[CartOf[o]] # "pending"
  /\ poll' = [poll EXCEPT ![p] =
                [at |-> IF order[CartOf[o]] = NoOrder THEN "naming" ELSE "asking",
                 order |-> o, seen |-> status[CartOf[o]], id |-> NoId]]
  /\ UNCHANGED <<status, order, transactions, invoices, requests>>

\* The cart read had no order: the poll's is recorded, when it can be.
NameOrder(p) ==
  /\ poll[p].at = "naming"
  /\ order' = IF CanRecordOrder(CartAt(p), poll[p].order)
              THEN [order EXCEPT ![CartAt(p)] = poll[p].order] ELSE order
  /\ Goto(p, "asking")
  /\ UNCHANGED <<status, transactions, invoices, requests>>

\* A cart held unreconciled is not asked about again; or the gateway cannot
\* be asked, or gave no answer.
LeaveUnasked(p) ==
  /\ poll[p].at = "asking"
  /\ Finish(p)
  /\ UNCHANGED <<status, order, transactions, invoices, requests>>

\* Any answer moves a cart read as processing to awaiting payment.  "pending"
\* also stands for an answer that cannot be read, which is only logged.
GatewayAnswers(p, answer) ==
  /\ poll[p].at = "asking"
  /\ Seen(p) # "unreconciled"
  /\ ChangeStatusIfUnmoved(CartAt(p), Seen(p), "payment_pending")
  /\ IF answer = "pending" THEN Finish(p)
     ELSE GotoSeeing(p, answer, SeenAfter(CartAt(p), Seen(p), "payment_pending"))
  /\ UNCHANGED <<order, transactions, invoices, requests>>

\* end_unpaid: a decline or a cancellation ends only a cart awaiting payment.
EndUnpaid(p) ==
  /\ poll[p].at = "unpaid"
  /\ ChangeStatusIfUnmoved(CartAt(p), Seen(p), "cancelled")
  /\ Finish(p)
  /\ UNCHANGED <<order, transactions, invoices, requests>>

\* settle_payment: the success answer fails verification, its details cannot
\* be read, or the site its reference names is gone.
RejectSuccess(p) ==
  /\ poll[p].at = "success"
  /\ Goto(p, "holding")
  /\ UNCHANGED <<status, order, transactions, invoices, requests>>

\* The success answer is for payment id.  One already invoiced is answered
\* with its invoice; a cart read past payment is refused.
AcceptSuccess(p, id) ==
  /\ poll[p].at = "success"
  /\ id \in ChargesOf[poll[p].order]
  /\ IF SettledInvoice(CartAt(p), id) THEN Finish(p)
     ELSE poll' = [poll EXCEPT ![p] = [@ EXCEPT !.id = id,
            !.at = IF Seen(p) \in Settleable THEN "verifying" ELSE "holding"]]
  /\ UNCHANGED <<status, order, transactions, invoices, requests>>

\* handle_payment, before it writes: the money taken may not be the cart's
\* total, and an expired cart's item may have been bought again.
Verify(p) ==
  /\ poll[p].at = "verifying"
  /\ \/ Goto(p, "refusing")
     \/ /\ ~(Seen(p) = "expired" /\ BoughtInstead(CartAt(p)))
        /\ Goto(p, "settling")
  /\ UNCHANGED <<status, order, transactions, invoices, requests>>

\* Slip: a duplicate is answered as settled.
FindDuplicateDone(p) ==
  /\ poll[p].at \in {"settling", "refusing"}
  /\ Recorded(poll[p].id)
  /\ Finish(p)
  /\ UNCHANGED <<status, order, transactions, invoices, requests>>

\* The row is already there, under this cart or another.
FindDuplicate(p) ==
  /\ poll[p].at \in {"settling", "refusing"}
  /\ Recorded(poll[p].id)
  /\ Goto(p, "holding")
  /\ UNCHANGED <<status, order, transactions, invoices, requests>>

\* Slip: a row of a type the register does not have.
RowMistyped(c, id, type, settled) ==
  [id |-> id, cart |-> c, type |-> "charge", settled |-> settled]

Row(c, id, type, settled) == [id |-> id, cart |-> c, type |-> type, settled |-> settled]

\* The row is written annotated, and the cart is not paid.
RecordRefused(p) ==
  /\ poll[p].at = "refusing"
  /\ ~Recorded(poll[p].id)
  /\ transactions' = transactions \cup {Row(CartAt(p), poll[p].id, "payment", FALSE)}
  /\ Goto(p, "holding")
  /\ UNCHANGED <<status, order, invoices, requests>>

\* The row and the move to paid are committed together.
SettlePayment(p) ==
  /\ poll[p].at = "settling"
  /\ ~Recorded(poll[p].id)
  /\ Moves(CartAt(p), Seen(p), "paid")
  /\ transactions' = transactions \cup {Row(CartAt(p), poll[p].id, "payment", TRUE)}
  /\ ChangeStatus(CartAt(p), "paid")
  /\ GotoSeeing(p, "issuing", "paid")
  /\ UNCHANGED <<order, invoices, requests>>

\* Another request moved the cart first: the refused move rolls the row back.
LosePayment(p) ==
  /\ poll[p].at = "settling"
  /\ ~Recorded(poll[p].id)
  /\ ~Moves(CartAt(p), Seen(p), "paid")
  /\ GotoSeeing(p, "holding", SeenAfter(CartAt(p), Seen(p), "paid"))
  /\ UNCHANGED <<status, order, transactions, invoices, requests>>

\* The database refuses the row, or, once the instance reads paid, the commit.
FailWrite(p) ==
  /\ "write" \in Faults
  /\ poll[p].at \in {"settling", "refusing"}
  /\ Goto(p, "holding")
  /\ UNCHANGED <<status, order, transactions, invoices, requests>>

FailCommit(p) ==
  /\ "commit" \in Faults
  /\ poll[p].at = "settling"
  /\ ~Recorded(poll[p].id)
  /\ Moves(CartAt(p), Seen(p), "paid")
  /\ GotoSeeing(p, "holding", "paid")
  /\ UNCHANGED <<status, order, transactions, invoices, requests>>

\* issue_invoice_and_fulfill reads the cart again, without locking it, and
\* create_invoice refuses a cart that is not paid.
ReadForInvoice(p) ==
  /\ poll[p].at = "issuing"
  /\ GotoSeeing(p, IF status[CartAt(p)] = "paid" THEN "fulfilling" ELSE "holding",
                status[CartAt(p)])
  /\ UNCHANGED <<status, order, transactions, invoices, requests>>

Invoice(c, id, by) == [cart |-> c, payment |-> id, by |-> by, again |-> Invoiced(c)]

\* The invoice and the enrolments are committed together.
IssueInvoice(p) ==
  /\ poll[p].at = "fulfilling"
  /\ invoices' = invoices \cup {Invoice(CartAt(p), poll[p].id, p)}
  /\ Finish(p)
  /\ UNCHANGED <<status, order, transactions, requests>>

\* Either failing rolls both back and leaves the cart paid.
FailFulfillment(p) ==
  /\ poll[p].at = "fulfilling"
  /\ Goto(p, "holding")
  /\ UNCHANGED <<status, order, transactions, invoices, requests>>

\* Slip: an expired cart is not held.
HoldableAwaiting == {"payment_pending"}

Holdable == {"payment_pending", "expired"}

\* hold_unreconciled: a success that was not settled leaves the cart held.
HoldUnreconciled(p) ==
  /\ poll[p].at = "holding"
  /\ IF Seen(p) \in Holdable
     THEN ChangeStatusIfUnmoved(CartAt(p), Seen(p), "unreconciled")
     ELSE UNCHANGED status
  /\ Finish(p)
  /\ UNCHANGED <<order, transactions, invoices, requests>>

\* The process serving the poll dies between two statements.
Crash(p) ==
  /\ p \in Mortal
  /\ poll[p].at # "idle"
  /\ Finish(p)
  /\ UNCHANGED <<status, order, transactions, invoices, requests>>

-----------------------------------------------------------------------------
(***************************************************************************)
(* Staff, resolution.py.  Each action locks the cart's row and refuses a   *)
(* cart with an invoice.  What a retry and a refund read is protected by   *)
(* that lock, so each is one step; an acceptance also reads other carts,   *)
(* unlocked, so its checks and its writes are two.                         *)
(***************************************************************************)
\* Slips: a cart with an invoice is not refused; the row is not locked
\* against another action; its status is not checked under the lock.
LockBilled(c, resolvable) == c \notin accepting /\ status[c] \in resolvable

LockUnheld(c, resolvable) == status[c] \in resolvable /\ ~Invoiced(c)

LockUnchecked(c, resolvable) ==
  c \notin accepting /\ status[c] \in resolvable \cup {"refunded"} /\ ~Invoiced(c)

Lock(c, resolvable) ==
  /\ c \notin accepting
  /\ status[c] \in resolvable
  /\ ~Invoiced(c)

\* Slip: a refused row is taken for a settled one.
ThePayment(c, t) == t \in transactions /\ t.cart = c /\ t.type = "payment"

\* _get_settled_payment: exactly one.
TheSettledPayment(c, t) == SettledPayments(c) = {t}

\* retry_fulfillment; one that fails again changes nothing.
RetryFulfillment(c) ==
  /\ Lock(c, {"paid"})
  /\ \E t \in transactions :
       /\ TheSettledPayment(c, t)
       /\ invoices' = invoices \cup {Invoice(c, t.id, "staff")}
  /\ UNCHANGED <<status, order, transactions, poll, requests>>

\* record_refund, under the reference the gateway gave the refund.
RecordRefund(c, id) ==
  /\ Lock(c, {"paid", "unreconciled"})
  /\ status[c] = "paid" => \E t \in transactions : TheSettledPayment(c, t)
  /\ ~Recorded(id)
  /\ transactions' = transactions \cup {Row(c, id, "refund", TRUE)}
  /\ ChangeStatus(c, "refunded")
  /\ UNCHANGED <<order, invoices, poll, requests>>

\* accept_payment, its checks.
LockToAccept(c) ==
  /\ Lock(c, {"unreconciled"})
  /\ ~BoughtInstead(c)
  /\ accepting' = accepting \cup {c}
  /\ UNCHANGED <<status, order, transactions, invoices, poll, handing, lapsing>>

\* The row of the accepted payment is made settled, or one is written, unless
\* the id is recorded as something else; the cart is paid, and invoiced when
\* fulfilling it does not fail.
AcceptPayment(c, id) ==
  /\ c \in accepting
  /\ \A t \in transactions : t.id = id => t.cart = c /\ t.type = "payment"
  /\ transactions' = {t \in transactions : t.id # id} \cup {Row(c, id, "payment", TRUE)}
  /\ ChangeStatus(c, "paid")
  /\ invoices' \in {invoices, invoices \cup {Invoice(c, id, "staff")}}
  /\ accepting' = accepting \ {c}
  /\ UNCHANGED <<order, poll, handing, lapsing>>

\* The acceptance is refused or fails, and is rolled back.
AbandonAcceptance(c) ==
  /\ c \in accepting
  /\ accepting' = accepting \ {c}
  /\ UNCHANGED <<status, order, transactions, invoices, poll, handing, lapsing>>

\* cancel_old_pending_carts: a newer cart replaces one not handed off.
Replace(c) ==
  /\ Moves(c, "pending", "cancelled")
  /\ ChangeStatus(c, "cancelled")
  /\ UNCHANGED <<order, transactions, invoices, poll, requests>>

-----------------------------------------------------------------------------
PollStep(p) ==
  \/ NameOrder(p)
  \/ LeaveUnasked(p)
  \/ \E answer \in {"success", "unpaid", "pending"} : GatewayAnswers(p, answer)
  \/ EndUnpaid(p)
  \/ RejectSuccess(p)
  \/ \E id \in Ids : AcceptSuccess(p, id)
  \/ Verify(p)
  \/ FindDuplicate(p)
  \/ RecordRefused(p)
  \/ SettlePayment(p)
  \/ LosePayment(p)
  \/ FailWrite(p)
  \/ FailCommit(p)
  \/ ReadForInvoice(p)
  \/ IssueInvoice(p)
  \/ FailFulfillment(p)
  \/ HoldUnreconciled(p)

LearnerStep(c) ==
  \/ HandOff(c)
  \/ HandOffSucceeds(c)
  \/ HandOffFails(c)
  \/ FindLapsed(c)
  \/ \E o \in Orders : FindOrder(c, o)
  \/ Expire(c)
  \/ Replace(c)

StaffStep(c) ==
  \/ RetryFulfillment(c)
  \/ \E id \in Ids : RecordRefund(c, id) \/ AcceptPayment(c, id)
  \/ LockToAccept(c)
  \/ AbandonAcceptance(c)

Next ==
  \/ \E c \in Carts : LearnerStep(c) \/ StaffStep(c)
  \/ \E p \in Polls : PollStep(p) \/ Crash(p) \/ \E o \in Orders : StartPoll(p, o)

Spec == Init /\ [][Next]_vars

\* A request once begun is served to its end; nothing makes anyone begin one.
FairSpec == Spec /\ \A p \in Polls : WF_vars(PollStep(p))

-----------------------------------------------------------------------------
TypeOK ==
  /\ status \in [Carts -> Statuses]
  /\ order \in [Carts -> Orders \cup {NoOrder}]
  /\ transactions \subseteq Transactions
  /\ invoices \subseteq Invoices
  /\ poll \in [Polls -> PollStates]
  /\ handing \subseteq Carts
  /\ lapsing \subseteq Carts
  /\ accepting \subseteq Carts

Open == {"pending", "processing", "payment_pending", "expired"}

\* The register of transactions holds one row per gateway id, a settled
\* payment only under a cart that is paid or was refunded, and one at most
\* under each cart; a paid cart has one.
OneSettledPayment ==
  /\ \A t, u \in transactions : t.id = u.id => t = u
  /\ \A c \in Carts :
       /\ \A t, u \in SettledPayments(c) : t = u
       /\ SettledPayments(c) # {} => status[c] \in {"paid", "refunded"}
       /\ status[c] = "paid" => SettledPayments(c) # {}

\* A cart is refunded under one refund row, and a refund row is on no other.
OneRefund ==
  \A c \in Carts :
    /\ status[c] = "refunded" <=> \E t \in transactions : t.cart = c /\ t.type = "refund"
    /\ \A t, u \in transactions :
         t.cart = c /\ u.cart = c /\ t.type = "refund" /\ u.type = "refund" => t = u

\* Whoever issued it, an invoice bills the one settled payment of its cart.
InvoiceBillsPayment ==
  \A i \in invoices : \E t \in SettledPayments(i.cart) : t.id = i.payment

\* A cart gets one invoice from the polls, however many of them settle, and
\* one from staff, whether they retry it or accept its payment: all that two
\* invoices of a cart can be is a poll's and a retry's.
InvoicesByDifferentHands ==
  \A i, j \in invoices :
    i.cart = j.cart /\ (i.by = "staff" <=> j.by = "staff") => i = j

\* Written once: no poll, hand-off or lookup ever replaces an order recorded.
OrderWrittenOnce ==
  [][\A c \in Carts : order[c] # NoOrder => order'[c] = order[c]]_vars

\* What a poll has still to go through once it read a success.
StepsLeft ==
  [success |-> 6, verifying |-> 5, settling |-> 4, refusing |-> 4, issuing |-> 3,
   fulfilling |-> 2, holding |-> 1]

Answered == DOMAIN StepsLeft

GoesForward(p) ==
  /\ poll'[p].at \in Answered
  /\ StepsLeft[poll'[p].at] < StepsLeft[poll[p].at]
  /\ poll'[p].order = poll[p].order

EndsDecided(p) == poll'[p] = Idle /\ status'[CartAt(p)] \notin Open

\* A poll that read a success goes forward with that cart until it leaves it
\* where no decline may still end it, nor the learner is let to buy again:
\* settled, held, or decided meanwhile by some other request.  Only its death
\* ends it earlier.
SuccessNeverLeftOpen ==
  [][\A p \in Polls : poll[p].at \in Answered =>
       poll'[p] = poll[p] \/ GoesForward(p) \/ EndsDecided(p) \/ Crash(p)]_vars

\* A success answer read by a poll that lives is always followed by a decision
\* about the cart, whichever other polls die and whichever writes fail.
SuccessIsDecided ==
  \A p \in Polls \ Mortal, c \in Carts :
    poll[p].at = "success" /\ CartAt(p) = c ~> status[c] \notin Open

-----------------------------------------------------------------------------
(***************************************************************************)
(* The inductive invariant behind the properties above.                    *)
(***************************************************************************)

\* What a poll under way relies on: the payment it records is a gateway's,
\* it records one only for a cart it read as unsettled, and it invoices only
\* a payment settled for its cart.
PollsBacked ==
  \A p \in Polls :
    /\ poll[p].at # "idle" => poll[p].order \in Orders
    /\ poll[p].at \in {"verifying", "settling", "refusing"} =>
         poll[p].id \in Ids /\ Seen(p) \in Settleable
    /\ poll[p].at \in {"issuing", "fulfilling"} =>
         \E t \in SettledPayments(CartAt(p)) : t.id = poll[p].id

\* A row locked by an acceptance stays as the acceptance read it.
LocksHold == \A c \in accepting : status[c] = "unreconciled"

\* The poll that settled a cart is the only one that invoices it, and only
\* staff can have done so before it.
Invoicing(p) == poll[p].at \in {"issuing", "fulfilling"}

OneBiller ==
  \A p \in Polls : Invoicing(p) =>
    /\ \A q \in Polls : Invoicing(q) /\ CartAt(p) = CartAt(q) => p = q
    /\ \A i \in invoices : i.cart = CartAt(p) => i.by = "staff"

InvoicesInv == OneBiller /\ InvoicesByDifferentHands

BooksInv ==
  TypeOK /\ OneSettledPayment /\ OneRefund /\ InvoiceBillsPayment /\ PollsBacked /\ LocksHold

\* What a poll read is what the cart still is, unless the cart was decided
\* since; only a poll that has not heard from the gateway may be behind.
PollsKeepUp ==
  \A p \in Polls : poll[p].at # "idle" =>
    /\ status[CartAt(p)] # "pending"
    /\ Seen(p) = "processing" => poll[p].at \in {"naming", "asking"}
    /\ Seen(p) # "processing" => status[CartAt(p)] \in {Seen(p)} \cup (Statuses \ Open)

-----------------------------------------------------------------------------
(***************************************************************************)
(* What the sale of a cart looks like to Purchase.                         *)
(***************************************************************************)
Phase(s) ==
  CASE s \in Open -> "open"
    [] s = "unreconciled" -> "held"
    [] s = "paid" -> "sold"
    [] s = "refunded" -> "refunded"
    [] OTHER -> "void"

IdOf(rows) == IF rows = {} THEN NoId ELSE (CHOOSE t \in rows : TRUE).id

Refunds(c) == {t \in transactions : t.cart = c /\ t.type = "refund"}

Sale == INSTANCE Purchase WITH
  phase <- [c \in Carts |-> Phase(status[c])],
  payment <- [c \in Carts |-> IdOf(SettledPayments(c))],
  refund <- [c \in Carts |-> IdOf(Refunds(c))]

\* Polls, hand-offs, lookups and staff together keep what a cart promises: it
\* is sold once, under one payment recorded in the same step, and refunded
\* once, and a sale ends only in a recorded refund.
ImplementsPurchase == Sale!Spec

-----------------------------------------------------------------------------
(***************************************************************************)
(* What the code's own comments promise, and the interleavings break.      *)
(***************************************************************************)

\* "the second waits and is then refused instead of issuing a second invoice"
\* (resolution.py): a cart has at most one invoice.
OneInvoicePerCart == \A i, j \in invoices : i.cart = j.cart => i = j
=============================================================================
