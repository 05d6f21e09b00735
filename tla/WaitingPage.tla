----------------------------- MODULE WaitingPage -----------------------------
(***************************************************************************)
(* What a learner back from the gateway is shown.                          *)
(*                                                                         *)
(* The return view (PaymentReturnViewMixin) renders a page whose script    *)
(* (wait_feedback.html) polls the status view and leaves for another page  *)
(* on the outcome the poll is answered with.  A learner may have the page  *)
(* open in several tabs, may lose an answer on the way, and may be logged  *)
(* out meanwhile; the request goes on when its answer is lost.             *)
(*                                                                         *)
(* There is one order, of one cart, paid by at most one payment.  The      *)
(* gateway is external: it may answer late or not at all, and does not     *)
(* take back how a payment ended.  Settlement is the inside of the poll,   *)
(* with more carts, orders and payments; here it is cut where the page can *)
(* tell the difference.                                                    *)
(***************************************************************************)
EXTENDS CartStatus, Naturals

CONSTANTS
  Tabs,         \* the tabs a learner may have the page open in
  MaxAttempts   \* PaymentReturnViewMixin.MAX_ATTEMPTS

ASSUME PageAssumption == MaxAttempts \in Nat \ {0}

VARIABLES
  payment,   \* what has become of the payment at the gateway
  status,    \* Cart.status
  named,     \* the cart has the order recorded
  recorded,  \* the payment has a Transaction row
  invoiced,  \* the payment has an Invoice
  session,   \* the learner is logged in
  page,      \* where each tab is
  attempts,  \* how many times it has polled since it was loaded
  request    \* the poll each tab has under way

vars == <<payment, status, named, recorded, invoiced, session, page, attempts, request>>

cart == <<status, named, recorded, invoiced>>

Unpaid == {"declined", "cancelled"}

\* PaymentStatusViewMixin.Outcome, as far as a poll with an order id gets.
Outcomes ==
  {"paid", "pending", "login_required", "gateway_error", "invalid_reference",
   "unexpected_response", "not_fulfilled", "verification_failed"} \cup Unpaid

\* A tab is on the page, on its way to another, or on one it stays on.
OnPage == {"waiting", "asking"}
Leaving == {"to_invoice", "to_decline"}
Staying ==
  {"away", "invoice", "private", "decline", "retry", "reconciliation",
   "unconfirmed", "login", "error"}

NoRequest == [at |-> "none", seen |-> "pending", refusal |-> "not_fulfilled"]

Requests ==
  [at: {"none", "reading", "asking", "settling", "issuing", "holding"},
   seen: Statuses, refusal: {"not_fulfilled", "verification_failed"}]

\* The cart was handed off, its order named in the hand-off or not.
Init ==
  /\ payment = "open"
  /\ status = "processing"
  /\ named \in BOOLEAN
  /\ recorded = FALSE
  /\ invoiced = FALSE
  /\ session = TRUE
  /\ page = [t \in Tabs |-> "away"]
  /\ attempts = [t \in Tabs |-> 0]
  /\ request = [t \in Tabs |-> NoRequest]

-----------------------------------------------------------------------------
(***************************************************************************)
(* The page.                                                               *)
(***************************************************************************)
\* Slip: what is not a success is taken for a decline.
RouteFailures(outcome, tries) ==
  CASE outcome = "paid" -> "to_invoice"
    [] outcome = "pending" -> IF tries < MaxAttempts THEN "waiting" ELSE "unconfirmed"
    [] outcome \in {"not_fulfilled", "verification_failed"} -> "reconciliation"
    [] outcome = "login_required" -> "login"
    [] OTHER -> "to_decline"

\* Slip: one attempt too many.
RouteOneMore(outcome, tries) ==
  CASE outcome = "paid" -> "to_invoice"
    [] outcome = "pending" -> IF tries <= MaxAttempts THEN "waiting" ELSE "unconfirmed"
    [] outcome \in {"not_fulfilled", "verification_failed"} -> "reconciliation"
    [] outcome = "login_required" -> "login"
    [] outcome \in Unpaid -> "to_decline"
    [] OTHER -> "unconfirmed"

\* checkStatus: where an answer sends the tab.
Route(outcome, tries) ==
  CASE outcome = "paid" -> "to_invoice"
    [] outcome = "pending" -> IF tries < MaxAttempts THEN "waiting" ELSE "unconfirmed"
    [] outcome \in {"not_fulfilled", "verification_failed"} -> "reconciliation"
    [] outcome = "login_required" -> "login"
    [] outcome \in Unpaid -> "to_decline"
    [] OTHER -> "unconfirmed"

\* The poll of a tab ends; a tab no longer waiting for it ignores the answer.
Answer(t, outcome) ==
  /\ request' = [request EXCEPT ![t] = NoRequest]
  /\ page' = [page EXCEPT ![t] = IF @ = "asking" THEN Route(outcome, attempts[t]) ELSE @]
  /\ UNCHANGED <<payment, session, attempts>>

\* The poll goes on.
Goto(t, at, seen) ==
  /\ request' = [request EXCEPT ![t] = [@ EXCEPT !.at = at, !.seen = seen]]
  /\ UNCHANGED <<payment, session, page, attempts>>

\* The gateway's redirect, a reload, or the checkout resuming the payment.
OpenPage(t) ==
  /\ page[t] \in Staying
  /\ request[t] = NoRequest
  /\ page' = [page EXCEPT ![t] = "waiting"]
  /\ attempts' = [attempts EXCEPT ![t] = 0]
  /\ UNCHANGED <<payment, session, request, cart>>

\* A redirect without the gateway's order id.
OpenNameless(t) ==
  /\ page[t] = "away"
  /\ page' = [page EXCEPT ![t] = "error"]
  /\ UNCHANGED <<payment, session, attempts, request, cart>>

\* Slip: only the load is counted, not the attempts the timer makes.
PollUncounted(t) ==
  /\ page[t] = "waiting"
  /\ page' = [page EXCEPT ![t] = "asking"]
  /\ attempts' = [attempts EXCEPT ![t] = 1]
  /\ request' = [request EXCEPT ![t] = [NoRequest EXCEPT !.at = "reading"]]
  /\ UNCHANGED <<payment, session, cart>>

Poll(t) ==
  /\ page[t] = "waiting"
  /\ page' = [page EXCEPT ![t] = "asking"]
  /\ attempts' = [attempts EXCEPT ![t] = @ + 1]
  /\ request' = [request EXCEPT ![t] = [NoRequest EXCEPT !.at = "reading"]]
  /\ UNCHANGED <<payment, session, cart>>

\* No answer can be read, though the poll may still be served.
LoseAnswer(t) ==
  /\ page[t] = "asking"
  /\ page' = [page EXCEPT ![t] = "unconfirmed"]
  /\ UNCHANGED <<payment, session, attempts, request, cart>>

\* The process serving the poll dies.
Die(t) ==
  /\ request[t] # NoRequest
  /\ request' = [request EXCEPT ![t] = NoRequest]
  /\ page' = [page EXCEPT ![t] = IF @ = "asking" THEN "unconfirmed" ELSE @]
  /\ UNCHANGED <<payment, session, attempts, cart>>

\* InvoiceView shows an invoice to its owner only.
ShowInvoice(t) ==
  /\ page[t] = "to_invoice"
  /\ page' = [page EXCEPT ![t] = IF session THEN "invoice" ELSE "private"]
  /\ UNCHANGED <<payment, session, attempts, request, cart>>

\* PaymentDeclineView offers another attempt to the learner whose cart the
\* order is recorded on.
ShowDecline(t) ==
  /\ page[t] = "to_decline"
  /\ page' = [page EXCEPT ![t] = IF session /\ named THEN "retry" ELSE "decline"]
  /\ UNCHANGED <<payment, session, attempts, request, cart>>

\* Logging in comes back to the page, loaded anew.
LogIn ==
  /\ ~session
  /\ session' = TRUE
  /\ page' = [t \in Tabs |-> IF page[t] = "login" /\ request[t] = NoRequest THEN "waiting" ELSE page[t]]
  /\ attempts' = [t \in Tabs |-> IF page'[t] = page[t] THEN attempts[t] ELSE 0]
  /\ UNCHANGED <<payment, request, cart>>

SessionExpires ==
  /\ session
  /\ session' = FALSE
  /\ UNCHANGED <<payment, page, attempts, request, cart>>

-----------------------------------------------------------------------------
(***************************************************************************)
(* The poll, as the page sees it.                                          *)
(***************************************************************************)
Moves(seen, new) == CanMove(seen, new) /\ status = seen

MoveIfUnmoved(seen, new) == status' = IF Moves(seen, new) THEN new ELSE status

\* Slip: a refused move does not refresh the instance.
SeenUnrefreshed(seen, new) == IF Moves(seen, new) THEN new ELSE seen

SeenAfter(seen, new) ==
  IF Moves(seen, new) THEN new ELSE IF CanMove(seen, new) THEN status ELSE seen

\* handle_no_permission.
RefuseStranger(t) ==
  /\ request[t].at = "reading"
  /\ ~session
  /\ Answer(t, "login_required")
  /\ UNCHANGED cart

\* The gateway cannot be asked which cart the order is for, or names none.
FailToTrace(t) ==
  /\ request[t].at = "reading"
  /\ session
  /\ \E outcome \in {"gateway_error", "invalid_reference"} : Answer(t, outcome)
  /\ UNCHANGED cart

\* The cart is read, and the order recorded on it when it has none; one held
\* unreconciled is not asked about again.
ReadCart(t) ==
  /\ request[t].at = "reading"
  /\ session
  /\ named' = (named \/ status \in InFlight)
  /\ IF status = "unreconciled" THEN Answer(t, "not_fulfilled") ELSE Goto(t, "asking", status)
  /\ UNCHANGED <<status, recorded, invoiced>>

\* The gateway cannot be asked about the order, or says nothing.
FailToAsk(t) ==
  /\ request[t].at = "asking"
  /\ \E outcome \in {"gateway_error", "unexpected_response"} : Answer(t, outcome)
  /\ UNCHANGED cart

\* The gateway is behind, or its answer cannot be read.
HearNothing(t) ==
  /\ request[t].at = "asking"
  /\ MoveIfUnmoved(request[t].seen, "payment_pending")
  /\ \E outcome \in {"pending", "unexpected_response"} : Answer(t, outcome)
  /\ UNCHANGED <<named, recorded, invoiced>>

\* end_unpaid, after the move every answer makes: the two moves are made on
\* the status the instance holds after the first.
HearUnpaid(t) ==
  /\ request[t].at = "asking"
  /\ payment \in Unpaid
  /\ LET seen == SeenAfter(request[t].seen, "payment_pending")
         stored == IF Moves(request[t].seen, "payment_pending") THEN "payment_pending" ELSE status
     IN  status' = IF CanMove(seen, "cancelled") /\ seen = stored THEN "cancelled" ELSE stored
  /\ Answer(t, payment)
  /\ UNCHANGED <<named, recorded, invoiced>>

\* A success is verified to be this cart's payment, and settled or refused.
HearSuccess(t) ==
  /\ request[t].at = "asking"
  /\ payment = "taken"
  /\ MoveIfUnmoved(request[t].seen, "payment_pending")
  /\ \E verdict \in {"settling", "holding"} :
       request' = [request EXCEPT ![t] =
         [at |-> verdict, seen |-> SeenAfter(request[t].seen, "payment_pending"),
          refusal |-> IF verdict = "holding" THEN "verification_failed" ELSE "not_fulfilled"]]
  /\ UNCHANGED <<payment, session, page, attempts, named, recorded, invoiced>>

\* The payment was settled and invoiced before: its invoice is the answer.
FindInvoice(t) ==
  /\ request[t].at = "settling"
  /\ invoiced
  /\ Answer(t, "paid")
  /\ UNCHANGED cart

\* The cart is past payment, the row is there already, or writing it fails.
RefuseSuccess(t) ==
  /\ request[t].at = "settling"
  /\ ~invoiced
  /\ Goto(t, "holding", request[t].seen)
  /\ UNCHANGED cart

\* handle_payment writes the row of a payment that is not what the cart
\* expected, and leaves the cart.
RecordRefused(t) ==
  /\ request[t].at = "settling"
  /\ ~invoiced /\ ~recorded
  /\ request[t].seen \in Settleable
  /\ recorded' = TRUE
  /\ Goto(t, "holding", request[t].seen)
  /\ UNCHANGED <<status, named, invoiced>>

\* The row and the move are written together, or neither.
Settle(t) ==
  /\ request[t].at = "settling"
  /\ ~invoiced /\ ~recorded
  /\ request[t].seen \in Settleable
  /\ MoveIfUnmoved(request[t].seen, "paid")
  /\ recorded' = Moves(request[t].seen, "paid")
  /\ Goto(t, IF recorded' THEN "issuing" ELSE "holding", SeenAfter(request[t].seen, "paid"))
  /\ UNCHANGED <<named, invoiced>>

\* The commit fails, and the instance still reads paid.
FailCommit(t) ==
  /\ request[t].at = "settling"
  /\ ~invoiced /\ ~recorded
  /\ Moves(request[t].seen, "paid")
  /\ Goto(t, "holding", "paid")
  /\ UNCHANGED cart

\* issue_invoice_and_fulfill.
Issue(t) ==
  /\ request[t].at = "issuing"
  /\ status = "paid"
  /\ invoiced' = TRUE
  /\ Answer(t, "paid")
  /\ UNCHANGED <<status, named, recorded>>

FailToIssue(t) ==
  /\ request[t].at = "issuing"
  /\ Goto(t, "holding", status)
  /\ UNCHANGED cart

\* hold_unreconciled.
Hold(t) ==
  /\ request[t].at = "holding"
  /\ IF request[t].seen \in {"payment_pending", "expired"}
     THEN MoveIfUnmoved(request[t].seen, "unreconciled") ELSE UNCHANGED status
  /\ Answer(t, request[t].refusal)
  /\ UNCHANGED <<named, recorded, invoiced>>

-----------------------------------------------------------------------------
(***************************************************************************)
(* Everyone else: the gateway, the hand-off, the learner buying again in   *)
(* another tab, and staff.                                                 *)
(***************************************************************************)
PaymentEnds ==
  /\ payment = "open"
  /\ payment' \in {"taken"} \cup Unpaid
  /\ UNCHANGED <<session, page, attempts, request, cart>>

\* A hand-off that raised, or a payment session that lapsed with no order.
GiveUp ==
  /\ status = "processing"
  /\ \/ status' = "closed"
     \/ ~named /\ status' = "expired"
  /\ UNCHANGED <<payment, named, recorded, invoiced, session, page, attempts, request>>

\* Staff invoice a paid cart, accept a held payment, or record its refund.
StaffInvoice ==
  /\ status \in {"paid", "unreconciled"} /\ ~invoiced
  /\ status' = "paid"
  /\ recorded' = TRUE
  /\ invoiced' \in BOOLEAN
  /\ status = "paid" => invoiced'
  /\ UNCHANGED <<payment, named, session, page, attempts, request>>

StaffRefund ==
  /\ status \in {"paid", "unreconciled"} /\ ~invoiced
  /\ status' = "refunded"
  /\ UNCHANGED <<payment, named, recorded, invoiced, session, page, attempts, request>>

-----------------------------------------------------------------------------
Serve(t) ==
  \/ RefuseStranger(t) \/ FailToTrace(t) \/ ReadCart(t)
  \/ FailToAsk(t) \/ HearNothing(t) \/ HearUnpaid(t) \/ HearSuccess(t)
  \/ FindInvoice(t) \/ RefuseSuccess(t) \/ RecordRefused(t) \/ Settle(t) \/ FailCommit(t)
  \/ Issue(t) \/ FailToIssue(t)
  \/ Hold(t)

Show(t) == Poll(t) \/ ShowInvoice(t) \/ ShowDecline(t)

Next ==
  \/ \E t \in Tabs :
       OpenPage(t) \/ OpenNameless(t) \/ Show(t) \/ LoseAnswer(t) \/ Serve(t) \/ Die(t)
  \/ LogIn \/ SessionExpires
  \/ PaymentEnds \/ GiveUp \/ StaffInvoice \/ StaffRefund

Spec == Init /\ [][Next]_vars

\* The browser runs its timers and follows its redirects, and a request is
\* served to its end or dies.
FairSpec == Spec /\ \A t \in Tabs : WF_vars(Show(t)) /\ WF_vars(Serve(t) \/ Die(t))

-----------------------------------------------------------------------------
TypeOK ==
  /\ payment \in {"open", "taken"} \cup Unpaid
  /\ status \in Statuses
  /\ named \in BOOLEAN
  /\ recorded \in BOOLEAN
  /\ invoiced \in BOOLEAN
  /\ session \in BOOLEAN
  /\ page \in [Tabs -> OnPage \cup Leaving \cup Staying]
  /\ attempts \in [Tabs -> 0..MaxAttempts]
  /\ request \in [Tabs -> Requests]

\* What a page says of the money is so, in whichever tab and however late: no
\* tab is told nothing was charged, or offered another attempt, when the
\* gateway took the payment; none is told that money was taken when it was
\* not; and none is sent to an invoice there is not.
ToldAsItIs ==
  \A t \in Tabs :
    /\ page[t] \in {"to_decline", "decline", "retry"} => payment \in Unpaid
    /\ page[t] = "reconciliation" => payment = "taken"
    /\ page[t] \in {"to_invoice", "invoice", "private"} => invoiced

\* An attempt offered again can be made: the cart of the payment that ended
\* no longer stands in its way, so the checkout does not send the learner back
\* to the page they came from.
RetryIsOpen == \A t \in Tabs : page[t] = "retry" => status \in NonBlocking

\* How many steps at most a load is from a page it stays on: an attempt is a
\* timer, a request of five steps at most, an answer and a page shown.
ToServe == [none |-> 0, holding |-> 1, issuing |-> 2, settling |-> 3, asking |-> 4, reading |-> 5]

StepsLeft(t) ==
  CASE page[t] = "asking" -> 8 * (MaxAttempts - attempts[t]) + 2 + ToServe[request[t].at]
    [] page[t] = "waiting" -> 8 * (MaxAttempts - attempts[t])
    [] page[t] \in Leaving -> 1
    [] page[t] \in Staying -> 0

\* No load goes on for ever, and none hangs: until a tab is on a page it stays
\* on, every step of it or of its poll, the lost answers, deaths and the
\* renewed logins of other tabs included, brings it nearer to one, no one
\* else's step takes it away, and a tab that waits for an answer has a poll.
WaitRunsDown ==
  [][\A t \in Tabs : page[t] \notin Staying =>
       /\ page[t] = "asking" => request[t] # NoRequest
       /\ StepsLeft(t)' <= StepsLeft(t)
       /\ <<page[t], request[t]>>' # <<page[t], request[t]>> => StepsLeft(t)' < StepsLeft(t)]_vars

\* A tab on the page always ends on another one: the attempts are bounded,
\* and a poll is answered, lost, or dead.
PageEnds == \A t \in Tabs : page[t] \in OnPage \cup Leaving ~> page[t] \in Staying
=============================================================================
