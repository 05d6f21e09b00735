------------------------- MODULE WaitingPageProofs -------------------------
(***************************************************************************)
(* Theorems about WaitingPage, for any tabs and attempts.  The invariant   *)
(* is PageInv: what a poll goes by between two of its steps still holds of *)
(* the payment and the cart (PollsInformed), and the cart of a payment     *)
(* that was not made is never taken for a sold one (SoldWasTaken).  That   *)
(* a load runs down is proved with OnePoll, tab by tab, from the one kind  *)
(* of step it may take (LoadStep).                                         *)
(***************************************************************************)
EXTENDS WaitingPage, TLAPS

Sold == {"paid", "unreconciled", "refunded"}

SoldWasTaken == status # "refund_requested" /\ (status \in Sold => payment = "taken")

\* What a poll read of the cart may be old, but the cart has gone on from it;
\* one past the gateway's answer has been told of a success.
PollsInformed ==
  \A t \in Tabs :
    /\ request[t].at = "asking" =>
         /\ request[t].seen # "processing" => status # "processing"
         /\ request[t].seen \notin InFlight => status \notin InFlight
    /\ request[t].at \in {"settling", "issuing", "holding"} => payment = "taken"

\* A learner sent on to pay again has a cart that is out of the way.
DeclinedIsOver == \A t \in Tabs : page[t] \in {"to_decline", "retry"} => status \notin InFlight

AttemptsLeft == \A t \in Tabs : page[t] = "waiting" => attempts[t] < MaxAttempts

PageInv ==
  /\ TypeOK
  /\ AttemptsLeft
  /\ SoldWasTaken
  /\ PollsInformed
  /\ DeclinedIsOver
  /\ ToldAsItIs

LEMMA InitPage == Init => PageInv
  <1> SUFFICES ASSUME Init
      PROVE  PageInv
    OBVIOUS
  <1>1. NoRequest \in Requests /\ NoRequest.at = "none"
    BY DEF NoRequest, Requests, Statuses
  <1>2. TypeOK
    <2>1. /\ page \in [Tabs -> OnPage \cup Leaving \cup Staying] /\ request \in [Tabs -> Requests]
          /\ attempts \in [Tabs -> 0..MaxAttempts]
      BY <1>1, PageAssumption DEF Init, Staying
    <2>2. payment \in {"open", "taken"} \cup Unpaid /\ status \in Statuses
      BY DEF Init, Statuses
    <2> QED
      BY <2>1, <2>2 DEF Init, TypeOK
  <1> QED
    BY <1>1, <1>2
    DEF Init, PageInv, AttemptsLeft, SoldWasTaken, PollsInformed, DeclinedIsOver, ToldAsItIs, Sold

(***************************************************************************)
(* How the cart moves, whoever moves it.                                   *)
(***************************************************************************)
CartOnward ==
  /\ status' \in Statuses \ {"refund_requested"}
  /\ status' # status => status' # "processing"
  /\ status \notin InFlight => status' \notin InFlight
  /\ status' \in Sold => payment = "taken"
  /\ named' \in BOOLEAN /\ recorded' \in BOOLEAN /\ invoiced' \in BOOLEAN
  /\ invoiced => invoiced'

LEMMA CartStays ==
  ASSUME PageInv, UNCHANGED cart
  PROVE  CartOnward
  BY DEF PageInv, TypeOK, SoldWasTaken, CartOnward, cart

LEMMA MoveOnward ==
  ASSUME PageInv, NEW seen \in Statuses, NEW new \in Statuses \ {"processing"}, MoveIfUnmoved(seen, new),
         new \in Sold => payment = "taken"
  PROVE  /\ status' \in Statuses \ {"refund_requested"}
         /\ status' # status => status' # "processing"
         /\ status \notin InFlight => status' \notin InFlight
         /\ status' \in Sold => payment = "taken"
  BY DEF PageInv, TypeOK, SoldWasTaken, MoveIfUnmoved, Moves, CanMove, StatusTransitions, Statuses,
     InFlight, Sold

\* Nothing a poll or a page goes by is taken back.
LEMMA InvKept ==
  ASSUME PageInv, CartOnward, UNCHANGED payment, TypeOK', AttemptsLeft',
         \A t \in Tabs :
           /\ request'[t].at \in {"settling", "issuing", "holding"} => payment = "taken"
           /\ request'[t].at = "asking" =>
                \/ request'[t] = request[t]
                \/ request'[t].seen = status /\ status' = status,
         \A t \in Tabs :
           \/ page'[t] = page[t]
           \/ /\ page'[t] \in {"to_decline", "decline", "retry"} => payment \in Unpaid
              /\ page'[t] \in {"to_decline", "retry"} => status' \notin InFlight
              /\ page'[t] = "reconciliation" => payment = "taken"
              /\ page'[t] \in {"to_invoice", "invoice", "private"} => invoiced'
  PROVE  PageInv'
  <1>1. SoldWasTaken'
    BY DEF CartOnward, SoldWasTaken
  <1>2. PollsInformed'
    BY DEF PageInv, PollsInformed, CartOnward, InFlight
  <1>3. DeclinedIsOver'
    BY DEF PageInv, DeclinedIsOver, CartOnward
  <1>4. ToldAsItIs'
    BY DEF PageInv, ToldAsItIs, CartOnward
  <1> QED
    BY <1>1, <1>2, <1>3, <1>4 DEF PageInv

(***************************************************************************)
(* The poll.                                                               *)
(***************************************************************************)
LEMMA RouteType ==
  ASSUME NEW outcome \in Outcomes, NEW n \in 0..MaxAttempts
  PROVE  /\ Route(outcome, n) \in OnPage \cup Leaving \cup Staying
         /\ Route(outcome, n) = "waiting" => n < MaxAttempts
         /\ Route(outcome, n) = "to_invoice" => outcome = "paid"
         /\ Route(outcome, n) = "to_decline" => outcome \in Unpaid
         /\ Route(outcome, n) = "reconciliation" => outcome \in {"not_fulfilled", "verification_failed"}
         /\ Route(outcome, n) \notin {"decline", "retry", "invoice", "private"}
  BY DEF Route, Outcomes, Unpaid, OnPage, Leaving, Staying

LEMMA AnswerStep ==
  ASSUME PageInv, CartOnward, NEW t \in Tabs, NEW outcome \in Outcomes, Answer(t, outcome),
         outcome = "paid" => invoiced',
         outcome \in Unpaid => payment \in Unpaid /\ status' \notin InFlight,
         outcome \in {"not_fulfilled", "verification_failed"} => payment = "taken"
  PROVE  PageInv'
  <1>0. TypeOK /\ attempts[t] \in 0..MaxAttempts
    BY DEF PageInv, TypeOK
  <1>1. /\ page' = [page EXCEPT ![t] = IF @ = "asking" THEN Route(outcome, attempts[t]) ELSE @]
        /\ request' = [request EXCEPT ![t] = NoRequest]
        /\ UNCHANGED <<payment, session, attempts>>
    BY DEF Answer
  <1>2. NoRequest \in Requests /\ NoRequest.at = "none"
    BY DEF NoRequest, Requests, Statuses
  <1>3. page'[t] = page[t] \/ page'[t] = Route(outcome, attempts[t])
    BY <1>0, <1>1 DEF TypeOK
  <1>4. \A u \in Tabs \ {t} : page'[u] = page[u] /\ request'[u] = request[u]
    BY <1>0, <1>1 DEF TypeOK
  <1>5. request'[t] = NoRequest /\ request' \in [Tabs -> Requests]
    BY <1>0, <1>1, <1>2 DEF TypeOK
  <1>6. page' \in [Tabs -> OnPage \cup Leaving \cup Staying]
    BY <1>0, <1>1, RouteType DEF TypeOK
  <1>7. TypeOK'
    BY <1>0, <1>1, <1>5, <1>6 DEF TypeOK, CartOnward
  <1>8. AttemptsLeft'
    BY <1>0, <1>1, <1>3, <1>4, RouteType DEF PageInv, AttemptsLeft
  <1>9. \A u \in Tabs :
           /\ request'[u].at \in {"settling", "issuing", "holding"} => payment = "taken"
           /\ request'[u].at = "asking" => request'[u] = request[u]
    BY <1>2, <1>4, <1>5 DEF PageInv, PollsInformed
  <1>10. \/ page'[t] = page[t]
         \/ /\ page'[t] \in {"to_decline", "decline", "retry"} => payment \in Unpaid
            /\ page'[t] \in {"to_decline", "retry"} => status' \notin InFlight
            /\ page'[t] = "reconciliation" => payment = "taken"
            /\ page'[t] \in {"to_invoice", "invoice", "private"} => invoiced'
    BY <1>0, <1>3, RouteType
  <1> QED
    BY <1>1, <1>4, <1>7, <1>8, <1>9, <1>10, InvKept

\* The poll goes on, past the gateway or to it.
LEMMA GoOnStep ==
  ASSUME PageInv, CartOnward, NEW t \in Tabs, UNCHANGED <<payment, session, page, attempts>>,
         NEW next \in Requests, request' = [request EXCEPT ![t] = next],
         next.at \in {"settling", "issuing", "holding"} => payment = "taken",
         next.at = "asking" => next.seen = status /\ status' = status
  PROVE  PageInv'
  <1>1. /\ request' \in [Tabs -> Requests] /\ request'[t] = next
        /\ \A u \in Tabs \ {t} : request'[u] = request[u]
    BY DEF PageInv, TypeOK
  <1>2. TypeOK' /\ AttemptsLeft'
    BY <1>1 DEF PageInv, TypeOK, AttemptsLeft, CartOnward
  <1> QED
    BY <1>1, <1>2, InvKept DEF PageInv, PollsInformed

LEMMA ServeStep ==
  ASSUME PageInv, NEW t \in Tabs, Serve(t)
  PROVE  PageInv'
  <1>0. /\ TypeOK /\ request[t] \in Requests /\ request[t].seen \in Statuses
        /\ status \in Statuses /\ SoldWasTaken
    BY DEF PageInv, TypeOK, Requests
  <1>1. CASE RefuseStranger(t) \/ FailToTrace(t) \/ FailToAsk(t)
    <2>1. UNCHANGED cart
      BY <1>1 DEF RefuseStranger, FailToTrace, FailToAsk
    <2>2. PICK outcome \in {"login_required", "gateway_error", "invalid_reference", "unexpected_response"} :
            Answer(t, outcome)
      BY <1>1 DEF RefuseStranger, FailToTrace, FailToAsk
    <2> QED
      BY <2>1, <2>2, AnswerStep, CartStays DEF Outcomes, Unpaid
  <1>2. CASE ReadCart(t)
    <2>1. CartOnward /\ status' = status
      BY <1>0, <1>2 DEF ReadCart, CartOnward, PageInv, TypeOK, SoldWasTaken
    <2>2. CASE status = "unreconciled"
      BY <1>0, <1>2, <2>1, <2>2, AnswerStep DEF ReadCart, Outcomes, Unpaid, SoldWasTaken, Sold
    <2>3. CASE status # "unreconciled"
      <3>1. Goto(t, "asking", status)
        BY <1>2, <2>3 DEF ReadCart
      <3>2. PICK next : next = [request[t] EXCEPT !.at = "asking", !.seen = status]
        OBVIOUS
      <3>3. next \in Requests /\ next.at = "asking" /\ next.seen = status
        BY <1>0, <3>2 DEF Requests
      <3> QED
        BY <2>1, <3>1, <3>2, <3>3, GoOnStep DEF Goto
    <2> QED
      BY <2>2, <2>3
  <1>3. CASE HearNothing(t)
    <2>1. CartOnward
      <3>1. MoveIfUnmoved(request[t].seen, "payment_pending") /\ UNCHANGED <<named, recorded, invoiced>>
        BY <1>3 DEF HearNothing
      <3> QED
        BY <1>0, <3>1, MoveOnward DEF CartOnward, TypeOK, Statuses, Sold
    <2>2. PICK outcome \in {"pending", "unexpected_response"} : Answer(t, outcome)
      BY <1>3 DEF HearNothing
    <2> QED
      BY <2>1, <2>2, AnswerStep DEF Outcomes, Unpaid
  <1>4. CASE HearUnpaid(t)
    <2>1. /\ request[t].at = "asking" /\ payment \in Unpaid
          /\ request[t].seen # "processing" => status # "processing"
          /\ request[t].seen \notin InFlight => status \notin InFlight
          /\ Answer(t, payment) /\ UNCHANGED <<named, recorded, invoiced>>
      BY <1>4 DEF HearUnpaid, PageInv, PollsInformed
    <2>2. status \notin Sold
      BY <1>0, <2>1 DEF SoldWasTaken, Unpaid
    <2>3. /\ status' \in Statuses \ ({"refund_requested", "processing"} \cup Sold)
          /\ status' \notin InFlight
      BY <1>0, <1>4, <2>1, <2>2
      DEF HearUnpaid, SeenAfter, Moves, CanMove, StatusTransitions, Statuses, InFlight, SoldWasTaken, Sold
    <2>4. CartOnward
      BY <1>0, <2>1, <2>3 DEF CartOnward, TypeOK
    <2> QED
      BY <2>1, <2>3, <2>4, AnswerStep DEF Outcomes, Unpaid
  <1>5. CASE HearSuccess(t)
    <2>1. /\ payment = "taken" /\ MoveIfUnmoved(request[t].seen, "payment_pending")
          /\ UNCHANGED <<payment, session, page, attempts, named, recorded, invoiced>>
      BY <1>5 DEF HearSuccess
    <2>2. CartOnward
      BY <1>0, <2>1, MoveOnward DEF CartOnward, TypeOK, Statuses
    <2>3. SeenAfter(request[t].seen, "payment_pending") \in Statuses
      BY <1>0 DEF SeenAfter, Statuses
    <2>4. PICK verdict \in {"settling", "holding"}, refusal \in {"not_fulfilled", "verification_failed"} :
            request' = [request EXCEPT ![t] =
              [at |-> verdict, seen |-> SeenAfter(request[t].seen, "payment_pending"), refusal |-> refusal]]
      BY <1>5 DEF HearSuccess
    <2>5. PICK next : next = [at |-> verdict, seen |-> SeenAfter(request[t].seen, "payment_pending"),
                              refusal |-> refusal]
      OBVIOUS
    <2>6. next \in Requests /\ next.at \in {"settling", "holding"}
      BY <2>3, <2>5 DEF Requests
    <2> QED
      BY <2>1, <2>2, <2>4, <2>5, <2>6, GoOnStep
  <1>6. CASE FindInvoice(t) \/ Issue(t)
    <2>1. /\ request[t].at \in {"settling", "issuing"} /\ invoiced' = TRUE /\ Answer(t, "paid")
          /\ UNCHANGED <<status, named, recorded>>
      BY <1>0, <1>6 DEF FindInvoice, Issue, cart, TypeOK
    <2>2. CartOnward
      BY <1>0, <2>1 DEF CartOnward, TypeOK, SoldWasTaken
    <2> QED
      BY <2>1, <2>2, AnswerStep DEF Outcomes, Unpaid
  <1>7. CASE Hold(t)
    <2>1. payment = "taken" /\ request[t].refusal \in {"not_fulfilled", "verification_failed"}
      BY <1>0, <1>7 DEF Hold, PageInv, PollsInformed, Requests
    <2>2. CartOnward
      <3>1. \/ MoveIfUnmoved(request[t].seen, "unreconciled")
            \/ UNCHANGED status
        BY <1>7 DEF Hold
      <3>2. UNCHANGED <<named, recorded, invoiced>>
        BY <1>7 DEF Hold
      <3> QED
        BY <1>0, <2>1, <3>1, <3>2, MoveOnward DEF CartOnward, TypeOK, Statuses, SoldWasTaken
    <2> QED
      BY <1>7, <2>1, <2>2, AnswerStep DEF Hold, Outcomes, Unpaid
  <1>8. CASE RefuseSuccess(t) \/ RecordRefused(t) \/ Settle(t) \/ FailCommit(t) \/ FailToIssue(t)
    <2>1. request[t].at \in {"settling", "issuing"} /\ payment = "taken"
      BY <1>8 DEF RefuseSuccess, RecordRefused, Settle, FailCommit, FailToIssue, PageInv, PollsInformed
    <2>2. CartOnward
      <3>1. CASE Settle(t)
        <4>1. /\ MoveIfUnmoved(request[t].seen, "paid") /\ UNCHANGED <<named, invoiced>>
              /\ recorded' \in BOOLEAN
          BY <3>1 DEF Settle, Moves
        <4> QED
          BY <1>0, <2>1, <4>1, MoveOnward DEF CartOnward, TypeOK, Statuses
      <3>2. CASE RecordRefused(t)
        BY <1>0, <3>2 DEF RecordRefused, CartOnward, TypeOK, SoldWasTaken
      <3>3. CASE UNCHANGED cart
        BY <3>3, CartStays
      <3> QED
        BY <1>8, <3>1, <3>2, <3>3 DEF RefuseSuccess, FailCommit, FailToIssue
    <2>3. PICK at \in {"holding", "issuing"}, seen \in Statuses : Goto(t, at, seen)
      <3>1. CASE Settle(t)
        <4>1. SeenAfter(request[t].seen, "paid") \in Statuses
          BY <1>0 DEF SeenAfter, Statuses
        <4> QED
          BY <3>1, <4>1 DEF Settle
      <3>2. CASE ~Settle(t)
        BY <1>0, <1>8, <3>2 DEF RefuseSuccess, RecordRefused, FailCommit, FailToIssue, Statuses
      <3> QED
        BY <3>1, <3>2
    <2>4. PICK next : next = [request[t] EXCEPT !.at = at, !.seen = seen]
      OBVIOUS
    <2>5. next \in Requests /\ next.at \in {"holding", "issuing"}
      BY <1>0, <2>4 DEF Requests
    <2> QED
      BY <2>1, <2>2, <2>3, <2>4, <2>5, GoOnStep DEF Goto
  <1> QED
    BY <1>1, <1>2, <1>3, <1>4, <1>5, <1>6, <1>7, <1>8 DEF Serve

(***************************************************************************)
(* The page, and everyone else.                                            *)
(***************************************************************************)
LEMMA TabStep ==
  ASSUME PageInv, NEW t \in Tabs,
         OpenPage(t) \/ OpenNameless(t) \/ Show(t) \/ LoseAnswer(t) \/ Die(t)
  PROVE  PageInv'
  <1>0. TypeOK /\ CartOnward /\ UNCHANGED <<payment, session, cart>>
    BY CartStays
    DEF PageInv, OpenPage, OpenNameless, Show, Poll, ShowInvoice, ShowDecline, LoseAnswer, Die
  <1>1. NoRequest \in Requests /\ [NoRequest EXCEPT !.at = "reading"] \in Requests
    BY DEF NoRequest, Requests, Statuses
  <1>2. /\ request' \in [Tabs -> Requests]
        /\ \A u \in Tabs : request'[u] = request[u] \/ request'[u].at \in {"none", "reading"}
    BY <1>0, <1>1
    DEF OpenPage, OpenNameless, Show, Poll, ShowInvoice, ShowDecline, LoseAnswer, Die, NoRequest, TypeOK
  <1>3. /\ page' \in [Tabs -> OnPage \cup Leaving \cup Staying]
        /\ \A u \in Tabs \ {t} : page'[u] = page[u] /\ attempts'[u] = attempts[u]
    BY <1>0
    DEF OpenPage, OpenNameless, Show, Poll, ShowInvoice, ShowDecline, LoseAnswer, Die, TypeOK, OnPage,
        Leaving, Staying
  <1>4. /\ attempts' \in [Tabs -> 0..MaxAttempts]
        /\ page'[t] = "waiting" => attempts'[t] < MaxAttempts
    BY <1>0, PageAssumption
    DEF OpenPage, OpenNameless, Show, Poll, ShowInvoice, ShowDecline, LoseAnswer, Die, PageInv,
        AttemptsLeft, TypeOK
  <1>5. TypeOK' /\ AttemptsLeft'
    BY <1>0, <1>2, <1>3, <1>4 DEF PageInv, AttemptsLeft, TypeOK, cart
  <1>6. \/ page'[t] = page[t]
        \/ page'[t] \in {"waiting", "asking", "error", "unconfirmed"}
        \/ page'[t] \in {"invoice", "private"} /\ page[t] = "to_invoice"
        \/ page'[t] \in {"retry", "decline"} /\ page[t] = "to_decline"
    BY <1>0
    DEF OpenPage, OpenNameless, Show, Poll, ShowInvoice, ShowDecline, LoseAnswer, Die, TypeOK
  <1>7. \/ page'[t] = page[t]
        \/ /\ page'[t] \in {"to_decline", "decline", "retry"} => payment \in Unpaid
           /\ page'[t] \in {"to_decline", "retry"} => status' \notin InFlight
           /\ page'[t] = "reconciliation" => payment = "taken"
           /\ page'[t] \in {"to_invoice", "invoice", "private"} => invoiced'
    BY <1>0, <1>6 DEF PageInv, ToldAsItIs, DeclinedIsOver, cart
  <1>8. \A u \in Tabs :
          /\ request'[u].at \in {"settling", "issuing", "holding"} => payment = "taken"
          /\ request'[u].at = "asking" => request'[u] = request[u]
    BY <1>2 DEF PageInv, PollsInformed
  <1> QED
    BY <1>0, <1>3, <1>5, <1>7, <1>8, InvKept

LEMMA LogInStep ==
  ASSUME PageInv, LogIn \/ SessionExpires
  PROVE  PageInv'
  <1>0. TypeOK /\ CartOnward /\ UNCHANGED <<payment, request, cart>> /\ session' \in BOOLEAN
    BY CartStays DEF PageInv, LogIn, SessionExpires
  <1>1. /\ page' \in [Tabs -> OnPage \cup Leaving \cup Staying]
        /\ attempts' \in [Tabs -> 0..MaxAttempts]
        /\ \A u \in Tabs : \/ page'[u] = page[u] /\ attempts'[u] = attempts[u]
                           \/ page'[u] = "waiting" /\ attempts'[u] = 0
    BY <1>0, PageAssumption DEF LogIn, SessionExpires, TypeOK, OnPage, Leaving, Staying
  <1>2. TypeOK' /\ AttemptsLeft'
    BY <1>0, <1>1, PageAssumption DEF PageInv, AttemptsLeft, TypeOK, cart
  <1> QED
    BY <1>0, <1>1, <1>2, InvKept DEF PageInv, PollsInformed

LEMMA OthersStep ==
  ASSUME PageInv, PaymentEnds \/ GiveUp \/ StaffInvoice \/ StaffRefund
  PROVE  PageInv'
  <1>0. TypeOK /\ UNCHANGED <<session, page, attempts, request>>
    BY DEF PageInv, PaymentEnds, GiveUp, StaffInvoice, StaffRefund
  <1>1. CASE PaymentEnds
    <2>1. payment = "open" /\ payment' \in {"taken"} \cup Unpaid /\ UNCHANGED cart
      BY <1>1 DEF PaymentEnds
    <2> QED
      BY <1>0, <2>1
      DEF PageInv, TypeOK, AttemptsLeft, SoldWasTaken, PollsInformed, DeclinedIsOver, ToldAsItIs, cart,
          Unpaid
  <1>2. CASE GiveUp \/ StaffInvoice \/ StaffRefund
    <2>1. CartOnward /\ UNCHANGED payment
      BY <1>2
      DEF GiveUp, StaffInvoice, StaffRefund, CartOnward, PageInv, TypeOK, SoldWasTaken, Statuses,
          InFlight, Sold
    <2>2. TypeOK' /\ AttemptsLeft'
      BY <1>0, <2>1 DEF PageInv, AttemptsLeft, TypeOK, CartOnward
    <2> QED
      BY <1>0, <2>1, <2>2, InvKept DEF PageInv, PollsInformed
  <1> QED
    BY <1>1, <1>2

LEMMA PageKept == Spec => []PageInv
  <1>1. PageInv /\ [Next]_vars => PageInv'
    <2>1. ASSUME PageInv, UNCHANGED vars
          PROVE  PageInv'
      BY <2>1
      DEF vars, PageInv, TypeOK, AttemptsLeft, SoldWasTaken, PollsInformed, DeclinedIsOver, ToldAsItIs
    <2> QED
      BY <2>1, ServeStep, TabStep, LogInStep, OthersStep DEF Next
  <1> QED
    BY InitPage, <1>1, PTL DEF Spec

-----------------------------------------------------------------------------
\* However often the page is loaded, no tab polls more than MAX_ATTEMPTS times
\* for one load; everything else keeps its type too.
THEOREM PageTypeCorrect == Spec => []TypeOK
  <1>1. PageInv => TypeOK
    BY DEF PageInv
  <1> QED
    BY PageKept, <1>1, PTL

\* The answers of the status view and where wait_feedback.html goes on them: in
\* whichever of any number of tabs, nobody whose payment was taken is shown a
\* decline, nobody whose payment was not is told it was, and nobody is sent to
\* an invoice there is not.
THEOREM PagesTellAsItIs == Spec => []ToldAsItIs
  <1>1. PageInv => ToldAsItIs
    BY DEF PageInv
  <1> QED
    BY PageKept, <1>1, PTL

\* end_unpaid and PaymentDeclineView: the cart of a learner offered another
\* attempt no longer holds the course.
THEOREM RetriesAreOpen == Spec => []RetryIsOpen
  <1>1. PageInv => RetryIsOpen
    BY DEF PageInv, TypeOK, SoldWasTaken, DeclinedIsOver, ToldAsItIs, RetryIsOpen, Sold, Statuses,
       InFlight, NonBlocking, Unpaid
  <1> QED
    BY PageKept, <1>1, PTL

(***************************************************************************)
(* How far a load has come.                                                *)
(***************************************************************************)
\* A tab has a poll exactly while it waits for its answer; one that left
\* without the answer may have it still.
OnePoll(t) ==
  /\ page[t] = "asking" => request[t].at # "none"
  /\ page[t] \in {"waiting"} \cup Leaving => request[t] = NoRequest

\* What a step may do to a tab: nothing, load the page in it, or one step of
\* the load it has.
LoadStep(t) ==
  \/ page'[t] = page[t] /\ request'[t] = request[t] /\ attempts'[t] = attempts[t]
  \/ /\ page[t] \in Staying
     /\ \/ page'[t] \in Staying
        \/ page'[t] = "waiting" /\ request'[t] = NoRequest
  \/ /\ page[t] = "waiting" /\ page'[t] = "asking"
     /\ attempts'[t] = attempts[t] + 1 /\ request'[t].at = "reading"
  \/ page[t] \in {"asking"} \cup Leaving /\ page'[t] \in Staying
  \/ /\ request[t].at # "none" /\ request'[t] = NoRequest /\ attempts'[t] = attempts[t]
     /\ page'[t] # "asking"
     /\ page[t] = "asking" => page'[t] \in {"waiting"} \cup Leaving \cup Staying
     /\ page[t] # "asking" => page'[t] = page[t]
  \/ /\ page'[t] = page[t] /\ attempts'[t] = attempts[t]
     /\ request[t].at # "none" /\ request'[t].at # "none"
     /\ ToServe[request'[t].at] < ToServe[request[t].at]

LEMMA StepsLeftIs ==
  ASSUME TypeOK, NEW t \in Tabs
  PROVE  /\ ToServe[request[t].at] \in 0..5
         /\ request[t].at # "none" => ToServe[request[t].at] > 0
         /\ page[t] = "asking" =>
              StepsLeft(t) = 8 * (MaxAttempts - attempts[t]) + 2 + ToServe[request[t].at]
         /\ page[t] = "waiting" => StepsLeft(t) = 8 * (MaxAttempts - attempts[t])
         /\ page[t] \in Leaving => StepsLeft(t) = 1
         /\ page[t] \in Staying => StepsLeft(t) = 0
         /\ page[t] \in {"asking", "waiting"} \cup Leaving \cup Staying
         /\ attempts[t] \in 0..MaxAttempts /\ MaxAttempts \in Nat
  <1>1. /\ request[t].at \in {"none", "reading", "asking", "settling", "issuing", "holding"}
        /\ page[t] \in OnPage \cup Leaving \cup Staying
        /\ attempts[t] \in 0..MaxAttempts
    BY DEF TypeOK, Requests
  <1>2. /\ ToServe[request[t].at] \in 0..5
        /\ request[t].at # "none" => ToServe[request[t].at] > 0
    BY <1>1 DEF ToServe
  <1> QED
    BY <1>1, <1>2, PageAssumption DEF StepsLeft, OnPage, Leaving, Staying

LEMMA AnswerLoads ==
  ASSUME TypeOK, NEW t \in Tabs, NEW outcome \in Outcomes, Answer(t, outcome), request[t].at # "none"
  PROVE  \A u \in Tabs : LoadStep(u)
  <1>1. attempts[t] \in 0..MaxAttempts
    BY DEF TypeOK
  <1>2. Route(outcome, attempts[t]) \in {"waiting"} \cup Leaving \cup Staying
    BY <1>1 DEF Route, Outcomes, Unpaid, Leaving, Staying
  <1>3. ASSUME NEW u \in Tabs \ {t}
        PROVE  LoadStep(u)
    BY <1>3 DEF Answer, TypeOK, LoadStep
  <1>4. /\ page'[t] = IF page[t] = "asking" THEN Route(outcome, attempts[t]) ELSE page[t]
        /\ request'[t] = NoRequest /\ attempts'[t] = attempts[t]
    BY DEF Answer, TypeOK
  <1>5. page'[t] # "asking"
    BY <1>2, <1>4 DEF Leaving, Staying
  <1>6. LoadStep(t)
    BY <1>2, <1>4, <1>5 DEF LoadStep
  <1> QED
    BY <1>3, <1>6

LEMMA GotoLoads ==
  ASSUME TypeOK, NEW t \in Tabs, NEW next, request' = [request EXCEPT ![t] = next],
         request[t].at # "none", next.at # "none", ToServe[next.at] < ToServe[request[t].at],
         UNCHANGED <<page, attempts>>
  PROVE  \A u \in Tabs : LoadStep(u)
  BY DEF TypeOK, LoadStep

LEMMA ServeLoads ==
  ASSUME TypeOK, NEW t \in Tabs, Serve(t)
  PROVE  \A u \in Tabs : LoadStep(u)
  <1>0. /\ request[t] \in Requests /\ payment \in {"open", "taken"} \cup Unpaid
        /\ status \in Statuses /\ request[t].seen \in Statuses
    BY DEF TypeOK, Requests
  <1>1. CASE \E outcome \in Outcomes : Answer(t, outcome) /\ request[t].at # "none"
    BY <1>1, AnswerLoads
  <1>2. CASE \E at \in {"asking", "holding", "issuing"}, seen \in Statuses :
               /\ Goto(t, at, seen) /\ request[t].at # "none"
               /\ ToServe[at] < ToServe[request[t].at]
    <2>1. PICK at \in {"asking", "holding", "issuing"}, seen \in Statuses :
            /\ Goto(t, at, seen) /\ request[t].at # "none" /\ ToServe[at] < ToServe[request[t].at]
      BY <1>2
    <2>2. PICK next : next = [request[t] EXCEPT !.at = at, !.seen = seen]
      OBVIOUS
    <2>3. next.at = at
      BY <1>0, <2>2 DEF Requests
    <2> QED
      BY <2>1, <2>2, <2>3, GotoLoads DEF Goto
  <1>3. CASE HearSuccess(t)
    <2>1. PICK verdict \in {"settling", "holding"} :
            request' = [request EXCEPT ![t] =
              [at |-> verdict, seen |-> SeenAfter(request[t].seen, "payment_pending"),
               refusal |-> IF verdict = "holding" THEN "verification_failed" ELSE "not_fulfilled"]]
      BY <1>3 DEF HearSuccess
    <2>2. request[t].at = "asking" /\ UNCHANGED <<page, attempts>>
      BY <1>3 DEF HearSuccess
    <2>3. PICK next :
            next = [at |-> verdict, seen |-> SeenAfter(request[t].seen, "payment_pending"),
               refusal |-> IF verdict = "holding" THEN "verification_failed" ELSE "not_fulfilled"]
      OBVIOUS
    <2>4. next.at # "none" /\ ToServe[next.at] < ToServe[request[t].at]
      BY <2>2, <2>3 DEF ToServe
    <2> QED
      BY <2>1, <2>2, <2>3, <2>4, GotoLoads
  <1>4. CASE RefuseStranger(t) \/ FailToTrace(t) \/ FailToAsk(t) \/ HearNothing(t) \/ HearUnpaid(t)
    BY <1>1, <1>4
    DEF RefuseStranger, FailToTrace, FailToAsk, HearNothing, HearUnpaid, Outcomes
  <1>5. CASE FindInvoice(t) \/ Issue(t) \/ Hold(t)
    BY <1>0, <1>1, <1>5 DEF FindInvoice, Issue, Hold, Requests, Outcomes
  <1>6. CASE ReadCart(t)
    BY <1>0, <1>1, <1>2, <1>6 DEF ReadCart, Outcomes, ToServe
  <1>7. CASE RefuseSuccess(t) \/ RecordRefused(t) \/ FailToIssue(t)
    BY <1>0, <1>2, <1>7 DEF RefuseSuccess, RecordRefused, FailToIssue, ToServe
  <1>8. CASE Settle(t) \/ FailCommit(t)
    <2>1. "paid" \in Statuses
      BY DEF Statuses
    <2>2. SeenAfter(request[t].seen, "paid") \in Statuses
      BY <1>0, <2>1 DEF SeenAfter
    <2>3. PICK at \in {"issuing", "holding"}, seen \in Statuses : Goto(t, at, seen)
      <3>1. CASE Settle(t)
        BY <2>2, <3>1 DEF Settle
      <3>2. CASE FailCommit(t)
        BY <2>1, <3>2 DEF FailCommit
      <3> QED
        BY <1>8, <3>1, <3>2
    <2>4. request[t].at = "settling"
      BY <1>8 DEF Settle, FailCommit
    <2> QED
      BY <1>2, <2>3, <2>4 DEF ToServe
  <1> QED
    BY <1>3, <1>4, <1>5, <1>6, <1>7, <1>8 DEF Serve

LEMMA NextLoads ==
  ASSUME TypeOK, \A t \in Tabs : OnePoll(t), [Next]_vars
  PROVE  \A u \in Tabs : LoadStep(u)
  <1>1. ASSUME NEW t \in Tabs, OpenPage(t) \/ OpenNameless(t)
        PROVE  \A u \in Tabs : LoadStep(u)
    BY <1>1 DEF OpenPage, OpenNameless, TypeOK, LoadStep, Staying
  <1>2. ASSUME NEW t \in Tabs, Show(t)
        PROVE  \A u \in Tabs : LoadStep(u)
    BY <1>2 DEF Show, Poll, ShowInvoice, ShowDecline, TypeOK, LoadStep, Leaving, Staying, NoRequest
  <1>3. ASSUME NEW t \in Tabs, LoseAnswer(t)
        PROVE  \A u \in Tabs : LoadStep(u)
    BY <1>3 DEF LoseAnswer, TypeOK, LoadStep, Staying
  <1>4. ASSUME NEW t \in Tabs, Die(t)
        PROVE  \A u \in Tabs : LoadStep(u)
    <2>1. page[t] \in {"asking"} \cup Staying
      BY <1>4 DEF Die, OnePoll, TypeOK, OnPage
    <2>2. /\ request'[t] = NoRequest /\ attempts' = attempts
          /\ page'[t] = IF page[t] = "asking" THEN "unconfirmed" ELSE page[t]
          /\ \A u \in Tabs \ {t} : page'[u] = page[u] /\ request'[u] = request[u]
      BY <1>4 DEF Die, TypeOK
    <2>3. CASE page[t] = "asking"
      BY <2>2, <2>3 DEF LoadStep, Staying
    <2>4. CASE page[t] \in Staying
      BY <2>2, <2>4 DEF LoadStep, Staying
    <2> QED
      BY <2>1, <2>3, <2>4
  <1>5. ASSUME LogIn
        PROVE  \A u \in Tabs : LoadStep(u)
    BY <1>5 DEF LogIn, TypeOK, LoadStep, Staying
  <1>6. ASSUME UNCHANGED <<page, attempts, request>>
        PROVE  \A u \in Tabs : LoadStep(u)
    BY <1>6 DEF LoadStep
  <1> QED
    BY <1>1, <1>2, <1>3, <1>4, <1>5, <1>6, ServeLoads
    DEF Next, vars, SessionExpires, PaymentEnds, GiveUp, StaffInvoice, StaffRefund

LEMMA OnePollKept ==
  ASSUME NEW t \in Tabs, OnePoll(t), LoadStep(t)
  PROVE  OnePoll(t)'
  BY DEF OnePoll, LoadStep, NoRequest, Leaving, Staying

LEMMA LoadRunsDown ==
  ASSUME TypeOK, TypeOK', NEW t \in Tabs, OnePoll(t), LoadStep(t), page[t] \notin Staying
  PROVE  /\ page[t] = "asking" => request[t] # NoRequest
         /\ StepsLeft(t)' <= StepsLeft(t)
         /\ <<page[t], request[t]>>' # <<page[t], request[t]>> => StepsLeft(t)' < StepsLeft(t)
  <1> DEFINE Before == ToServe[request[t].at]
             After == ToServe[request'[t].at]
  <1>1. /\ Before \in 0..5 /\ (request[t].at # "none" => Before > 0)
        /\ page[t] = "asking" => StepsLeft(t) = 8 * (MaxAttempts - attempts[t]) + 2 + Before
        /\ page[t] = "waiting" => StepsLeft(t) = 8 * (MaxAttempts - attempts[t])
        /\ page[t] \in Leaving => StepsLeft(t) = 1
        /\ page[t] \in {"asking", "waiting"} \cup Leaving
        /\ attempts[t] \in 0..MaxAttempts /\ MaxAttempts \in Nat
    BY StepsLeftIs
  <1>2. /\ After \in 0..5
        /\ page'[t] = "asking" => StepsLeft(t)' = 8 * (MaxAttempts - attempts'[t]) + 2 + After
        /\ page'[t] = "waiting" => StepsLeft(t)' = 8 * (MaxAttempts - attempts'[t])
        /\ page'[t] \in Leaving => StepsLeft(t)' = 1
        /\ page'[t] \in Staying => StepsLeft(t)' = 0
        /\ attempts'[t] \in 0..MaxAttempts
    <2>1. /\ request'[t].at \in {"none", "reading", "asking", "settling", "issuing", "holding"}
          /\ attempts'[t] \in 0..MaxAttempts
      BY DEF TypeOK, Requests
    <2> QED
      BY <2>1 DEF StepsLeft, ToServe, Leaving, Staying
  <1>3. page[t] = "asking" => request[t] # NoRequest
    BY DEF OnePoll, NoRequest
  <1> QED
    BY <1>1, <1>2, <1>3 DEF LoadStep, OnePoll, Leaving, Staying, NoRequest

\* The script of wait_feedback.html and the poll it waits for, which is
\* PaymentStatusViewMixin.get: for any number of tabs, any MAX_ATTEMPTS and
\* whatever fails meanwhile, a load is at most 8 * MAX_ATTEMPTS steps from a
\* page it stays on, each step of it is one less, and none of its waits is for
\* an answer nobody is to give.
THEOREM WaitsRunDown == Spec => WaitRunsDown
  <1>1. Init => \A t \in Tabs : OnePoll(t)
    BY DEF Init, OnePoll, NoRequest, Leaving
  <1>2. PageInv /\ (\A t \in Tabs : OnePoll(t)) /\ [Next]_vars => (\A t \in Tabs : OnePoll(t))'
    BY NextLoads, OnePollKept DEF PageInv
  <1>3. Spec => [](\A t \in Tabs : OnePoll(t))
    BY <1>1, <1>2, PageKept, PTL DEF Spec
  <1>4. PageInv /\ PageInv' /\ (\A t \in Tabs : OnePoll(t)) /\ [Next]_vars =>
          [\A t \in Tabs : page[t] \notin Staying =>
             /\ page[t] = "asking" => request[t] # NoRequest
             /\ StepsLeft(t)' <= StepsLeft(t)
             /\ <<page[t], request[t]>>' # <<page[t], request[t]>> => StepsLeft(t)' < StepsLeft(t)]_vars
    BY NextLoads, LoadRunsDown DEF PageInv
  <1> QED
    BY <1>3, <1>4, PageKept, PTL DEF Spec, WaitRunsDown
=============================================================================
